------------------------------ MODULE BumpGate ------------------------------
(***************************************************************************)
(* The automated bump pull requests: bump-upstream-sources.yml (and its    *)
(* Rawhide sibling) propose them, bump-upstream-gate.yml builds, trims and *)
(* hands them over, bump-upstream-enqueue.yml lands them, with the         *)
(* decisions of tools/bump_gate.py.  A branch moves under its gate: the    *)
(* next daily bump, a push by hand, and the gate itself all write to it.   *)
(*                                                                         *)
(* A tree is what the decisions read of a commit: the locked version of    *)
(* each package (0: none), the held versions, the packages that only a     *)
(* human may move, and the multimedia report.                              *)
(***************************************************************************)
EXTENDS Naturals, FiniteSets

CONSTANTS
    Branches,    \* the branches that have a gate; "upstream" is the daily bump's
    Packages,
    Codecs,      \* packages reports/multimedia-closure.json records
    MaxVersion,  \* bound: versions upstream releases
    Broken,      \* <<package, version>> that never build
    Flaky,       \* <<package, version>> that may fail to build
    MaxDaily,    \* bound: bumps the daily runs push
    MaxHand,     \* bound: commits and merges made by hand
    MaxHanded,   \* bound: enqueue runs in flight
    MayFail      \* which Canary runs may fail: those "sent" here, those "parked"

ASSUME GateAssumption ==
    /\ "upstream" \in Branches /\ Codecs \subseteq Packages /\ MayFail \subseteq {"sent", "parked"}
    /\ MaxVersion \in Nat \ {0} /\ MaxDaily \in Nat /\ MaxHand \in Nat /\ MaxHanded \in Nat
    /\ Broken \cup Flaky \subseteq Packages \X (0..MaxVersion)

VARIABLES
    main,      \* the tree at the head of main
    released,  \* the newest upstream version of each package
    head,      \* the commit each branch points to, or None
    open,      \* which branch has an open pull request
    gate,      \* the gate run of each branch
    next,      \* the gate run waiting for it: concurrency, cancel-in-progress
    checks,    \* the Canary check runs on the commit each branch points to
    handed,    \* the enqueue runs in flight
    queue,     \* the merge queue
    posts,     \* the verdicts commented, and how often
    tally,     \* commits pushed, what was done by hand, gates asked for over another
    proved,    \* (history) moves built whole by a gate
    fell       \* (history) <<package, version>> that failed in a gate

vars == <<main, released, head, open, gate, next, checks, handed, queue, posts, tally, proved, fell>>

None == [id |-> 0]
Ids == Nat \ {0}
Zero == [p \in Packages |-> 0]

\* A pull request's commit: its tree, the tree it forked from, and what it
\* touches: "lock" for lock entries with their recipes, "recipes" for recipes
\* alone, "foreign" for anything else besides.
Commit(id, base, tree, kind) == [id |-> id, base |-> base, tree |-> tree, kind |-> kind]

----------------------------------------------------------------------------
(* bump_gate.py: what a bump may change, and what it changes *)

Differs(c) == {p \in Packages : c.tree.lock[p] # c.base.lock[p]}

Removed(c) == {p \in Differs(c) : c.tree.lock[p] = 0}

\* Packages whose lock entry differs at the head.
Moved(c) == IF c.kind = "recipes" THEN {} ELSE Differs(c) \ Removed(c)

Bumped(c) == Differs(c)

Move(c) == [p \in Differs(c) |-> c.tree.lock[p]]

\* The holds moved and nothing else did: the lock's bytes may differ only.
HoldsOnly(c) ==
    /\ Bumped(c) = {} /\ c.tree.hold # c.base.hold
    /\ c.tree.report = c.base.report

\* Mutant: a package that is gone from the head is let through.
PlanAllowingRemoval(c) ==
    c.kind # "foreign" /\ Moved(c) \cap c.tree.guarded = {} /\ (Bumped(c) # {} \/ HoldsOnly(c))

\* plan: the recipes a gate may build and land, or a refusal.
PlanAccepts(c) ==
    /\ c.kind # "foreign"
    /\ Moved(c) \cap c.tree.guarded = {}
    /\ Removed(c) = {}
    /\ Bumped(c) # {} \/ HoldsOnly(c)

\* decide: the outcome is what the build job reported, if it reported.
Outcome(result, reported, selected, failed) ==
    [result |-> result, reported |-> reported, selected |-> selected, failed |-> failed]

Untried == Outcome("skipped", FALSE, {}, {})

\* Mutant: no failure is a success, whether or not anything was reported.
VerdictOfFailures(names, out) == names # {} /\ out.failed = {}

Verdict(names, out) ==
    /\ names # {} /\ out.result = "success" /\ out.reported
    /\ out.failed = {} /\ names \subseteq out.selected

HoldsOnlyVerdict(names, out) == names = {} /\ out.result = "skipped"

\* Mutant: every bumped package is held when any of them fails.
HoldableAll(names, out) ==
    IF /\ names # {} /\ out.reported /\ out.result \in {"success", "failure"}
       /\ out.failed # {} /\ out.failed \subseteq names
    THEN names ELSE {}

Holdable(names, out) ==
    IF /\ names # {} /\ out.reported /\ out.result \in {"success", "failure"}
       /\ names \subseteq out.selected
       /\ out.failed # {} /\ out.failed \subseteq names
    THEN out.failed ELSE {}

\* Mutant: the failed packages are taken out and no hold is recorded.
TrimUnrecorded(c, held, id) ==
    Commit(id, c.base,
        [c.tree EXCEPT !.lock = [p \in Packages |-> IF p \in held THEN c.base.lock[p] ELSE c.tree.lock[p]]],
        c.kind)

\* trim: the held packages go back to the merge base, and the rest stays.
Trim(c, held, id) ==
    Commit(id, c.base,
        [c.tree EXCEPT
            !.lock = [p \in Packages |-> IF p \in held THEN c.base.lock[p] ELSE c.tree.lock[p]],
            !.hold = [p \in Packages |-> IF p \notin held THEN c.tree.hold[p]
                                         ELSE IF c.kind = "recipes" THEN c.base.lock[p] ELSE c.tree.lock[p]]],
        c.kind)

----------------------------------------------------------------------------
(* Proposals *)

IdleGate == [phase |-> "idle", commit |-> None, pr |-> "none", out |-> Untried,
             hold |-> {}, approved |-> FALSE]

Run(c, pr) == [IdleGate EXCEPT !.phase = "plan", !.commit = c, !.pr = pr]

Quiet == [sent |-> "none", parked |-> "none"]

\* A push to a branch: the merge queue drops its pull request.  GitHub parks
\* the pull_request runs of what the bot pushed, and starts the others.
Pushed(b, c, by) ==
    /\ head' = [head EXCEPT ![b] = c]
    /\ checks' = [checks EXCEPT ![b] = [sent |-> "none", parked |-> IF by = "hand" THEN "pending" ELSE "parked"]]
    /\ queue' = {q \in queue : q.branch # b}
    /\ tally' = [tally EXCEPT ![by] = @ + 1]

NewId == tally.daily + tally.hand + tally.trim + 1

\* What upstream_bump.py proposes: newer than main, not held at that version,
\* and not for a human alone.  A Rawhide re-import asks none of this.
Proposal(b, newest) ==
    {p \in Packages : newest[p] # main.lock[p]
        /\ (b = "upstream" => main.hold[p] # newest[p] /\ p \notin main.guarded)}

Proposed(b, newest, id) ==
    LET up == Proposal(b, newest) IN
    Commit(id, main,
        [main EXCEPT
            !.lock = [p \in Packages |-> IF p \in up THEN newest[p] ELSE main.lock[p]],
            !.hold = [p \in Packages |-> IF p \in up /\ b = "upstream" THEN 0 ELSE main.hold[p]],
            !.report = [p \in Packages |->
                IF b = "upstream" /\ p \in up \cap Codecs THEN newest[p] ELSE main.report[p]]],
        IF b = "upstream" THEN "lock" ELSE "recipes")

\* The daily run rebuilds its branch on main with what is released by then,
\* or leaves it when nothing moved.
Propose(b) ==
    /\ tally.daily + tally.again < MaxDaily
    /\ \E newest \in [Packages -> 1..MaxVersion] :
          LET c == Proposed(b, newest, NewId) IN
          /\ \A p \in Packages : newest[p] >= released[p]
          /\ Proposal(b, newest) # {}
          /\ head[b] # None => <<head[b].base, head[b].tree>> # <<main, c.tree>>
          /\ Pushed(b, c, "daily")
          /\ released' = newest
          /\ next' = [next EXCEPT ![b] = Run(c, b)]
    /\ open' = open \cup {b}
    /\ UNCHANGED <<main, gate, handed, posts, proved, fell>>

\* ... and gates it again every day it is still open, over a gate that is not
\* done by then, which MaxDaily bounds as it bounds the bumps.
GateAgain(b) ==
    /\ b \in open /\ head[b] # None
    /\ IF gate[b] = IdleGate /\ next[b] = IdleGate THEN UNCHANGED tally
       ELSE tally.daily + tally.again < MaxDaily /\ tally' = [tally EXCEPT !.again = @ + 1]
    /\ next' = [next EXCEPT ![b] = Run(head[b], b)]
    /\ UNCHANGED <<main, released, head, open, gate, checks, handed, queue, posts, proved, fell>>

\* Mutant: the branch goes and its pull request stays.
WithdrawBranch(b) ==
    /\ b \in open /\ Proposal(b, released) = {}
    /\ head' = [head EXCEPT ![b] = None] /\ queue' = {q \in queue : q.branch # b}
    /\ UNCHANGED <<main, released, open, gate, next, checks, handed, posts, tally, proved, fell>>

\* Nothing is left to propose: the pull request closes and its branch goes.
Withdraw(b) ==
    /\ b \in open /\ Proposal(b, released) = {}
    /\ open' = open \ {b} /\ head' = [head EXCEPT ![b] = None]
    /\ queue' = {q \in queue : q.branch # b}
    /\ UNCHANGED <<main, released, gate, next, checks, handed, posts, tally, proved, fell>>

\* Somebody pushes to a bump branch: another version, a removal, a workflow.
PushByHand(b) ==
    /\ b \in open /\ tally.hand < MaxHand
    /\ \/ \E p \in Packages, v \in 0..MaxVersion :
             /\ v # head[b].tree.lock[p]
             /\ Pushed(b, [head[b] EXCEPT !.id = NewId, !.tree.lock[p] = v], "hand")
       \/ Pushed(b, [head[b] EXCEPT !.id = NewId, !.kind = "foreign"], "hand")
    /\ UNCHANGED <<main, released, open, gate, next, handed, posts, proved, fell>>

\* A reviewed pull request lands that keeps a package for a human.
GuardByHand(p) ==
    /\ p \notin main.guarded /\ tally.hand < MaxHand
    /\ main' = [main EXCEPT !.guarded = @ \cup {p}]
    /\ tally' = [tally EXCEPT !.hand = @ + 1]
    /\ UNCHANGED <<released, head, open, gate, next, checks, handed, queue, posts, proved, fell>>

----------------------------------------------------------------------------
(* The gate run *)

Now(b, g) == gate' = [gate EXCEPT ![b] = g]

\* One gate at a time on a branch: the newer one waits for the older to end.
Start(b) ==
    /\ gate[b] = IdleGate /\ next[b] # IdleGate
    /\ Now(b, next[b]) /\ next' = [next EXCEPT ![b] = IdleGate]
    /\ UNCHANGED <<main, released, head, open, checks, handed, queue, posts, tally, proved, fell>>

\* ... and the older one is cancelled, between any two of its steps.
Cancel(b) ==
    /\ gate[b] # IdleGate /\ next[b] # IdleGate
    /\ Now(b, IdleGate)
    /\ UNCHANGED <<main, released, head, open, next, checks, handed, queue, posts, tally, proved, fell>>

\* The pull request is the open bump of this branch, at this commit.
Current(b) ==
    /\ gate[b].pr = b /\ b \in open /\ head[b] = gate[b].commit

Plan(b) ==
    /\ gate[b].phase = "plan"
    /\ Now(b, IF Current(b) /\ PlanAccepts(gate[b].commit)
               THEN [gate[b] EXCEPT !.phase = "canary"] ELSE IdleGate)
    /\ UNCHANGED <<main, released, head, open, next, checks, handed, queue, posts, tally, proved, fell>>

\* The Canary is dispatched on the branch: on what it points to by now.
SendCanary(b) ==
    /\ gate[b].phase = "canary"
    /\ checks' = IF head[b] = None THEN checks ELSE [checks EXCEPT ![b].sent = "pending"]
    /\ Now(b, [gate[b] EXCEPT !.phase = IF Bumped(gate[b].commit) = {} THEN "verdict" ELSE "build"])
    /\ UNCHANGED <<main, released, head, open, next, handed, queue, posts, tally, proved, fell>>

\* What is published at the very version is not selected.
Selected(c) == {p \in Bumped(c) : main.lock[p] # c.tree.lock[p]}

\* The builds of the bumped recipes, as rebuild-rpms.yml reports them.
Build(b) ==
    /\ gate[b].phase = "build"
    /\ LET c == gate[b].commit
            of(kind) == {p \in Selected(c) : <<p, c.tree.lock[p]>> \in kind}
        IN  \E some \in SUBSET of(Flaky) :
              LET failed == of(Broken) \cup some
                  result == IF failed = {} THEN "success" ELSE "failure"
              IN  /\ Now(b, [gate[b] EXCEPT !.phase = "verdict",
                                !.out = Outcome(result, TRUE, Selected(c), failed)])
                  /\ proved' = IF failed = {} /\ Selected(c) = Bumped(c)
                               THEN proved \cup {Move(c)} ELSE proved
                  /\ fell' = fell \cup {<<p, c.tree.lock[p]>> : p \in failed}
    /\ UNCHANGED <<main, released, head, open, next, checks, handed, queue, posts, tally>>

\* Its prepare job failed: it reports nothing.
BuildDies(b) ==
    /\ gate[b].phase = "build"
    /\ Now(b, [gate[b] EXCEPT !.phase = "verdict", !.out = Outcome("failure", FALSE, {}, {})])
    /\ UNCHANGED <<main, released, head, open, next, checks, handed, queue, posts, tally, proved, fell>>

Landable(b) ==
    IF HoldsOnly(gate[b].commit)
    THEN HoldsOnlyVerdict(Bumped(gate[b].commit), gate[b].out)
    ELSE Verdict(Bumped(gate[b].commit), gate[b].out)

ToHold(b) == Holdable(Bumped(gate[b].commit), gate[b].out)

\* The comment of a verdict carries its commit and what failed.
Marker(b) == <<gate[b].commit.id, gate[b].out.failed>>

\* Mutant: the marker of a comment is not looked for.
Unseen(b) == TRUE

NotSeen(b) == Marker(b) \notin DOMAIN posts

Posted(mark) == [m \in DOMAIN posts \cup {mark} |->
                    IF m \notin DOMAIN posts THEN 1 ELSE IF m = mark THEN posts[m] + 1 ELSE posts[m]]

Judge(b) ==
    /\ gate[b].phase = "verdict"
    /\ IF Landable(b)
       THEN Now(b, [gate[b] EXCEPT !.phase = "parked", !.out = Untried]) /\ UNCHANGED posts
       ELSE /\ Now(b, [gate[b] EXCEPT !.phase = IF ToHold(b) = {} THEN "refused" ELSE "hold",
                                       !.hold = ToHold(b), !.out = Untried])
            /\ posts' = IF NotSeen(b) THEN Posted(Marker(b)) ELSE posts
    /\ UNCHANGED <<main, released, head, open, next, checks, handed, queue, tally, proved, fell>>

\* The merge job ends without landing anything.
Stop(b) ==
    /\ \/ gate[b].phase = "refused"
       \/ gate[b].phase \in {"hold", "ready"} /\ (gate[b].pr \notin open \/ head[gate[b].pr] # gate[b].commit)
    /\ Now(b, IdleGate)
    /\ UNCHANGED <<main, released, head, open, next, checks, handed, queue, posts, tally, proved, fell>>

\* The head is still what was built: the held packages are taken out of it.
HoldFailed(b) ==
    /\ gate[b].phase = "hold" /\ gate[b].pr \in open /\ head[gate[b].pr] = gate[b].commit
    /\ Now(b, [gate[b] EXCEPT !.phase = "push"])
    /\ UNCHANGED <<main, released, head, open, next, checks, handed, queue, posts, tally, proved, fell>>

\* The branch a trimmed head is pushed to, whichever branch this is.
TrimBranch(b) == "upstream"

\* A fast-forward, refused when the branch points elsewhere by now.
PushTrimmed(b) ==
    /\ gate[b].phase = "push"
    /\ IF head[TrimBranch(b)] \in {gate[b].commit, None}
       THEN /\ Pushed(TrimBranch(b), Trim(gate[b].commit, gate[b].hold, NewId), "trim")
            /\ Now(b, [gate[b] EXCEPT !.phase = "again"])
       ELSE /\ Now(b, IdleGate) /\ UNCHANGED <<head, checks, queue, tally>>
    /\ UNCHANGED <<main, released, open, next, handed, posts, proved, fell>>

\* The next gate runs on what the branch points to, and cancels this one.
Redispatch(b) ==
    /\ gate[b].phase = "again"
    /\ Now(b, IdleGate)
    /\ next' = IF head[TrimBranch(b)] = None THEN next
                ELSE [next EXCEPT ![TrimBranch(b)] = Run(head[TrimBranch(b)], gate[b].pr)]
    /\ UNCHANGED <<main, released, head, open, checks, handed, queue, posts, tally, proved, fell>>

\* The checks of a commit its branch has left decide nothing any more.
OnHead(b) == head[b] = gate[b].commit

\* Approving a parked run starts it over.
ApproveParked(b) ==
    /\ gate[b].phase = "parked"
    /\ LET parked == OnHead(b) /\ checks[b].parked = "parked"
        IN  /\ checks' = IF parked THEN [checks EXCEPT ![b].parked = "pending"] ELSE checks
            /\ Now(b, [gate[b] EXCEPT !.phase = "wait", !.approved = parked])
    /\ UNCHANGED <<main, released, head, open, next, handed, queue, posts, tally, proved, fell>>

\* ... which GitHub may refuse: a maintainer must then.
ApprovalRefused(b) ==
    /\ gate[b].phase = "parked" /\ OnHead(b) /\ checks[b].parked = "parked"
    /\ Now(b, [gate[b] EXCEPT !.phase = "wait"])
    /\ UNCHANGED <<main, released, head, open, next, checks, handed, queue, posts, tally, proved, fell>>

CanaryEnds(b, which, end) ==
    /\ checks[b][which] = "pending" /\ (end = "failure" => which \in MayFail)
    /\ checks' = [checks EXCEPT ![b][which] = end]
    /\ UNCHANGED <<main, released, head, open, gate, next, handed, queue, posts, tally, proved, fell>>

Over == {"success", "failure"}

Ended(check) == {w \in {"sent", "parked"} : check[w] \in Over}

\* Mutant: only the check runs are waited for, not the run approved before.
WaitedForAny(b) ==
    LET check == checks[b] IN
    IF ~OnHead(b) THEN {"ready", "refused"}
    ELSE IF Ended(check) = {} THEN {}
    ELSE IF \E w \in Ended(check) : check[w] = "success" THEN {"ready"} ELSE {"refused"}

\* First the approved run, by its number; then any completed check.
Waited(b) ==
    LET check == checks[b] IN
    IF ~OnHead(b) THEN {"ready", "refused"}
    ELSE IF gate[b].approved /\ check.parked = "failure" THEN {"refused"}
    ELSE IF gate[b].approved /\ check.parked # "success" THEN {}
    ELSE IF Ended(check) = {} THEN {}
    ELSE IF \E w \in Ended(check) : check[w] = "success" THEN {"ready"} ELSE {"refused"}

WaitForCanary(b) ==
    /\ gate[b].phase = "wait"
    /\ \E after \in Waited(b) : Now(b, [gate[b] EXCEPT !.phase = after])
    /\ UNCHANGED <<main, released, head, open, next, checks, handed, queue, posts, tally, proved, fell>>

\* ... for an hour, and then the job fails.
WaitExpires(b) ==
    /\ gate[b].phase = "wait" /\ Waited(b) = {}
    /\ Now(b, [gate[b] EXCEPT !.phase = "refused"])
    /\ UNCHANGED <<main, released, head, open, next, checks, handed, queue, posts, tally, proved, fell>>

HandOver(b) ==
    /\ gate[b].phase = "ready" /\ gate[b].pr \in open /\ head[gate[b].pr] = gate[b].commit
    /\ Cardinality(handed) < MaxHanded
    /\ handed' = handed \cup {[branch |-> b, commit |-> gate[b].commit,
                               approved |-> gate[b].approved, valid |-> FALSE]}
    /\ Now(b, IdleGate)
    /\ UNCHANGED <<main, released, head, open, next, checks, queue, posts, tally, proved, fell>>

----------------------------------------------------------------------------
(* Landing *)

StillThere(e) == e.branch \in open /\ head[e.branch] = e.commit

\* Main's own tools judge the candidate again, at the head of the one open
\* pull request of the branch.
Validate(e) ==
    /\ ~e.valid
    /\ handed' = (handed \ {e}) \cup
          (IF StillThere(e) /\ PlanAccepts(e.commit) THEN {[e EXCEPT !.valid = TRUE]} ELSE {})
    /\ UNCHANGED <<main, released, head, open, gate, next, checks, queue, posts, tally, proved, fell>>

\* What GitHub asks of a required check: a run that is parked is a pending one.
Required(b) ==
    /\ \A w \in {"sent", "parked"} : checks[b][w] \notin {"pending", "parked"}
    /\ \E w \in {"sent", "parked"} : checks[b][w] = "success"

\* Mutant: the head is enqueued, whatever it is by then.
EnqueuedHead(e) ==
    IF e.branch \in open THEN {[branch |-> e.branch, commit |-> head[e.branch]]} ELSE {}

\* The commit that built, and no other: expectedHeadOid.
Enqueued(e) == IF StillThere(e) THEN {[branch |-> e.branch, commit |-> e.commit]} ELSE {}

Accepted(e) == StillThere(e) /\ Required(e.branch)

Enqueue(e) ==
    /\ e.valid
    /\ handed' = handed \ {e}
    /\ queue' = IF Required(e.branch) THEN queue \cup Enqueued(e) ELSE queue
    /\ UNCHANGED <<main, released, head, open, gate, next, checks, posts, tally, proved, fell>>

\* A squash: what the commit changes, onto main as it is now.
Squash(c, field) ==
    [p \in Packages |-> IF c.tree[field][p] # c.base[field][p] THEN c.tree[field][p] ELSE main[field][p]]

Conflicts(c, field) ==
    \E p \in Packages : /\ c.tree[field][p] # c.base[field][p]
                        /\ main[field][p] \notin {c.base[field][p], c.tree[field][p]}

Land(q) ==
    /\ \A field \in {"lock", "hold", "report"} : ~Conflicts(q.commit, field)
    /\ main' = [lock |-> Squash(q.commit, "lock"), hold |-> Squash(q.commit, "hold"),
                 report |-> Squash(q.commit, "report"), guarded |-> main.guarded]
    /\ open' = open \ {q.branch} /\ head' = [head EXCEPT ![q.branch] = None]
    /\ queue' = {r \in queue : r.branch # q.branch}
    /\ UNCHANGED <<released, gate, next, checks, handed, posts, tally, proved, fell>>

----------------------------------------------------------------------------

Init ==
    /\ main = [lock |-> [p \in Packages |-> 1], hold |-> Zero, guarded |-> {},
               report |-> [p \in Packages |-> IF p \in Codecs THEN 1 ELSE 0]]
    /\ released = [p \in Packages |-> 1]
    /\ head = [b \in Branches |-> None] /\ open = {}
    /\ gate = [b \in Branches |-> IdleGate] /\ next = [b \in Branches |-> IdleGate]
    /\ checks = [b \in Branches |-> Quiet]
    /\ handed = {} /\ queue = {} /\ posts = [mark \in {} |-> 0]
    /\ tally = [daily |-> 0, hand |-> 0, trim |-> 0, again |-> 0]
    /\ proved = {} /\ fell = {}

GateStep(b) ==
    \/ Start(b) \/ Plan(b) \/ SendCanary(b) \/ Build(b) \/ Judge(b) \/ Stop(b)
    \/ HoldFailed(b) \/ PushTrimmed(b) \/ Redispatch(b)
    \/ ApproveParked(b) \/ WaitForCanary(b) \/ HandOver(b)

GateFault(b) == BuildDies(b) \/ ApprovalRefused(b) \/ WaitExpires(b)

Next ==
    \/ \E p \in Packages : GuardByHand(p)
    \/ \E b \in Branches :
          \/ Propose(b) \/ GateAgain(b) \/ Withdraw(b) \/ PushByHand(b) \/ Cancel(b)
          \/ GateStep(b) \/ GateFault(b)
    \/ \E b \in Branches, which \in {"sent", "parked"}, end \in Over : CanaryEnds(b, which, end)
    \/ \E e \in handed : Validate(e) \/ Enqueue(e)
    \/ \E q \in queue : Land(q)

Spec == Init /\ [][Next]_vars

\* GitHub runs what it was asked to run, the daily runs keep gating what is
\* open, what may fail any day does not fail every day, and the days are long:
\* neither the wait for a Canary of one minute nor a handover is overtaken by
\* the next day's gate every time.
FairSpec ==
    /\ Spec
    /\ \A b \in Branches :
          /\ WF_vars(Start(b) \/ Plan(b) \/ SendCanary(b) \/ Judge(b) \/ Stop(b)
                     \/ HoldFailed(b) \/ PushTrimmed(b) \/ Redispatch(b) \/ WaitExpires(b))
          /\ WF_vars(Cancel(b)) /\ WF_vars(GateAgain(b))
          /\ SF_vars(Build(b)) /\ SF_vars(ApproveParked(b)) /\ SF_vars(WaitForCanary(b)) /\ SF_vars(HandOver(b))
    /\ \A b \in Branches, which \in {"sent", "parked"} :
          SF_vars(gate[b].phase = "wait" /\ CanaryEnds(b, which, "success"))
    /\ WF_vars(\E e \in handed : Validate(e) \/ Enqueue(e))
    /\ SF_vars(\E e \in handed : Accepted(e) /\ Validate(e))
    /\ SF_vars(\E e \in handed : Accepted(e) /\ Enqueue(e))
    /\ SF_vars(\E q \in queue : Land(q))

----------------------------------------------------------------------------

TypeOK ==
    /\ main.lock \in [Packages -> 0..MaxVersion] /\ main.guarded \subseteq Packages
    /\ main.hold \in [Packages -> 0..MaxVersion]
    /\ \A b \in Branches : /\ head[b] = None \/ head[b].id \in Ids
                           /\ gate[b] = IdleGate \/ gate[b].commit.id \in Ids
                           /\ b \in open => head[b] # None
    /\ \A q \in queue : head[q.branch] = q.commit
    /\ fell \subseteq Packages \X (0..MaxVersion)

Promise == INSTANCE Landing WITH Versions <- 0..MaxVersion, locked <- main.lock

\* What lands is what a gate built, whole: no interleaving of the daily bump,
\* pushes by hand, trims, delayed handovers and the merge queue puts a version
\* on main that no gate built together with the rest of its pull request
\* (bump-upstream-gate.yml: "merges the daily upstream bump when, and only
\* when, the packages it bumps really build").
OnlyProvenLands == Promise!Spec

\* A hold on main names a version that some gate saw fail, so no working
\* version is kept from being proposed (bump_gate.py, holdable and trim).
HoldsAreOfFailures ==
    \A p \in Packages : main.hold[p] # 0 => <<p, main.hold[p]>> \in fell

\* Nothing but the lock, the holds, the report and the recipes gets in line,
\* and no package that its own pull request removes (bump_gate.py, plan).
OnlyBumpsAreQueued == \A q \in queue : q.commit.kind # "foreign" /\ Removed(q.commit) = {}

\* One comment per verdict per commit, however often the day gates it again.
NoVerdictTwice == \A mark \in DOMAIN posts : posts[mark] = 1

\* A run that was approved is over when its commit is handed over: what the
\* gate waited for is the run it restarted, never a check of before.
ApprovedRunsAreOver ==
    \A e \in handed : e.approved /\ StillThere(e) => checks[e.branch].parked = "success"

\* A package that builds is not kept behind one that does not: once it is in
\* the open bump it lands, with the broken ones held.
WorkingBumpsLand ==
    \A p \in Packages :
        head["upstream"] # None /\ head["upstream"].tree.lock[p] = MaxVersion
            /\ <<p, MaxVersion>> \notin Broken
        ~> main.lock[p] = MaxVersion

\* A version that does not build ends up held on main, which is what stops
\* the next daily bump from proposing it again.
BrokenIsHeld ==
    \A p \in Packages :
        <<p, MaxVersion>> \in fell /\ <<p, MaxVersion>> \in Broken ~> main.hold[p] = MaxVersion

\* What a gate takes out, it takes out of the pull request it built
\* (bump_gate.py, comment: "taking those packages out of this pull request").
TrimStaysOnItsBranch ==
    [][\A b \in Branches :
        gate[b].phase = "push" /\ gate'[b].phase = "again" => head'[b] # head[b]]_vars

\* The bytes of a package that is kept for a human never move by themselves
\* (bump_gate.py: "Packages whose upstream bytes never self-merge").
GuardedNeverLands ==
    [][\A p \in main.guarded : main'.lock[p] = main.lock[p]]_vars

\* The committed report records the locked version of every codec recipe
\* (bump-upstream-sources.yml: a stale one is rejected by the tests).
ReportOfTheLock == \A p \in Codecs : main.report[p] = main.lock[p]

\* A hold leaves at least one other bumped package that built (bump_gate.py,
\* the docstring of holdable).
HoldLeavesABuild ==
    \A b \in Branches : gate[b].phase = "hold" => Bumped(gate[b].commit) \ gate[b].hold # {}

\* Whatever has moved since it looked, the gate queues only what it may land,
\* hands over only what its own restarted checks passed, and says each thing
\* once (bump_gate.py, plan and already_posted; bump-upstream-gate.yml).
GateKeepsItsWord == OnlyBumpsAreQueued /\ ApprovedRunsAreOver /\ NoVerdictTwice
=============================================================================
