---------------------------- MODULE BumpGateProofs ----------------------------
(***************************************************************************)
(* Why the bump gate keeps its promises, for every number of branches,     *)
(* packages, versions and pushes.  A gate decides on a commit that its     *)
(* branch may have left, and so does everything after it.  What is decided *)
(* of a commit stays true of it; what is decided of a branch holds while   *)
(* the branch has that commit; and no branch gets a commit back.           *)
(***************************************************************************)
EXTENDS BumpGate, TLAPS

Versions == 0..MaxVersion

Trees == [lock : [Packages -> Versions], hold : [Packages -> Versions],
          guarded : SUBSET Packages, report : [Packages -> Versions]]

Commits == [id : Ids, base : Trees, tree : Trees, kind : {"lock", "recipes", "foreign"}]

Outcomes == [result : {"skipped", "success", "failure"}, reported : BOOLEAN,
             selected : SUBSET Packages, failed : SUBSET Packages]

\* The phases of a gate that has found its commit to be the open bump.
Past == {"canary", "build", "verdict", "hold", "push", "again", "refused",
         "parked", "wait", "ready"}

Gates == [phase : Past \cup {"idle", "plan"}, commit : Commits \cup {None},
          pr : Branches \cup {"none"}, out : Outcomes, hold : SUBSET Packages,
          approved : BOOLEAN]

\* A gate run that was asked for and has not started.
Waiting(g) == g.commit \in Commits /\ g.pr \in Branches /\ g = Run(g.commit, g.pr)

Checks == [sent : {"none", "parked", "pending", "success", "failure"},
           parked : {"none", "parked", "pending", "success", "failure"}]

Handovers == [branch : Branches, commit : Commits, approved : BOOLEAN, valid : BOOLEAN]

Entries == [branch : Branches, commit : Commits]

Types ==
    /\ main \in Trees
    /\ head \in [Branches -> Commits \cup {None}]
    /\ open \subseteq Branches
    /\ gate \in [Branches -> Gates]
    /\ next \in [Branches -> Gates]
    /\ \A b \in Branches : next[b] = IdleGate \/ Waiting(next[b])
    /\ checks \in [Branches -> Checks]
    /\ handed \subseteq Handovers
    /\ queue \subseteq Entries
    /\ tally \in [daily : Nat, hand : Nat, trim : Nat, again : Nat]
    /\ fell \subseteq Packages \X Versions

\* A tree holds nothing but what failed.
Honest(tree) == \A p \in Packages : tree.hold[p] # 0 => <<p, tree.hold[p]>> \in fell

\* What a pull request of a branch may carry: the daily bump's commits have
\* lock entries, which is what a trim takes a hold from.
Sound(b, c) == Honest(c.tree) /\ (b = "upstream" => c.kind # "recipes")

\* A commit that may land: it moves nothing, or what it moves was built.
Proven(c) == Bumped(c) = {} \/ Move(c) \in proved

\* A commit is on one branch at most, and no later commit is the same.
HeadsInv ==
    /\ \A b \in Branches : head[b] # None => head[b].id < NewId
    /\ \A a, b \in Branches : a # b /\ head[a] # None => head[a].id # head[b].id
    /\ \A b \in open : head[b] # None /\ Sound(b, head[b])

\* What a gate knows of its commit, phase by phase.
Knows(b, g) ==
    /\ g.phase = "idle" => g = IdleGate
    /\ g.phase # "idle" => g.commit \in Commits
    /\ g.phase \in Past =>
          /\ g.pr = b /\ g.commit.id < NewId /\ Sound(b, g.commit)
          /\ \A a \in Branches \ {b} : head[a].id # g.commit.id
    /\ g.phase \in {"plan", "canary"} => g.out = Untried
    /\ g.phase = "verdict" =>
          /\ \A p \in g.out.failed : <<p, g.commit.tree.lock[p]>> \in fell
          /\ Verdict(Bumped(g.commit), g.out) => Move(g.commit) \in proved
    /\ g.phase \in {"hold", "push"} =>
          \A p \in g.hold : <<p, g.commit.tree.lock[p]>> \in fell
    /\ g.phase \in {"parked", "wait", "ready"} => Proven(g.commit)
    /\ g.phase = "ready" /\ g.approved /\ head[b] = g.commit => checks[b].parked = "success"

\* A commit handed over is one of before now that a gate found to build; once
\* valid it is one that may land, and what was restarted for it is over.
Fit(e) ==
    /\ e.commit.id < NewId /\ Proven(e.commit)
    /\ e.valid => PlanAccepts(e.commit)
    /\ e.approved /\ StillThere(e) => checks[e.branch].parked = "success"

\* What is in line is the head of an open bump that may land.
InLine(q) ==
    /\ q.branch \in open /\ head[q.branch] = q.commit
    /\ Proven(q.commit) /\ PlanAccepts(q.commit)

GateInvariant ==
    /\ Types
    /\ HeadsInv
    /\ \A b \in Branches : Knows(b, gate[b])
    /\ \A e \in handed : Fit(e)
    /\ \A q \in queue : InLine(q)
    /\ Honest(main)
    /\ NoVerdictTwice

----------------------------------------------------------------------------
(* What the operators return *)

\* The number of a new commit.
LEMMA NewIdIsNew ==
    ASSUME Types
    PROVE  NewId \in Ids
BY DEF Types, NewId, Ids

\* No commit is taken for a missing branch.
LEMMA NoneIsNoCommit ==
    /\ None.id = 0
    /\ \A c \in Commits : c.id # 0 /\ c # None
BY DEF None, Commits, Ids

\* A gate at rest, and one that was just asked for.
LEMMA RunTyped ==
    /\ IdleGate \in Gates /\ IdleGate.phase = "idle" /\ IdleGate.commit = None
    /\ \A c \in Commits, b \in Branches :
          /\ Run(c, b) \in Gates /\ Run(c, b) # IdleGate /\ Waiting(Run(c, b))
          /\ Run(c, b).phase = "plan" /\ Run(c, b).commit = c /\ Run(c, b).pr = b
          /\ Run(c, b).out = Untried
<1>1. IdleGate \in Gates /\ IdleGate.phase = "idle" /\ IdleGate.commit = None
    BY DEF IdleGate, Gates, Past, Untried, Outcome, Outcomes
<1>2. ASSUME NEW c \in Commits, NEW b \in Branches
      PROVE  /\ Run(c, b) \in Gates /\ Run(c, b) # IdleGate /\ Waiting(Run(c, b))
             /\ Run(c, b).phase = "plan" /\ Run(c, b).commit = c /\ Run(c, b).pr = b
             /\ Run(c, b).out = Untried
    <2>1. /\ Run(c, b).phase = "plan" /\ Run(c, b).commit = c /\ Run(c, b).pr = b
          /\ Run(c, b) \in Gates /\ Run(c, b).out = Untried
        BY <1>1 DEF Run, Gates, IdleGate
    <2>2. QED BY <1>1, <2>1 DEF Waiting
<1>3. QED BY <1>1, <1>2

\* Every value the daily run proposes is a commit.
LEMMA ProposedTyped ==
    ASSUME Types, NEW b \in Branches, NEW newest \in [Packages -> 1..MaxVersion]
    PROVE  /\ Proposed(b, newest, NewId) \in Commits
           /\ Proposed(b, newest, NewId).id = NewId
           /\ Proposed(b, newest, NewId).kind = IF b = "upstream" THEN "lock" ELSE "recipes"
           /\ Proposed(b, newest, NewId).tree.hold =
                 [p \in Packages |-> IF p \in Proposal(b, newest) /\ b = "upstream"
                                     THEN 0 ELSE main.hold[p]]
<1> DEFINE up == Proposal(b, newest)
           lock == [p \in Packages |-> IF p \in up THEN newest[p] ELSE main.lock[p]]
           hold == [p \in Packages |-> IF p \in up /\ b = "upstream" THEN 0 ELSE main.hold[p]]
           report == [p \in Packages |->
                         IF b = "upstream" /\ p \in up \cap Codecs THEN newest[p] ELSE main.report[p]]
           tree == [main EXCEPT !.lock = lock, !.hold = hold, !.report = report]
           kind == IF b = "upstream" THEN "lock" ELSE "recipes"
<1>1. main \in Trees /\ main.lock \in [Packages -> Versions]
      /\ main.hold \in [Packages -> Versions] /\ main.report \in [Packages -> Versions]
    BY DEF Types, Trees
<1>2. \A p \in Packages : newest[p] \in Versions /\ 0 \in Versions
    BY GateAssumption DEF Versions
<1>3. /\ lock \in [Packages -> Versions] /\ hold \in [Packages -> Versions]
      /\ report \in [Packages -> Versions]
    BY <1>1, <1>2
<1> HIDE DEF up, lock, hold, report
<1>4. tree \in Trees /\ tree.hold = hold
    BY <1>1, <1>3 DEF Trees
<1> HIDE DEF tree
<1>5. Proposed(b, newest, NewId) = [id |-> NewId, base |-> main, tree |-> tree, kind |-> kind]
    BY DEF Proposed, Commit, tree, up, lock, hold, report
<1>6. QED BY <1>1, <1>4, <1>5, NewIdIsNew DEF Commits, hold, up

\* A trim keeps the commit's shape, and holds what it takes out: at the
\* version of the lock where there is one.
LEMMA TrimTyped ==
    ASSUME NEW c \in Commits, NEW held \in SUBSET Packages, NEW id \in Ids
    PROVE  /\ Trim(c, held, id) \in Commits
           /\ Trim(c, held, id).id = id
           /\ Trim(c, held, id).kind = c.kind
           /\ \A p \in Packages :
                 c.kind # "recipes" =>
                    Trim(c, held, id).tree.hold[p] =
                       IF p \in held THEN c.tree.lock[p] ELSE c.tree.hold[p]
<1> DEFINE lock == [p \in Packages |-> IF p \in held THEN c.base.lock[p] ELSE c.tree.lock[p]]
           hold == [p \in Packages |-> IF p \notin held THEN c.tree.hold[p]
                                       ELSE IF c.kind = "recipes" THEN c.base.lock[p] ELSE c.tree.lock[p]]
           tree == [c.tree EXCEPT !.lock = lock, !.hold = hold]
<1>1. /\ c.tree \in Trees /\ c.base \in Trees
      /\ c.tree.lock \in [Packages -> Versions] /\ c.base.lock \in [Packages -> Versions]
      /\ c.tree.hold \in [Packages -> Versions]
    BY DEF Commits, Trees
<1>2. lock \in [Packages -> Versions] /\ hold \in [Packages -> Versions]
    BY <1>1
<1>3. \A p \in Packages :
         c.kind # "recipes" => hold[p] = IF p \in held THEN c.tree.lock[p] ELSE c.tree.hold[p]
    OBVIOUS
<1> HIDE DEF lock, hold
<1>4. tree \in Trees /\ tree.hold = hold
    BY <1>1, <1>2 DEF Trees
<1> HIDE DEF tree
<1>5. Trim(c, held, id) = [id |-> id, base |-> c.base, tree |-> tree, kind |-> c.kind]
    BY DEF Trim, Commit, tree, lock, hold
<1>6. QED BY <1>1, <1>3, <1>4, <1>5 DEF Commits

\* What is pushed by hand: another version, or something foreign.
Edited(c, id, p, v) == [c EXCEPT !.id = id, !.tree.lock[p] = v]
Spoilt(c, id) == [c EXCEPT !.id = id, !.kind = "foreign"]

\* ... which are commits, and hold what was held before.
LEMMA ByHandTyped ==
    ASSUME NEW c \in Commits, NEW id \in Ids
    PROVE  /\ \A p \in Packages, v \in Versions :
                 /\ Edited(c, id, p, v) \in Commits /\ Edited(c, id, p, v).id = id
                 /\ Edited(c, id, p, v).kind = c.kind
                 /\ Edited(c, id, p, v).tree.hold = c.tree.hold
           /\ Spoilt(c, id) \in Commits /\ Spoilt(c, id).id = id
           /\ Spoilt(c, id).kind = "foreign" /\ Spoilt(c, id).tree = c.tree
<1>1. ASSUME NEW p \in Packages, NEW v \in Versions, NEW d, d = Edited(c, id, p, v)
      PROVE  d \in Commits /\ d.id = id /\ d.kind = c.kind /\ d.tree.hold = c.tree.hold
    <2> DEFINE tree == [c.tree EXCEPT !.lock = [c.tree.lock EXCEPT ![p] = v]]
    <2>1. c.tree \in Trees /\ c.tree.lock \in [Packages -> Versions]
        BY DEF Commits, Trees
    <2>2. tree \in Trees /\ tree.hold = c.tree.hold
        BY <2>1 DEF Trees
    <2>3. d = [c EXCEPT !.id = id, !.tree = tree]
        BY <1>1 DEF Commits, Trees, Edited
    <2> HIDE DEF tree
    <2>4. QED BY <2>2, <2>3 DEF Commits
<1>2. /\ Spoilt(c, id) \in Commits /\ Spoilt(c, id).id = id
      /\ Spoilt(c, id).kind = "foreign" /\ Spoilt(c, id).tree = c.tree
    BY DEF Commits, Spoilt
<1>3. QED BY <1>1, <1>2

\* What a push does to the state it touches.
LEMMA PushTyped ==
    ASSUME Types, NEW b \in Branches, NEW c \in Commits,
           NEW by \in {"daily", "hand", "trim"}, Pushed(b, c, by)
    PROVE  /\ NewId' = NewId + 1
           /\ head' \in [Branches -> Commits \cup {None}]
           /\ checks' \in [Branches -> Checks]
           /\ queue' \subseteq Entries
           /\ tally' \in [daily : Nat, hand : Nat, trim : Nat, again : Nat]
<1>1. /\ tally' = [tally EXCEPT ![by] = @ + 1]
      /\ tally \in [daily : Nat, hand : Nat, trim : Nat, again : Nat]
      /\ head' = [head EXCEPT ![b] = c] /\ queue' \subseteq queue
      /\ checks' = [checks EXCEPT ![b] = [sent |-> "none", parked |-> IF by = "hand" THEN "pending" ELSE "parked"]]
    BY DEF Pushed, Types
<1>2. NewId' = NewId + 1 /\ tally' \in [daily : Nat, hand : Nat, trim : Nat, again : Nat]
    BY <1>1 DEF NewId
<1>3. QED BY <1>1, <1>2 DEF Types, Checks

----------------------------------------------------------------------------
(* The invariant, step by step: gates *)

\* What was built stays built, and what failed has failed.
HistoryGrows == proved \subseteq proved' /\ fell \subseteq fell'

\* A step of one gate, which may add to what was built and failed, and move
\* the checks on, never back from a success: the rest stays true.
LEMMA GateMovesOn ==
    ASSUME GateInvariant, Types', NoVerdictTwice', NEW b \in Branches, NEW g \in Gates,
           gate' = [gate EXCEPT ![b] = g], Knows(b, g)',
           UNCHANGED <<main, head, open, queue>>, NewId' = NewId, HistoryGrows,
           \A a \in Branches : checks[a].parked = "success" => checks'[a].parked = "success",
           \A e \in handed' : e \in handed \/ Fit(e)'
    PROVE  GateInvariant'
<1> USE DEF HistoryGrows
<1>1. NewId' = NewId
    OBVIOUS
<1>2. HeadsInv'
    BY <1>1 DEF GateInvariant, HeadsInv, Sound, Honest
<1>3. ASSUME NEW a \in Branches
      PROVE  Knows(a, gate[a])'
    <2>1. CASE a = b
        <3>1. gate'[a] = g
            BY <2>1 DEF GateInvariant, Types
        <3>2. QED BY <2>1, <3>1 DEF Knows
    <2>2. CASE a # b
        <3>1. gate'[a] = gate[a] /\ Knows(a, gate[a])
            BY <2>2 DEF GateInvariant, Types
        <3>2. QED BY <1>1, <3>1 DEF Knows, Sound, Honest, Proven
    <2>3. QED BY <2>1, <2>2
<1>4. ASSUME NEW e \in handed'
      PROVE  Fit(e)'
    <2>1. CASE e \in handed
        <3>1. Fit(e) /\ e.branch \in Branches
            BY <2>1 DEF GateInvariant, Types, Handovers
        <3>2. QED BY <1>1, <3>1 DEF Fit, Proven, StillThere
    <2>2. QED BY <2>1
<1>5. ASSUME NEW q \in queue'
      PROVE  InLine(q)'
    BY DEF GateInvariant, InLine, Proven
<1>6. Honest(main)'
    BY DEF GateInvariant, Honest
<1>7. QED BY <1>2, <1>3, <1>4, <1>5, <1>6 DEF GateInvariant

\* ... in particular one that leaves the tally alone,
LEMMA GateMoves ==
    ASSUME GateInvariant, Types', NoVerdictTwice', NEW b \in Branches, NEW g \in Gates,
           gate' = [gate EXCEPT ![b] = g], Knows(b, g)',
           UNCHANGED <<main, head, open, queue, tally>>, HistoryGrows,
           \A a \in Branches : checks[a].parked = "success" => checks'[a].parked = "success",
           \A e \in handed' : e \in handed \/ Fit(e)'
    PROVE  GateInvariant'
<1>1. NewId' = NewId
    BY DEF NewId
<1>2. QED BY <1>1, GateMovesOn

\* ... or moves nothing but the gate and who waits.
LEMMA GateMovesAlone ==
    ASSUME GateInvariant, NEW b \in Branches, NEW g \in Gates, Knows(b, g),
           gate' = [gate EXCEPT ![b] = g],
           next' \in [Branches -> Gates],
           \A a \in Branches : next'[a] = IdleGate \/ Waiting(next'[a]),
           UNCHANGED <<main, head, open, checks, handed, queue, posts, tally, proved, fell>>
    PROVE  GateInvariant'
<1>1. Types'
    BY DEF GateInvariant, Types
<1>2. NoVerdictTwice'
    BY DEF GateInvariant, NoVerdictTwice
<1>3. NewId' = NewId
    BY DEF NewId
<1>4. Knows(b, g)'
    BY <1>3 DEF Knows, Sound, Honest, Proven
<1>5. QED BY <1>1, <1>2, <1>4, GateMoves DEF HistoryGrows

\* What the invariant says of one gate.
LEMMA GateFacts ==
    ASSUME GateInvariant, NEW b \in Branches
    PROVE  /\ gate[b] \in Gates /\ Knows(b, gate[b]) /\ Knows(b, IdleGate)
           /\ next[b] \in Gates /\ head[b] \in Commits \cup {None} /\ checks[b] \in Checks
           /\ next[b] = IdleGate \/ Waiting(next[b])
           /\ gate \in [Branches -> Gates] /\ next \in [Branches -> Gates]
<1>1. Knows(b, IdleGate)
    BY RunTyped DEF Knows, Past
<1>2. QED BY <1>1 DEF GateInvariant, Types

\* A gate that ends, or moves to a phase in which it has nothing more to know.
LEMMA PhaseMoves ==
    ASSUME GateInvariant, NEW b \in Branches, NEW phase \in {"push", "again", "wait", "refused", "ready"},
           gate[b].phase \in Past,
           phase = "push" => gate[b].phase = "hold",
           phase = "wait" => gate[b].phase = "parked",
           phase = "ready" => gate[b].phase = "wait",
           phase = "ready" /\ gate[b].approved /\ OnHead(b) => checks[b].parked = "success"
    PROVE  /\ [gate[b] EXCEPT !.phase = phase] \in Gates
           /\ Knows(b, [gate[b] EXCEPT !.phase = phase])
<1> DEFINE g == [gate[b] EXCEPT !.phase = phase]
<1>1. gate[b] \in Gates /\ Knows(b, gate[b])
    BY GateFacts
<1>2. /\ g \in Gates /\ g.phase = phase /\ g.commit = gate[b].commit /\ g.pr = gate[b].pr
      /\ g.out = gate[b].out /\ g.hold = gate[b].hold /\ g.approved = gate[b].approved
    BY <1>1 DEF Gates, Past
<1> HIDE DEF g
<1>3. gate[b].phase # "idle"
    BY DEF Past
<1>4. Knows(b, g)
    BY <1>1, <1>2, <1>3 DEF Knows, OnHead, Past
<1>5. QED BY <1>2, <1>4 DEF g

\* A gate starts from what was asked for.
LEMMA StartStep ==
    ASSUME GateInvariant, NEW b \in Branches, Start(b)
    PROVE  GateInvariant'
<1>1. /\ next[b] \in Gates /\ Waiting(next[b])
      /\ gate' = [gate EXCEPT ![b] = next[b]] /\ next' = [next EXCEPT ![b] = IdleGate]
    BY GateFacts DEF Start, Now
<1>2. next[b].phase = "plan" /\ next[b].commit \in Commits /\ next[b].out = Untried
    BY <1>1, RunTyped DEF Waiting
<1>3. Knows(b, next[b])
    BY <1>2 DEF Knows, Past
<1>4. /\ next' \in [Branches -> Gates]
      /\ \A a \in Branches : next'[a] = IdleGate \/ Waiting(next'[a])
    BY <1>1, RunTyped, GateFacts
<1>5. QED BY <1>1, <1>3, <1>4, GateMovesAlone DEF Start

\* A gate that ends leaves nothing behind but what it pushed or handed over.
LEMMA CancelStep ==
    ASSUME GateInvariant, NEW b \in Branches, Cancel(b) \/ Stop(b)
    PROVE  GateInvariant'
<1>1. /\ gate' = [gate EXCEPT ![b] = IdleGate]
      /\ UNCHANGED <<main, head, open, next, checks, handed, queue, posts, tally, proved, fell>>
    BY DEF Cancel, Stop, Now
<1>2. QED BY <1>1, RunTyped, GateFacts, GateMovesAlone

\* A gate goes on only with the head of its own open bump.
LEMMA PlanStep ==
    ASSUME GateInvariant, NEW b \in Branches, Plan(b)
    PROVE  GateInvariant'
<1> DEFINE g == [gate[b] EXCEPT !.phase = "canary"]
<1>1. /\ gate' = [gate EXCEPT ![b] = IF Current(b) /\ PlanAccepts(gate[b].commit) THEN g ELSE IdleGate]
      /\ UNCHANGED <<main, head, open, next, checks, handed, queue, posts, tally, proved, fell>>
      /\ gate[b].phase = "plan"
    BY DEF Plan, Now
<1>2. CASE ~(Current(b) /\ PlanAccepts(gate[b].commit))
    BY <1>1, <1>2, RunTyped, GateFacts, GateMovesAlone
<1>3. CASE Current(b) /\ PlanAccepts(gate[b].commit)
    <2>1. gate[b] \in Gates /\ Knows(b, gate[b]) /\ gate[b].commit \in Commits
        BY <1>1, GateFacts DEF Knows
    <2>2. g \in Gates /\ g.phase = "canary" /\ g.commit = gate[b].commit /\ g.pr = b
          /\ g.out = Untried
        BY <1>1, <1>3, <2>1 DEF Gates, Past, Current, Knows
    <2>3. /\ head[b] = g.commit /\ b \in open /\ g.commit # None /\ g.commit \in Commits
        BY <1>3, <2>1, <2>2, NoneIsNoCommit DEF Current
    <2> HIDE DEF g
    <2>4. Knows(b, g)
        BY <2>2, <2>3 DEF Knows, Past, GateInvariant, HeadsInv
    <2>5. QED BY <1>1, <1>3, <2>2, <2>4, GateFacts, GateMovesAlone
<1>4. QED BY <1>2, <1>3

\* Steps in which a gate only goes on to its next phase.
LEMMA WaitSteps ==
    ASSUME GateInvariant, NEW b \in Branches,
           HoldFailed(b) \/ ApprovalRefused(b) \/ WaitForCanary(b) \/ WaitExpires(b)
    PROVE  GateInvariant'
<1>1. PICK phase \in {"push", "wait", "refused", "ready"} :
          /\ gate' = [gate EXCEPT ![b] = [gate[b] EXCEPT !.phase = phase]]
          /\ gate[b].phase \in Past
          /\ phase = "push" => gate[b].phase = "hold"
          /\ phase = "wait" => gate[b].phase = "parked"
          /\ phase = "ready" => gate[b].phase = "wait"
          /\ phase = "ready" /\ gate[b].approved /\ OnHead(b) => checks[b].parked = "success"
          /\ UNCHANGED <<main, head, open, next, checks, handed, queue, posts, tally, proved, fell>>
    <2>1. CASE HoldFailed(b)
        BY <2>1 DEF HoldFailed, Now, Past
    <2>2. CASE ApprovalRefused(b)
        BY <2>2 DEF ApprovalRefused, Now, Past
    <2>3. CASE WaitExpires(b)
        BY <2>3 DEF WaitExpires, Now, Past
    <2>4. CASE WaitForCanary(b)
        <3>1. PICK after \in Waited(b) : Now(b, [gate[b] EXCEPT !.phase = after])
            BY <2>4 DEF WaitForCanary
        <3>2. after \in {"refused", "ready"}
            BY <3>1 DEF Waited
        <3>3. after = "ready" /\ gate[b].approved /\ OnHead(b) => checks[b].parked = "success"
            BY <3>1 DEF Waited
        <3>4. QED BY <2>4, <3>1, <3>2, <3>3 DEF WaitForCanary, Now, Past
    <2>5. QED BY <2>1, <2>2, <2>3, <2>4
<1>2. /\ [gate[b] EXCEPT !.phase = phase] \in Gates
      /\ Knows(b, [gate[b] EXCEPT !.phase = phase])
    BY <1>1, PhaseMoves
<1>3. QED BY <1>1, <1>2, GateFacts, GateMovesAlone

\* A gate that is asked for: the others, and what it will start from, stay.
LEMMA AskStep ==
    ASSUME GateInvariant, NEW b \in Branches, GateAgain(b)
    PROVE  GateInvariant'
<1>1. /\ next' = [next EXCEPT ![b] = Run(head[b], b)]
      /\ tally' = tally \/ tally' = [tally EXCEPT !.again = @ + 1]
      /\ head[b] \in Commits /\ gate[b] \in Gates /\ Knows(b, gate[b])
      /\ UNCHANGED <<main, head, open, gate, checks, handed, queue, posts, proved, fell>>
    BY GateFacts DEF GateAgain
<1>2. /\ next' \in [Branches -> Gates]
      /\ \A a \in Branches : next'[a] = IdleGate \/ Waiting(next'[a])
    BY <1>1, RunTyped, GateFacts
<1>3. gate' = [gate EXCEPT ![b] = gate[b]]
    BY <1>1, GateFacts
<1>4. /\ NewId' = NewId
      /\ tally' \in [daily : Nat, hand : Nat, trim : Nat, again : Nat]
    <2>1. tally \in [daily : Nat, hand : Nat, trim : Nat, again : Nat]
        BY DEF GateInvariant, Types
    <2>2. QED BY <1>1, <2>1 DEF NewId
<1>5. Types'
    BY <1>1, <1>2, <1>4 DEF GateInvariant, Types
<1>6. NoVerdictTwice'
    BY <1>1 DEF GateInvariant, NoVerdictTwice
<1>7. Knows(b, gate[b])'
    BY <1>1, <1>4 DEF Knows, Sound, Honest, Proven
<1>8. PICK g \in Gates : g = gate[b]
    BY <1>1
<1>9. gate' = [gate EXCEPT ![b] = g] /\ Knows(b, g)'
    BY <1>1, <1>3, <1>7, <1>8
<1>10. HistoryGrows
    BY <1>1 DEF HistoryGrows
<1>11. QED BY <1>1, <1>4, <1>5, <1>6, <1>9, <1>10, GateMovesOn

\* The next gate starts from what the branch has by now.
LEMMA RedispatchStep ==
    ASSUME GateInvariant, NEW b \in Branches, Redispatch(b)
    PROVE  GateInvariant'
<1> DEFINE to == TrimBranch(b)
<1>1. /\ gate' = [gate EXCEPT ![b] = IdleGate]
      /\ next' = IF head[to] = None THEN next
                  ELSE [next EXCEPT ![to] = Run(head[to], gate[b].pr)]
      /\ gate[b].phase = "again"
      /\ UNCHANGED <<main, head, open, checks, handed, queue, posts, tally, proved, fell>>
    BY DEF Redispatch, Now
<1>2. to \in Branches
    BY GateAssumption DEF TrimBranch
<1>3. gate[b].pr = b
    BY <1>1, GateFacts DEF Knows, Past
<1>4. head[to] # None => head[to] \in Commits
    BY <1>2, GateFacts
<1> HIDE DEF to
<1>5. /\ next' \in [Branches -> Gates]
      /\ \A a \in Branches : next'[a] = IdleGate \/ Waiting(next'[a])
    BY <1>1, <1>2, <1>3, <1>4, RunTyped, GateFacts
<1>6. QED BY <1>1, <1>5, RunTyped, GateFacts, GateMovesAlone

\* Before it knows a verdict a gate reads what the build reported.
LEMMA BuildStep ==
    ASSUME GateInvariant, NEW b \in Branches, Build(b)
    PROVE  GateInvariant'
<1> DEFINE c == gate[b].commit
           of(kind) == {p \in Selected(c) : <<p, c.tree.lock[p]>> \in kind}
<1>1. PICK some \in SUBSET of(Flaky) :
          LET failed == of(Broken) \cup some
              result == IF failed = {} THEN "success" ELSE "failure"
          IN  /\ Now(b, [gate[b] EXCEPT !.phase = "verdict",
                            !.out = Outcome(result, TRUE, Selected(c), failed)])
              /\ proved' = IF failed = {} /\ Selected(c) = Bumped(c)
                           THEN proved \cup {Move(c)} ELSE proved
              /\ fell' = fell \cup {<<p, c.tree.lock[p]>> : p \in failed}
    BY DEF Build
<1> DEFINE failed == of(Broken) \cup some
           out == Outcome(IF failed = {} THEN "success" ELSE "failure", TRUE, Selected(c), failed)
           g == [gate[b] EXCEPT !.phase = "verdict", !.out = out]
<1>2. gate[b].phase = "build"
      /\ UNCHANGED <<main, released, head, open, next, checks, handed, queue, posts, tally>>
    BY DEF Build
<1>3. gate[b] \in Gates /\ Knows(b, gate[b]) /\ gate[b].phase \in Past
    BY <1>2, GateFacts DEF Past
<1>4. c \in Commits /\ c.tree.lock \in [Packages -> Versions]
    BY <1>2, <1>3 DEF Knows, Commits, Trees
<1>5. Selected(c) \subseteq Bumped(c) /\ Selected(c) \subseteq Packages /\ failed \subseteq Packages
    BY <1>1 DEF Selected, Bumped, Differs
<1>6. /\ out \in Outcomes /\ out.failed = failed /\ out.selected = Selected(c)
      /\ out.result = "success" => failed = {}
    BY <1>5 DEF Outcome, Outcomes
<1>7. /\ gate' = [gate EXCEPT ![b] = g]
      /\ proved' = IF failed = {} /\ Selected(c) = Bumped(c) THEN proved \cup {Move(c)} ELSE proved
      /\ fell' = fell \cup {<<p, c.tree.lock[p]>> : p \in failed}
    BY <1>1 DEF Now
<1> HIDE DEF out, failed
<1>8. /\ g \in Gates /\ g.phase = "verdict" /\ g.commit = c /\ g.out = out
      /\ g.pr = gate[b].pr
    BY <1>3, <1>6 DEF Gates, Past
<1> HIDE DEF g, c
<1>9. /\ HistoryGrows /\ fell' \subseteq Packages \X Versions
    BY <1>4, <1>5, <1>7 DEF HistoryGrows, GateInvariant, Types
<1>10. Types' /\ NoVerdictTwice'
    <2>1. gate' \in [Branches -> Gates]
        BY <1>7, <1>8, GateFacts
    <2>2. QED BY <1>2, <1>9, <2>1 DEF GateInvariant, Types, NoVerdictTwice
<1>11. PICK h \in Gates : h = g
    BY <1>8
<1>12. Knows(b, h)'
    <2>1. /\ h.pr = b /\ h.commit \in Commits /\ h.commit.id < NewId /\ Sound(b, h.commit)
          /\ \A a \in Branches \ {b} : head[a].id # h.commit.id
        BY <1>3, <1>4, <1>8, <1>11 DEF Knows, c
    <2>2. NewId' = NewId
        BY <1>2 DEF NewId
    <2>3. \A p \in h.out.failed : <<p, h.commit.tree.lock[p]>> \in fell'
        BY <1>6, <1>7, <1>8, <1>11
    <2>4. Verdict(Bumped(h.commit), h.out) => Move(h.commit) \in proved'
        <3>1. h.commit = c /\ h.out = out
            BY <1>8, <1>11
        <3>2. ASSUME Verdict(Bumped(c), out)
              PROVE  Move(c) \in proved'
            <4>1. failed = {} /\ Selected(c) = Bumped(c)
                BY <1>5, <1>6, <3>2 DEF Verdict
            <4>2. proved' = proved \cup {Move(c)}
                BY <1>7, <4>1
            <4>3. QED BY <4>2
        <3>3. QED BY <3>1, <3>2
    <2>5. Sound(b, h.commit)'
        BY <1>9, <2>1 DEF Sound, Honest, HistoryGrows
    <2>6. h.phase = "verdict"
        BY <1>8, <1>11
    <2>7. QED BY <1>2, <2>1, <2>2, <2>3, <2>4, <2>5, <2>6 DEF Knows, Past
<1>13. QED BY <1>2, <1>7, <1>9, <1>10, <1>11, <1>12, GateMoves

\* A build that reports nothing gives no verdict and holds nothing.
LEMMA BuildDiesStep ==
    ASSUME GateInvariant, NEW b \in Branches, BuildDies(b)
    PROVE  GateInvariant'
<1> DEFINE out == Outcome("failure", FALSE, {}, {})
           g == [gate[b] EXCEPT !.phase = "verdict", !.out = out]
<1>1. /\ gate' = [gate EXCEPT ![b] = g] /\ gate[b].phase = "build"
      /\ UNCHANGED <<main, head, open, next, checks, handed, queue, posts, tally, proved, fell>>
    BY DEF BuildDies, Now
<1>2. gate[b] \in Gates /\ Knows(b, gate[b]) /\ gate[b].phase \in Past
    BY <1>1, GateFacts DEF Past
<1>3. out \in Outcomes /\ out.failed = {} /\ out.reported = FALSE
    BY DEF Outcome, Outcomes
<1> HIDE DEF out
<1>4. /\ g \in Gates /\ g.phase = "verdict" /\ g.commit = gate[b].commit /\ g.out = out
      /\ g.pr = gate[b].pr
    BY <1>2, <1>3 DEF Gates, Past
<1> HIDE DEF g
<1>5. Knows(b, g)
    BY <1>1, <1>2, <1>3, <1>4 DEF Knows, Past, Verdict
<1>6. QED BY <1>1, <1>4, <1>5, GateFacts, GateMovesAlone

\* The Canary is asked to run on the branch.
LEMMA SendCanaryStep ==
    ASSUME GateInvariant, NEW b \in Branches, SendCanary(b)
    PROVE  GateInvariant'
<1> DEFINE phase == IF Bumped(gate[b].commit) = {} THEN "verdict" ELSE "build"
           g == [gate[b] EXCEPT !.phase = phase]
<1>1. /\ gate' = [gate EXCEPT ![b] = g] /\ gate[b].phase = "canary"
      /\ checks' = IF head[b] = None THEN checks ELSE [checks EXCEPT ![b].sent = "pending"]
      /\ UNCHANGED <<main, head, open, next, handed, queue, posts, tally, proved, fell>>
    BY DEF SendCanary, Now
<1>2. gate[b] \in Gates /\ Knows(b, gate[b]) /\ gate[b].phase \in Past
    BY <1>1, GateFacts DEF Past
<1>3. /\ g \in Gates /\ g.phase = phase /\ g.commit = gate[b].commit /\ g.pr = gate[b].pr
      /\ g.out = gate[b].out
    BY <1>2 DEF Gates, Past
<1> HIDE DEF g
<1>4. /\ checks' \in [Branches -> Checks]
      /\ \A a \in Branches : checks'[a].parked = checks[a].parked
    BY <1>1 DEF GateInvariant, Types, Checks
<1>5. Types' /\ NoVerdictTwice'
    <2>1. gate' \in [Branches -> Gates]
        BY <1>1, <1>3, GateFacts
    <2>2. QED BY <1>1, <1>4, <2>1 DEF GateInvariant, Types, NoVerdictTwice
<1>6. PICK h \in Gates : h = g
    BY <1>3
<1>7. Knows(b, h)'
    <2>1. /\ h.pr = b /\ h.commit \in Commits /\ h.commit.id < NewId /\ Sound(b, h.commit)
          /\ \A a \in Branches \ {b} : head[a].id # h.commit.id
          /\ h.phase = phase
        BY <1>1, <1>2, <1>3, <1>6 DEF Knows
    <2>2. NewId' = NewId
        BY <1>1 DEF NewId
    <2>3. Sound(b, h.commit)'
        BY <1>1, <2>1 DEF Sound, Honest
    <2>4. CASE phase = "build"
        BY <1>1, <2>1, <2>2, <2>3, <2>4 DEF Knows, Past
    <2>5. CASE phase = "verdict"
        <3>1. Bumped(h.commit) = {} /\ h.out.failed = {}
            BY <1>1, <1>2, <1>3, <1>6, <2>5 DEF Knows, Untried, Outcome
        <3>2. QED BY <1>1, <2>1, <2>2, <2>3, <2>5, <3>1 DEF Knows, Past, Verdict
    <2>6. QED BY <2>4, <2>5
<1>8. QED BY <1>1, <1>4, <1>5, <1>6, <1>7, GateMoves DEF HistoryGrows

\* A verdict that was not said before is said once.
LEMMA JudgeSpeaksOnce ==
    ASSUME NoVerdictTwice, NEW b \in Branches, Judge(b)
    PROVE  NoVerdictTwice'
<1>1. posts' = posts \/ (Marker(b) \notin DOMAIN posts /\ posts' = Posted(Marker(b)))
    BY DEF Judge, NotSeen
<1>2. CASE posts' = posts
    BY <1>2 DEF NoVerdictTwice
<1>3. CASE Marker(b) \notin DOMAIN posts /\ posts' = Posted(Marker(b))
    <2>1. /\ DOMAIN posts' = DOMAIN posts \cup {Marker(b)}
          /\ \A m \in DOMAIN posts' : posts'[m] = IF m \notin DOMAIN posts THEN 1
                                                 ELSE IF m = Marker(b) THEN posts[m] + 1 ELSE posts[m]
        BY <1>3 DEF Posted
    <2>2. ASSUME NEW m \in DOMAIN posts'
          PROVE  posts'[m] = 1
        <3>1. CASE m \in DOMAIN posts
            BY <1>3, <2>1, <3>1 DEF NoVerdictTwice
        <3>2. CASE m \notin DOMAIN posts
            BY <2>1, <3>2
        <3>3. QED BY <3>1, <3>2
    <2>3. QED BY <2>2 DEF NoVerdictTwice
<1>4. QED BY <1>1, <1>2, <1>3

\* A verdict to land is of what was built; a hold is of what failed.
LEMMA JudgeStep ==
    ASSUME GateInvariant, NEW b \in Branches, Judge(b)
    PROVE  GateInvariant'
<1> DEFINE phase == IF Landable(b) THEN "parked" ELSE IF ToHold(b) = {} THEN "refused" ELSE "hold"
           hold == IF Landable(b) THEN gate[b].hold ELSE ToHold(b)
           g == [gate[b] EXCEPT !.phase = phase, !.hold = hold, !.out = Untried]
<1>1. gate[b].phase = "verdict"
      /\ UNCHANGED <<main, head, open, next, checks, handed, queue, tally, proved, fell>>
    BY DEF Judge
<1>2. gate[b] \in Gates /\ Knows(b, gate[b]) /\ gate[b].phase \in Past
    BY <1>1, GateFacts DEF Past
<1>3. ToHold(b) \subseteq gate[b].out.failed /\ gate[b].out.failed \subseteq Packages
    BY <1>2 DEF ToHold, Holdable, Gates, Outcomes
<1>4. hold \in SUBSET Packages /\ Untried \in Outcomes
    BY <1>2, <1>3 DEF Gates, Untried, Outcome, Outcomes
<1>5. gate' = [gate EXCEPT ![b] = g]
    <2>1. CASE Landable(b)
        <3>1. gate' = [gate EXCEPT ![b] = [gate[b] EXCEPT !.phase = "parked", !.out = Untried]]
            BY <2>1 DEF Judge, Now
        <3>2. g = [gate[b] EXCEPT !.phase = "parked", !.out = Untried]
            BY <1>2, <2>1 DEF Gates
        <3>3. QED BY <3>1, <3>2
    <2>2. CASE ~Landable(b)
        <3>1. gate' = [gate EXCEPT ![b] = [gate[b] EXCEPT !.phase = IF ToHold(b) = {} THEN "refused" ELSE "hold",
                                                          !.hold = ToHold(b), !.out = Untried]]
            BY <2>2 DEF Judge, Now
        <3>2. QED BY <2>2, <3>1
    <2>3. QED BY <2>1, <2>2
<1> HIDE DEF hold
<1>6. /\ g \in Gates /\ g.phase = phase /\ g.commit = gate[b].commit /\ g.pr = gate[b].pr
      /\ g.hold = hold
    BY <1>2, <1>4 DEF Gates, Past
<1> HIDE DEF g
<1>7. Landable(b) => Proven(gate[b].commit)
    BY <1>1, <1>2 DEF Landable, HoldsOnlyVerdict, Knows, Proven
<1>8. ~Landable(b) => \A p \in hold : <<p, gate[b].commit.tree.lock[p]>> \in fell
    BY <1>1, <1>2, <1>3 DEF Knows, hold
<1>9. PICK h \in Gates : h = g
    BY <1>6
<1>10. Knows(b, h)
    <2>1. /\ h.pr = b /\ h.commit \in Commits /\ h.commit.id < NewId /\ Sound(b, h.commit)
          /\ \A a \in Branches \ {b} : head[a].id # h.commit.id
          /\ h.phase = phase /\ h.commit = gate[b].commit /\ h.hold = hold
        BY <1>1, <1>2, <1>6, <1>9 DEF Knows
    <2>2. QED BY <1>7, <1>8, <2>1 DEF Knows, Past
<1>11. NewId' = NewId
    BY <1>1 DEF NewId
<1>12. Knows(b, h)'
    BY <1>1, <1>10, <1>11 DEF Knows, Sound, Honest, Proven
<1>13. NoVerdictTwice'
    BY JudgeSpeaksOnce DEF GateInvariant
<1>14. Types'
    <2>1. gate' \in [Branches -> Gates]
        BY <1>5, <1>6, GateFacts
    <2>2. QED BY <1>1, <2>1 DEF GateInvariant, Types
<1>15. QED BY <1>1, <1>5, <1>9, <1>12, <1>13, <1>14, GateMoves DEF HistoryGrows

\* An approval starts the parked run over.
LEMMA ApproveParkedStep ==
    ASSUME GateInvariant, NEW b \in Branches, ApproveParked(b)
    PROVE  GateInvariant'
<1> DEFINE parked == OnHead(b) /\ checks[b].parked = "parked"
           g == [gate[b] EXCEPT !.phase = "wait", !.approved = parked]
<1>1. /\ gate' = [gate EXCEPT ![b] = g] /\ gate[b].phase = "parked"
      /\ checks' = IF parked THEN [checks EXCEPT ![b].parked = "pending"] ELSE checks
      /\ UNCHANGED <<main, head, open, next, handed, queue, posts, tally, proved, fell>>
    BY DEF ApproveParked, Now
<1>2. gate[b] \in Gates /\ Knows(b, gate[b]) /\ gate[b].phase \in Past
    BY <1>1, GateFacts DEF Past
<1>3. parked \in BOOLEAN
    OBVIOUS
<1>4. /\ checks' \in [Branches -> Checks]
      /\ \A a \in Branches : checks[a].parked = "success" => checks'[a].parked = "success"
    BY <1>1 DEF GateInvariant, Types, Checks
<1> HIDE DEF parked
<1>5. /\ g \in Gates /\ g.phase = "wait" /\ g.commit = gate[b].commit /\ g.pr = gate[b].pr
    BY <1>2, <1>3 DEF Gates, Past
<1> HIDE DEF g
<1>6. PICK h \in Gates : h = g
    BY <1>5
<1>7. NewId' = NewId
    BY <1>1 DEF NewId
<1>8. Knows(b, h)
    BY <1>1, <1>2, <1>5, <1>6 DEF Knows, Past
<1>9. Knows(b, h)'
    BY <1>1, <1>5, <1>6, <1>7, <1>8 DEF Knows, Sound, Honest, Proven
<1>10. Types' /\ NoVerdictTwice'
    <2>1. gate' \in [Branches -> Gates]
        BY <1>1, <1>5, GateFacts
    <2>2. QED BY <1>1, <1>4, <2>1 DEF GateInvariant, Types, NoVerdictTwice
<1>11. QED BY <1>1, <1>4, <1>6, <1>9, <1>10, GateMoves DEF HistoryGrows

\* A commit is handed over at the head it was built at, with its restarted
\* run over.
LEMMA HandOverStep ==
    ASSUME GateInvariant, NEW b \in Branches, HandOver(b)
    PROVE  GateInvariant'
<1> DEFINE new == [branch |-> b, commit |-> gate[b].commit,
                   approved |-> gate[b].approved, valid |-> FALSE]
<1>1. /\ gate' = [gate EXCEPT ![b] = IdleGate] /\ gate[b].phase = "ready"
      /\ head[gate[b].pr] = gate[b].commit
      /\ handed' = handed \cup {new}
      /\ UNCHANGED <<main, head, open, next, checks, queue, posts, tally, proved, fell>>
    BY DEF HandOver, Now
<1>2. gate[b] \in Gates /\ Knows(b, gate[b])
    BY GateFacts
<1>3. /\ gate[b].pr = b /\ gate[b].commit \in Commits /\ gate[b].commit.id < NewId
      /\ Proven(gate[b].commit)
      /\ gate[b].approved => checks[b].parked = "success"
    BY <1>1, <1>2 DEF Knows, Past
<1>4. /\ new \in Handovers /\ new.branch = b /\ new.commit = gate[b].commit
      /\ new.approved = gate[b].approved /\ new.valid = FALSE
    BY <1>2, <1>3 DEF Handovers, Gates
<1> HIDE DEF new
<1>5. NewId' = NewId
    BY <1>1 DEF NewId
<1>6. ASSUME NEW e \in handed'
      PROVE  e \in handed \/ Fit(e)'
    <2>1. CASE e = new
        BY <1>1, <1>3, <1>4, <1>5, <2>1 DEF Fit, Proven
    <2>2. QED BY <1>1, <2>1
<1>7. Types' /\ NoVerdictTwice'
    <2>1. gate' \in [Branches -> Gates]
        BY <1>1, RunTyped, GateFacts
    <2>2. QED BY <1>1, <1>4, <2>1 DEF GateInvariant, Types, NoVerdictTwice
<1>8. PICK h \in Gates : h = IdleGate
    BY RunTyped
<1>9. Knows(b, h)'
    BY <1>8, RunTyped DEF Knows, Past
<1>10. QED BY <1>1, <1>6, <1>7, <1>8, <1>9, GateMoves DEF HistoryGrows

\* A Canary run that ends was pending: a success stays one.
LEMMA CanaryEndsStep ==
    ASSUME GateInvariant, NEW b \in Branches, NEW which \in {"sent", "parked"}, NEW end \in Over,
           CanaryEnds(b, which, end)
    PROVE  GateInvariant'
<1>1. /\ checks[b][which] = "pending" /\ checks' = [checks EXCEPT ![b][which] = end]
      /\ UNCHANGED <<main, head, open, gate, next, handed, queue, posts, tally, proved, fell>>
    BY DEF CanaryEnds
<1>2. checks \in [Branches -> Checks]
    BY DEF GateInvariant, Types
<1>3. /\ checks' \in [Branches -> Checks]
      /\ \A a \in Branches : checks[a].parked = "success" => checks'[a].parked = "success"
    <2>1. CASE which = "sent"
        BY <1>1, <1>2, <2>1 DEF Checks, Over
    <2>2. CASE which = "parked"
        BY <1>1, <1>2, <2>2 DEF Checks, Over
    <2>3. QED BY <2>1, <2>2
<1>4. Types' /\ NoVerdictTwice'
    BY <1>1, <1>3 DEF GateInvariant, Types, NoVerdictTwice
<1>5. PICK h \in Gates : h = gate[b] /\ Knows(b, h)
    BY GateFacts
<1>6. gate' = [gate EXCEPT ![b] = h]
    BY <1>1, <1>5, GateFacts
<1>7. NewId' = NewId
    BY <1>1 DEF NewId
<1>8. Knows(b, h)'
    BY <1>1, <1>3, <1>5, <1>7 DEF Knows, Sound, Honest, Proven
<1>9. QED BY <1>1, <1>3, <1>4, <1>6, <1>8, GateMoves DEF HistoryGrows

----------------------------------------------------------------------------
(* ... pushes and landings *)

\* A push: whoever looked at the branch before holds another commit now.
LEMMA PushMoves ==
    ASSUME GateInvariant, NEW b \in Branches, NEW c \in Commits, c.id = NewId,
           NEW by \in {"daily", "hand", "trim"}, Pushed(b, c, by),
           NEW h \in [Branches -> Gates], gate' = h, \A a \in Branches : Knows(a, h[a]),
           open' = open \/ open' = open \cup {b}, b \in open' => Sound(b, c),
           next' \in [Branches -> Gates],
           \A a \in Branches : next'[a] = IdleGate \/ Waiting(next'[a]),
           UNCHANGED <<main, handed, posts, proved, fell>>
    PROVE  GateInvariant'
<1>1. /\ head \in [Branches -> Commits \cup {None}] /\ head' = [head EXCEPT ![b] = c]
      /\ checks \in [Branches -> Checks] /\ \A a \in Branches \ {b} : checks'[a] = checks[a]
      /\ queue' = {q \in queue : q.branch # b} /\ queue \subseteq Entries
      /\ open \subseteq Branches /\ handed \subseteq Handovers
    BY DEF Pushed, GateInvariant, Types
<1>2. /\ NewId' = NewId + 1 /\ NewId \in Ids
      /\ Types'
    BY <1>1, PushTyped, NewIdIsNew DEF GateInvariant, Types
<1>3. /\ head'[b] = c /\ c # None
      /\ \A a \in Branches \ {b} : head'[a] = head[a]
    BY <1>1, NoneIsNoCommit
<1>4. \A d \in Commits : d.id < NewId => d.id < NewId' /\ d.id # c.id /\ d # c
    BY <1>2 DEF Commits, Ids
<1>5. HeadsInv'
    <2>1. ASSUME NEW a \in Branches, head'[a] # None
          PROVE  head'[a].id < NewId'
        <3>1. CASE a = b
            BY <1>2, <1>3, <3>1 DEF Ids
        <3>2. CASE a # b
            <4>1. head'[a] = head[a] /\ head[a] \in Commits /\ head[a].id < NewId
                BY <1>1, <1>3, <2>1, <3>2 DEF GateInvariant, HeadsInv
            <4>2. QED BY <1>4, <4>1
        <3>3. QED BY <3>1, <3>2
    <2>2. ASSUME NEW a \in Branches, NEW d \in Branches, a # d, head'[a] # None
          PROVE  head'[a].id # head'[d].id
        <3>1. \A x \in Branches : head[x] \in Commits => head[x].id < NewId
            BY NoneIsNoCommit DEF GateInvariant, HeadsInv
        <3>2. \A x \in Branches : head[x].id # c.id
            BY <1>1, <1>4, <3>1, NoneIsNoCommit
        <3>3. CASE a = b \/ d = b
            BY <1>3, <2>2, <3>2, <3>3
        <3>4. CASE a # b /\ d # b
            BY <1>3, <2>2, <3>4 DEF GateInvariant, HeadsInv
        <3>5. QED BY <3>3, <3>4
    <2>3. ASSUME NEW a \in open'
          PROVE  head'[a] # None /\ Sound(a, head[a])'
        <3>1. CASE a = b
            BY <1>3, <2>3, <3>1 DEF Sound, Honest
        <3>2. CASE a # b
            <4>1. a \in open /\ a \in Branches
                BY <1>1, <2>3, <3>2
            <4>2. QED BY <1>3, <3>2, <4>1 DEF GateInvariant, HeadsInv, Sound, Honest
        <3>3. QED BY <3>1, <3>2
    <2>4. QED BY <2>1, <2>2, <2>3 DEF HeadsInv
<1>6. ASSUME NEW a \in Branches
      PROVE  Knows(a, gate[a])'
    <2>1. Knows(a, h[a]) /\ gate'[a] = h[a]
        OBVIOUS
    <2> DEFINE g == h[a]
    <2>2. g.commit \in Commits /\ g.commit.id < NewId =>
             /\ g.commit.id < NewId' /\ g.commit # c /\ g.commit.id # c.id
        BY <1>4
    <2>3. Sound(a, g.commit) => Sound(a, g.commit)'
        BY DEF Sound, Honest
    <2>4. g.phase \in Past => g.commit \in Commits /\ g.commit.id < NewId /\ g.commit # c /\ g.commit.id # c.id
        BY <2>1, <2>2 DEF Knows, Past
    <2>5. g.phase \in Past => \A d \in Branches \ {a} : head'[d].id # g.commit.id
        BY <1>3, <2>1, <2>4 DEF Knows
    <2>6. g.phase = "ready" /\ g.approved /\ head'[a] = g.commit => checks'[a].parked = "success"
        <3>1. CASE a = b
            BY <1>3, <2>4, <3>1 DEF Past
        <3>2. CASE a # b
            BY <1>1, <1>3, <2>1, <3>2 DEF Knows
        <3>3. QED BY <3>1, <3>2
    <2> HIDE DEF g
    <2>7. gate'[a] = g /\ Knows(a, g)
        BY <2>1 DEF g
    <2>8. QED BY <2>2, <2>3, <2>4, <2>5, <2>6, <2>7 DEF Knows, Proven
<1>7. ASSUME NEW e \in handed'
      PROVE  Fit(e)'
    <2>1. Fit(e) /\ e \in Handovers
        BY <1>1 DEF GateInvariant
    <2>2. e.commit.id < NewId' /\ e.commit # c /\ e.branch \in Branches
        BY <1>4, <2>1 DEF Fit, Handovers
    <2>3. StillThere(e)' => StillThere(e) /\ e.branch # b
        BY <1>3, <2>2 DEF StillThere
    <2>4. QED BY <1>1, <2>1, <2>2, <2>3 DEF Fit, Proven
<1>8. ASSUME NEW q \in queue'
      PROVE  InLine(q)'
    <2>1. InLine(q) /\ q.branch # b /\ q.branch \in Branches
        BY <1>1 DEF GateInvariant, Entries
    <2>2. QED BY <1>3, <2>1 DEF InLine, Proven
<1>9. Honest(main)' /\ NoVerdictTwice'
    BY DEF GateInvariant, Honest, NoVerdictTwice
<1>10. QED BY <1>2, <1>5, <1>6, <1>7, <1>8, <1>9 DEF GateInvariant

\* A daily bump starts from main, which holds only failures.
LEMMA ProposeStep ==
    ASSUME GateInvariant, NEW b \in Branches, Propose(b)
    PROVE  GateInvariant'
<1>1. PICK newest \in [Packages -> 1..MaxVersion] :
          LET c == Proposed(b, newest, NewId)
          IN  Pushed(b, c, "daily") /\ next' = [next EXCEPT ![b] = Run(c, b)]
    BY DEF Propose
<1> DEFINE c == Proposed(b, newest, NewId)
<1>2. /\ c \in Commits /\ c.id = NewId
      /\ c.kind = IF b = "upstream" THEN "lock" ELSE "recipes"
      /\ c.tree.hold = [p \in Packages |-> IF p \in Proposal(b, newest) /\ b = "upstream"
                                           THEN 0 ELSE main.hold[p]]
    BY ProposedTyped DEF GateInvariant
<1>3. Pushed(b, c, "daily") /\ next' = [next EXCEPT ![b] = Run(c, b)]
    BY <1>1
<1> HIDE DEF c
<1>4. Sound(b, c)
    BY <1>2 DEF GateInvariant, Sound, Honest
<1>5. /\ next' \in [Branches -> Gates]
      /\ \A a \in Branches : next'[a] = IdleGate \/ Waiting(next'[a])
    BY <1>2, <1>3, RunTyped, GateFacts
<1>6. open' = open \cup {b} /\ UNCHANGED <<main, gate, handed, posts, proved, fell>>
    BY DEF Propose
<1>7. PICK h \in [Branches -> Gates] : h = gate
    BY GateFacts
<1>8. PICK d \in Commits : d = c
    BY <1>2
<1>9. \A a \in Branches : Knows(a, h[a])
    BY <1>7, GateFacts
<1>10. d.id = NewId /\ Pushed(b, d, "daily") /\ Sound(b, d)
    BY <1>2, <1>3, <1>4, <1>8
<1>11. QED BY <1>5, <1>6, <1>7, <1>9, <1>10, PushMoves

\* A push by hand moves no hold.
LEMMA PushByHandStep ==
    ASSUME GateInvariant, NEW b \in Branches, PushByHand(b)
    PROVE  GateInvariant'
<1>1. /\ b \in open /\ UNCHANGED <<main, open, gate, next, handed, posts, proved, fell>>
    BY DEF PushByHand
<1>2. head[b] \in Commits /\ Sound(b, head[b])
    BY <1>1, GateFacts DEF GateInvariant, HeadsInv
<1>3. NewId \in Ids
    BY NewIdIsNew DEF GateInvariant
<1>4. PICK d \in Commits : d.id = NewId /\ Pushed(b, d, "hand") /\ Sound(b, d)
    <2>1. PICK c \in Commits, id \in Ids : c = head[b] /\ id = NewId
        BY <1>2, <1>3
    <2>2. \/ Pushed(b, Spoilt(c, id), "hand")
          \/ \E p \in Packages, v \in Versions : Pushed(b, Edited(c, id, p, v), "hand")
        BY <2>1 DEF PushByHand, Spoilt, Edited, Versions
    <2>3. Spoilt(c, id) \in Commits /\ Spoilt(c, id).id = NewId /\ Sound(b, Spoilt(c, id))
        BY <1>2, <2>1, ByHandTyped DEF Sound
    <2>4. \A p \in Packages, v \in Versions :
             /\ Edited(c, id, p, v) \in Commits /\ Edited(c, id, p, v).id = NewId
             /\ Sound(b, Edited(c, id, p, v))
        BY <1>2, <2>1, ByHandTyped DEF Sound, Honest
    <2>5. QED BY <2>2, <2>3, <2>4
<1>5. PICK h \in [Branches -> Gates] : h = gate
    BY GateFacts
<1>6. \A a \in Branches : Knows(a, h[a])
    BY <1>5, GateFacts
<1>7. /\ next' \in [Branches -> Gates]
      /\ \A a \in Branches : next'[a] = IdleGate \/ Waiting(next'[a])
    BY <1>1, GateFacts
<1>8. QED BY <1>1, <1>4, <1>5, <1>6, <1>7, PushMoves

\* A trim reaches an open bump only at the commit that was built.
LEMMA PushTrimmedStep ==
    ASSUME GateInvariant, NEW b \in Branches, PushTrimmed(b)
    PROVE  GateInvariant'
<1> DEFINE to == TrimBranch(b)
           c == Trim(gate[b].commit, gate[b].hold, NewId)
<1>1. /\ gate[b].phase = "push"
      /\ UNCHANGED <<main, released, open, next, handed, posts, proved, fell>>
    BY DEF PushTrimmed
<1>2. gate[b] \in Gates /\ Knows(b, gate[b])
    BY GateFacts
<1>3. CASE head[to] \notin {gate[b].commit, None}
    <2>1. /\ gate' = [gate EXCEPT ![b] = IdleGate] /\ UNCHANGED <<head, checks, queue, tally>>
        BY <1>3 DEF PushTrimmed, Now
    <2>2. QED BY <1>1, <2>1, RunTyped, GateFacts, GateMovesAlone
<1>4. CASE head[to] \in {gate[b].commit, None}
    <2>1. /\ Pushed(to, c, "trim")
          /\ gate' = [gate EXCEPT ![b] = [gate[b] EXCEPT !.phase = "again"]]
        BY <1>4 DEF PushTrimmed, Now
    <2>2. to \in Branches /\ to = "upstream"
        BY GateAssumption DEF TrimBranch
    <2>3. /\ gate[b].commit \in Commits /\ Sound(b, gate[b].commit)
          /\ \A p \in gate[b].hold : <<p, gate[b].commit.tree.lock[p]>> \in fell
          /\ \A a \in Branches \ {b} : head[a].id # gate[b].commit.id
          /\ gate[b].hold \in SUBSET Packages
        BY <1>1, <1>2 DEF Knows, Past, Gates
    <2>4. /\ c \in Commits /\ c.id = NewId /\ c.kind = gate[b].commit.kind
          /\ \A p \in Packages :
                c.kind # "recipes" =>
                   c.tree.hold[p] = IF p \in gate[b].hold THEN gate[b].commit.tree.lock[p]
                                    ELSE gate[b].commit.tree.hold[p]
        <3>1. NewId \in Ids
            BY NewIdIsNew DEF GateInvariant
        <3>2. PICK d \in Commits, held \in SUBSET Packages, id \in Ids :
                 d = gate[b].commit /\ held = gate[b].hold /\ id = NewId
            BY <2>3, <3>1
        <3>3. c = Trim(d, held, id)
            BY <3>2
        <3> HIDE DEF c
        <3>4. /\ Trim(d, held, id) \in Commits
              /\ Trim(d, held, id).id = id /\ Trim(d, held, id).kind = d.kind
              /\ \A p \in Packages :
                    d.kind # "recipes" =>
                       Trim(d, held, id).tree.hold[p] = IF p \in held THEN d.tree.lock[p] ELSE d.tree.hold[p]
            BY TrimTyped
        <3>5. QED BY <3>2, <3>3, <3>4
    <2> HIDE DEF c
    <2>5. ASSUME to \in open
          PROVE  Sound(to, c)
        <3>1. head[to] # None
            BY <2>5 DEF GateInvariant, HeadsInv
        <3>2. head[to] = gate[b].commit
            BY <1>4, <3>1
        <3>3. b = to
            BY <2>2, <2>3, <3>2
        <3>4. gate[b].commit.kind # "recipes"
            BY <2>2, <2>3, <3>3 DEF Sound
        <3>5. Honest(c.tree)
            BY <2>3, <2>4, <3>4 DEF Sound, Honest
        <3>6. QED BY <2>4, <3>4, <3>5 DEF Sound
    <2>6. PICK h \in [Branches -> Gates] :
             h = [gate EXCEPT ![b] = [gate[b] EXCEPT !.phase = "again"]]
        BY <1>1, PhaseMoves, GateFacts DEF Past
    <2>7. \A a \in Branches : Knows(a, h[a])
        BY <1>1, <2>6, PhaseMoves, GateFacts DEF Past
    <2>8. PICK d \in Commits : d = c
        BY <2>4
    <2>9. /\ d.id = NewId /\ Pushed(to, d, "trim")
          /\ to \in open' => Sound(to, d)
        BY <1>1, <2>1, <2>4, <2>5, <2>8
    <2>10. /\ next' \in [Branches -> Gates]
           /\ \A a \in Branches : next'[a] = IdleGate \/ Waiting(next'[a])
        BY <1>1, GateFacts
    <2> HIDE DEF to
    <2>11. QED BY <1>1, <2>1, <2>2, <2>6, <2>7, <2>8, <2>9, <2>10, PushMoves
<1>5. QED BY <1>3, <1>4

\* A pull request ends: main may move on, to a tree that holds only failures.
LEMMA BranchGoes ==
    ASSUME GateInvariant, NEW b \in Branches, main' \in Trees, Honest(main)',
           open' = open \ {b}, head' = [head EXCEPT ![b] = None],
           queue' = {q \in queue : q.branch # b},
           UNCHANGED <<gate, next, checks, handed, posts, tally, proved, fell>>
    PROVE  GateInvariant'
<1>1. /\ head \in [Branches -> Commits \cup {None}] /\ queue \subseteq Entries
      /\ handed \subseteq Handovers /\ gate \in [Branches -> Gates]
      /\ head' \in [Branches -> Commits \cup {None}] /\ queue' \subseteq Entries
    BY DEF GateInvariant, Types
<1>2. Types' /\ NewId' = NewId
    BY <1>1 DEF GateInvariant, Types, NewId
<1>3. head'[b] = None /\ \A a \in Branches \ {b} : head'[a] = head[a]
    BY <1>1
<1>4. HeadsInv'
    <2>1. ASSUME NEW a \in Branches, NEW d \in Branches, a # d, head'[a] # None
          PROVE  head'[a].id # head'[d].id
        <3>1. head'[a] = head[a] /\ head[a] \in Commits /\ a # b
            BY <1>1, <1>3, <2>1
        <3>2. CASE d = b
            BY <1>3, <3>1, <3>2, NoneIsNoCommit
        <3>3. CASE d # b
            BY <1>3, <2>1, <3>1, <3>3 DEF GateInvariant, HeadsInv
        <3>4. QED BY <3>2, <3>3
    <2>2. QED BY <1>2, <1>3, <2>1 DEF GateInvariant, HeadsInv, Types, Sound, Honest
<1>5. ASSUME NEW a \in Branches
      PROVE  Knows(a, gate[a])'
    <2>1. Knows(a, gate[a]) /\ gate'[a] = gate[a]
        BY DEF GateInvariant
    <2>2. gate[a].phase \in Past => gate[a].commit \in Commits /\ gate[a].commit.id # 0
        BY <2>1, NoneIsNoCommit DEF Knows, Past
    <2>3. gate[a].phase \in Past => \A d \in Branches \ {a} : head'[d].id # gate[a].commit.id
        BY <1>3, <2>1, <2>2, NoneIsNoCommit DEF Knows
    <2>4. gate[a].phase = "ready" /\ gate[a].approved /\ head'[a] = gate[a].commit
             => checks'[a].parked = "success"
        BY <1>3, <2>1, <2>2, NoneIsNoCommit DEF Knows, Past
    <2>5. QED BY <1>2, <2>1, <2>2, <2>3, <2>4 DEF Knows, Sound, Honest, Proven
<1>6. ASSUME NEW e \in handed'
      PROVE  Fit(e)'
    <2>1. Fit(e) /\ e.branch \in Branches /\ e.commit # None
        BY <1>1, NoneIsNoCommit DEF GateInvariant, Handovers
    <2>2. StillThere(e)' => StillThere(e)
        BY <1>3, <2>1 DEF StillThere
    <2>3. QED BY <1>2, <2>1, <2>2 DEF Fit, Proven
<1>7. ASSUME NEW q \in queue'
      PROVE  InLine(q)'
    <2>1. InLine(q) /\ q.branch # b /\ q.branch \in Branches
        BY <1>1 DEF GateInvariant, Entries
    <2>2. QED BY <1>3, <2>1 DEF InLine, Proven
<1>8. QED BY <1>2, <1>4, <1>5, <1>6, <1>7 DEF GateInvariant, NoVerdictTwice

\* A branch that goes takes its place in line with it.
LEMMA WithdrawStep ==
    ASSUME GateInvariant, NEW b \in Branches, Withdraw(b)
    PROVE  GateInvariant'
<1>1. main' \in Trees /\ Honest(main)'
    BY DEF Withdraw, GateInvariant, Types, Honest
<1>2. QED BY <1>1, BranchGoes DEF Withdraw

\* A squash is a tree, and holds what main or the commit holds.
LEMMA LandedTree ==
    ASSUME GateInvariant, NEW q \in queue, Land(q)
    PROVE  main' \in Trees /\ Honest(main)'
<1>1. /\ q \in Entries /\ q.branch \in open /\ head[q.branch] = q.commit
      /\ q.commit \in Commits
    BY DEF GateInvariant, Types, InLine, Entries
<1>2. /\ main' = [lock |-> Squash(q.commit, "lock"), hold |-> Squash(q.commit, "hold"),
                   report |-> Squash(q.commit, "report"), guarded |-> main.guarded]
      /\ fell' = fell
    BY DEF Land
<1>3. q.commit.tree \in Trees /\ main \in Trees
    BY <1>1 DEF GateInvariant, Types, Commits
<1>4. /\ Squash(q.commit, "lock") \in [Packages -> Versions]
      /\ Squash(q.commit, "report") \in [Packages -> Versions]
      /\ Squash(q.commit, "hold") \in [Packages -> Versions]
      /\ \A p \in Packages : Squash(q.commit, "hold")[p] \in {q.commit.tree.hold[p], main.hold[p]}
    BY <1>3 DEF Squash, Trees
<1>5. main' \in Trees /\ main'.hold = Squash(q.commit, "hold")
    BY <1>2, <1>3, <1>4 DEF Trees
<1>6. Honest(q.commit.tree) /\ Honest(main)
    BY <1>1 DEF GateInvariant, HeadsInv, Sound
<1>7. ASSUME NEW p \in Packages, main'.hold[p] # 0
      PROVE  <<p, main'.hold[p]>> \in fell'
    BY <1>2, <1>4, <1>5, <1>6, <1>7 DEF Honest
<1>8. QED BY <1>5, <1>7 DEF Honest

\* What lands leaves the line, and its branch goes.
LEMMA LandStep ==
    ASSUME GateInvariant, NEW q \in queue, Land(q)
    PROVE  GateInvariant'
<1>1. q.branch \in Branches
    BY DEF GateInvariant, Types, Entries
<1>2. QED BY <1>1, LandedTree, BranchGoes DEF Land

\* A package kept for a human changes nothing that was decided.
LEMMA GuardByHandStep ==
    ASSUME GateInvariant, NEW p \in Packages, GuardByHand(p)
    PROVE  GateInvariant'
<1>1. /\ main' = [main EXCEPT !.guarded = @ \cup {p}]
      /\ tally' = [tally EXCEPT !.hand = @ + 1]
      /\ UNCHANGED <<head, open, gate, next, checks, handed, queue, posts, proved, fell>>
    BY DEF GuardByHand
<1>2. /\ main' \in Trees /\ main'.hold = main.hold
      /\ tally' \in [daily : Nat, hand : Nat, trim : Nat, again : Nat] /\ NewId' = NewId + 1 /\ NewId \in Nat
    BY <1>1, NewIdIsNew DEF GateInvariant, Types, Trees, NewId, Ids
<1>3. Types'
    BY <1>1, <1>2 DEF GateInvariant, Types
<1>4. \A d \in Commits : d.id < NewId => d.id < NewId'
    BY <1>2 DEF Commits, Ids
<1>5. HeadsInv'
    BY <1>1, <1>4 DEF GateInvariant, Types, HeadsInv, Sound, Honest
<1>6. ASSUME NEW a \in Branches
      PROVE  Knows(a, gate[a])'
    <2>1. Knows(a, gate[a]) /\ gate'[a] = gate[a]
        BY <1>1 DEF GateInvariant
    <2>2. QED BY <1>1, <1>4, <2>1 DEF Knows, Sound, Honest, Proven, Past
<1>7. \A e \in handed' : Fit(e)'
    BY <1>1, <1>4 DEF GateInvariant, Types, Handovers, Fit, Proven, StillThere
<1>8. \A q \in queue' : InLine(q)'
    BY <1>1 DEF GateInvariant, InLine, Proven
<1>9. Honest(main)' /\ NoVerdictTwice'
    BY <1>1, <1>2 DEF GateInvariant, Honest, NoVerdictTwice
<1>10. QED BY <1>3, <1>5, <1>6, <1>7, <1>8, <1>9 DEF GateInvariant

\* Main's own tools judge what was handed over.
LEMMA ValidateStep ==
    ASSUME GateInvariant, NEW e \in handed, Validate(e)
    PROVE  GateInvariant'
<1> DEFINE new == [e EXCEPT !.valid = TRUE]
<1>1. /\ \A f \in handed' : f \in handed \/ (f = new /\ PlanAccepts(e.commit))
      /\ UNCHANGED <<main, head, open, gate, next, checks, queue, posts, tally, proved, fell>>
    BY DEF Validate
<1>2. e \in Handovers /\ Fit(e)
    BY DEF GateInvariant, Types
<1>3. /\ new \in Handovers /\ new.branch = e.branch /\ new.commit = e.commit
      /\ new.approved = e.approved
    BY <1>2 DEF Handovers
<1> HIDE DEF new
<1>4. NewId' = NewId
    BY <1>1 DEF NewId
<1>5. ASSUME NEW f \in handed'
      PROVE  f \in handed \/ Fit(f)'
    BY <1>1, <1>2, <1>3, <1>4 DEF Fit, Proven, StillThere
<1>6. Types' /\ NoVerdictTwice'
    BY <1>1, <1>3 DEF GateInvariant, Types, NoVerdictTwice
<1>7. PICK b \in Branches : TRUE
    BY GateAssumption
<1>8. PICK h \in Gates : h = gate[b] /\ Knows(b, h)
    BY GateFacts
<1>9. gate' = [gate EXCEPT ![b] = h]
    BY <1>1, <1>8, GateFacts
<1>10. Knows(b, h)'
    BY <1>1, <1>4, <1>8 DEF Knows, Sound, Honest, Proven
<1>11. QED BY <1>1, <1>5, <1>6, <1>9, <1>10, GateMoves DEF HistoryGrows

\* What gets in line is still the head it was judged at.
LEMMA EnqueueStep ==
    ASSUME GateInvariant, NEW e \in handed, Enqueue(e)
    PROVE  GateInvariant'
<1>1. /\ handed' = handed \ {e} /\ e.valid
      /\ queue' \subseteq queue \cup Enqueued(e)
      /\ UNCHANGED <<main, head, open, gate, next, checks, posts, tally, proved, fell>>
    BY DEF Enqueue
<1>2. e \in Handovers /\ Fit(e)
    BY DEF GateInvariant, Types
<1>3. ASSUME NEW q \in Enqueued(e)
      PROVE  q \in Entries /\ InLine(q)
    BY <1>1, <1>2, <1>3 DEF Enqueued, StillThere, Entries, Handovers, InLine, Fit
<1>4. Types' /\ NewId' = NewId
    BY <1>1, <1>3 DEF GateInvariant, Types, NewId
<1>5. HeadsInv'
    BY <1>1, <1>4 DEF GateInvariant, HeadsInv, Sound, Honest
<1>6. ASSUME NEW a \in Branches
      PROVE  Knows(a, gate[a])'
    <2>1. Knows(a, gate[a]) /\ gate'[a] = gate[a]
        BY <1>1 DEF GateInvariant
    <2>2. QED BY <1>1, <1>4, <2>1 DEF Knows, Sound, Honest, Proven
<1>7. \A f \in handed' : Fit(f)'
    BY <1>1, <1>4 DEF GateInvariant, Fit, Proven, StillThere
<1>8. \A q \in queue' : InLine(q)'
    BY <1>1, <1>3 DEF GateInvariant, InLine, Proven
<1>9. Honest(main)' /\ NoVerdictTwice'
    BY <1>1 DEF GateInvariant, Honest, NoVerdictTwice
<1>10. QED BY <1>4, <1>5, <1>6, <1>7, <1>8, <1>9 DEF GateInvariant

----------------------------------------------------------------------------
(* The theorems *)

\* Nothing is open, held or in line at first.
LEMMA InitGate == Init => GateInvariant
<1> SUFFICES ASSUME Init PROVE GateInvariant
    OBVIOUS
<1>1. /\ 0 \in Versions /\ 1 \in Versions
    BY GateAssumption DEF Versions
<1>2. main \in Trees /\ main.hold = [p \in Packages |-> 0]
    BY <1>1 DEF Init, Trees, Zero
<1>3. Types
    BY <1>2, RunTyped DEF Init, Types, Checks, Quiet, None
<1>4. \A b \in Branches : Knows(b, gate[b])
    BY RunTyped DEF Init, Knows, Past
<1>5. HeadsInv /\ Honest(main) /\ NoVerdictTwice
    BY <1>2, NoneIsNoCommit DEF Init, HeadsInv, Honest, NoVerdictTwice
<1>6. QED BY <1>3, <1>4, <1>5 DEF Init, GateInvariant

\* Every step keeps what the gates, the handovers and the line know.
LEMMA GateInvariantIsInductive == GateInvariant /\ [Next]_vars => GateInvariant'
<1> SUFFICES ASSUME GateInvariant, [Next]_vars PROVE GateInvariant'
    OBVIOUS
<1>1. CASE UNCHANGED vars
    <2>1. UNCHANGED <<main, head, open, gate, next, checks, handed, queue, posts, tally, proved, fell>>
        BY <1>1 DEF vars
    <2>2. PICK b \in Branches : TRUE
        BY GateAssumption
    <2>3. gate' = [gate EXCEPT ![b] = gate[b]] /\ gate[b] \in Gates /\ Knows(b, gate[b])
        BY <2>1, GateFacts
    <2>4. /\ next' \in [Branches -> Gates]
          /\ \A a \in Branches : next'[a] = IdleGate \/ Waiting(next'[a])
        BY <2>1, GateFacts
    <2>5. QED BY <2>1, <2>3, <2>4, GateMovesAlone
<1>2. ASSUME NEW p \in Packages, GuardByHand(p) PROVE GateInvariant'
    BY <1>2, GuardByHandStep
<1>3. ASSUME NEW b \in Branches,
             Propose(b) \/ GateAgain(b) \/ Withdraw(b) \/ PushByHand(b) \/ Cancel(b)
      PROVE  GateInvariant'
    BY <1>3, ProposeStep, AskStep, WithdrawStep, PushByHandStep, CancelStep
<1>4. ASSUME NEW b \in Branches, GateStep(b) PROVE GateInvariant'
    <2>1. CASE Start(b) \/ Plan(b) \/ SendCanary(b) \/ Build(b) \/ Judge(b) \/ Stop(b)
        BY <2>1, StartStep, PlanStep, SendCanaryStep, BuildStep, JudgeStep, CancelStep
    <2>2. CASE HoldFailed(b) \/ PushTrimmed(b) \/ Redispatch(b)
        BY <2>2, WaitSteps, PushTrimmedStep, RedispatchStep
    <2>3. CASE ApproveParked(b) \/ WaitForCanary(b) \/ HandOver(b)
        BY <2>3, ApproveParkedStep, WaitSteps, HandOverStep
    <2>4. QED BY <1>4, <2>1, <2>2, <2>3 DEF GateStep
<1>5. ASSUME NEW b \in Branches, GateFault(b) PROVE GateInvariant'
    BY <1>5, BuildDiesStep, WaitSteps DEF GateFault
<1>6. ASSUME NEW b \in Branches, NEW which \in {"sent", "parked"}, NEW end \in Over,
             CanaryEnds(b, which, end)
      PROVE  GateInvariant'
    BY <1>6, CanaryEndsStep
<1>7. ASSUME NEW e \in handed, Validate(e) \/ Enqueue(e) PROVE GateInvariant'
    BY <1>7, ValidateStep, EnqueueStep
<1>8. ASSUME NEW q \in queue, Land(q) PROVE GateInvariant'
    BY <1>8, LandStep
<1>9. QED BY <1>1, <1>2, <1>3, <1>4, <1>5, <1>6, <1>7, <1>8 DEF Next

\* The gates, their commits, what is handed over and what is in line agree
\* with each other in every state, whatever is pushed meanwhile.
THEOREM GateIsInvariant == Spec => []GateInvariant
BY InitGate, GateInvariantIsInductive, PTL DEF Spec

\* Every variable keeps its type; what is in line is the head of its branch.
THEOREM TypeCorrect == Spec => []TypeOK
<1>1. GateInvariant => TypeOK
    <2> SUFFICES ASSUME GateInvariant PROVE TypeOK
        OBVIOUS
    <2>1. /\ main.lock \in [Packages -> 0..MaxVersion] /\ main.guarded \subseteq Packages
          /\ main.hold \in [Packages -> 0..MaxVersion]
          /\ fell \subseteq Packages \X (0..MaxVersion)
        BY DEF GateInvariant, Types, Trees, Versions
    <2>2. ASSUME NEW b \in Branches
          PROVE  /\ head[b] = None \/ head[b].id \in Ids
                 /\ gate[b] = IdleGate \/ gate[b].commit.id \in Ids
                 /\ b \in open => head[b] # None
        BY GateFacts DEF GateInvariant, HeadsInv, Knows, Commits
    <2>3. \A q \in queue : head[q.branch] = q.commit
        BY DEF GateInvariant, InLine
    <2>4. QED BY <2>1, <2>2, <2>3 DEF TypeOK
<1>2. QED BY <1>1, GateIsInvariant, PTL

\* Every hold on main names a version that a gate saw fail, so no working
\* version is kept from being proposed (bump_gate.py, holdable and trim).
THEOREM HoldsCorrect == Spec => []HoldsAreOfFailures
<1>1. GateInvariant => HoldsAreOfFailures
    BY DEF GateInvariant, Honest, HoldsAreOfFailures
<1>2. QED BY <1>1, GateIsInvariant, PTL

\* The gate queues only what it may land, hands over only what its restarted
\* checks passed, and says each verdict once (bump_gate.py, plan and
\* already_posted; bump-upstream-gate.yml).
THEOREM GateCorrect == Spec => []GateKeepsItsWord
<1>1. GateInvariant => GateKeepsItsWord
    <2> SUFFICES ASSUME GateInvariant PROVE GateKeepsItsWord
        OBVIOUS
    <2>1. OnlyBumpsAreQueued
        BY DEF GateInvariant, InLine, PlanAccepts, OnlyBumpsAreQueued
    <2>2. ApprovedRunsAreOver
        BY DEF GateInvariant, Fit, ApprovedRunsAreOver
    <2>3. QED BY <2>1, <2>2 DEF GateInvariant, GateKeepsItsWord
<1>2. QED BY <1>1, GateIsInvariant, PTL

\* A build that passes whole proves a move of Landing.
LEMMA BuildProves ==
    ASSUME GateInvariant, NEW b \in Branches, Build(b)
    PROVE  Promise!Prove \/ UNCHANGED <<main.lock, proved>>
<1> DEFINE c == gate[b].commit
<1>1. c \in Commits /\ main' = main
    BY GateFacts DEF Build, Knows
<1>2. proved' \in {proved, proved \cup {Move(c)}}
    BY DEF Build
<1>3. c.tree.lock \in [Packages -> Versions]
    BY <1>1 DEF Commits, Trees
<1>4. Differs(c) \in SUBSET Packages /\ Move(c) \in [Differs(c) -> 0..MaxVersion]
    BY <1>3 DEF Differs, Move, Versions
<1> HIDE DEF c
<1>5. Move(c) \in Promise!Moves
    BY <1>4 DEF Promise!Moves
<1>6. QED BY <1>1, <1>2, <1>5 DEF Promise!Prove

\* A squash of what is in line lands a move that was proved, or no move.
LEMMA LandLands ==
    ASSUME GateInvariant, NEW q \in queue, Land(q)
    PROVE  Promise!Land \/ UNCHANGED <<main.lock, proved>>
<1> DEFINE c == q.commit
<1>1. c \in Commits /\ Proven(c) /\ main \in Trees
    BY DEF GateInvariant, Types, Entries, InLine
<1>2. proved' = proved /\ main'.lock = Squash(c, "lock")
    BY DEF Land
<1>3. Squash(c, "lock") = [p \in Packages |-> IF p \in Differs(c) THEN c.tree.lock[p] ELSE main.lock[p]]
    BY DEF Squash, Differs
<1>4. CASE Bumped(c) = {}
    <2>1. main'.lock = [p \in Packages |-> main.lock[p]]
        BY <1>2, <1>3, <1>4 DEF Bumped
    <2>2. main.lock \in [Packages -> Versions]
        BY <1>1 DEF Trees
    <2>3. QED BY <1>2, <2>1, <2>2
<1>5. CASE Move(c) \in proved
    <2>1. DOMAIN Move(c) = Differs(c) /\ \A p \in Differs(c) : Move(c)[p] = c.tree.lock[p]
        BY DEF Move
    <2>2. main'.lock = Promise!Landed(Move(c))
        BY <1>2, <1>3, <2>1 DEF Promise!Landed
    <2>3. QED BY <1>2, <1>5, <2>2 DEF Promise!Land
<1>6. QED BY <1>1, <1>4, <1>5 DEF Proven

\* Every step of the bumps is a step of Landing, or none.
LEMMA StepImplementsLanding ==
    GateInvariant /\ [Next]_vars => [Promise!Next]_<<main.lock, proved>>
<1> SUFFICES ASSUME GateInvariant, [Next]_vars
             PROVE  Promise!Next \/ UNCHANGED <<main.lock, proved>>
    OBVIOUS
<1>1. ASSUME NEW b \in Branches, Build(b)
      PROVE  Promise!Next \/ UNCHANGED <<main.lock, proved>>
    BY <1>1, BuildProves DEF Promise!Next
<1>2. ASSUME NEW q \in queue, Land(q)
      PROVE  Promise!Next \/ UNCHANGED <<main.lock, proved>>
    BY <1>2, LandLands DEF Promise!Next
<1>3. ASSUME NEW p \in Packages, GuardByHand(p)
      PROVE  UNCHANGED <<main.lock, proved>>
    BY <1>3 DEF GuardByHand, GateInvariant, Types, Trees
<1>4. ASSUME NEW b \in Branches,
             Propose(b) \/ GateAgain(b) \/ Withdraw(b) \/ PushByHand(b) \/ Cancel(b) \/ GateFault(b)
      PROVE  UNCHANGED <<main.lock, proved>>
    BY <1>4 DEF Propose, GateAgain, Withdraw, PushByHand, Cancel,
                GateFault, BuildDies, ApprovalRefused, WaitExpires
<1>5. ASSUME NEW b \in Branches, GateStep(b), ~Build(b)
      PROVE  UNCHANGED <<main.lock, proved>>
    BY <1>5 DEF GateStep, Start, Plan, SendCanary, Judge, Stop, HoldFailed, PushTrimmed,
                Redispatch, ApproveParked, WaitForCanary, HandOver
<1>6. ASSUME NEW b \in Branches, NEW which \in {"sent", "parked"}, NEW end \in Over,
             CanaryEnds(b, which, end)
      PROVE  UNCHANGED <<main.lock, proved>>
    BY <1>6 DEF CanaryEnds
<1>7. ASSUME NEW e \in handed, Validate(e) \/ Enqueue(e)
      PROVE  UNCHANGED <<main.lock, proved>>
    BY <1>7 DEF Validate, Enqueue
<1>8. CASE UNCHANGED vars
    BY <1>8 DEF vars
<1>9. QED BY <1>1, <1>2, <1>3, <1>4, <1>5, <1>6, <1>7, <1>8 DEF Next

\* What moves on main by itself is what a gate built, whole: the bumps with
\* their pushes, trims, delayed handovers and merge queue implement Landing
\* (bump-upstream-gate.yml: "merges the daily upstream bump when, and only
\* when, the packages it bumps really build").
THEOREM LandingIsImplemented == Spec => OnlyProvenLands
<1>1. Init => Promise!Init
    <2> SUFFICES ASSUME Init PROVE Promise!Init
        OBVIOUS
    <2>1. main.lock \in [Packages -> 0..MaxVersion]
        BY GateAssumption DEF Init
    <2>2. QED BY <2>1 DEF Init, Promise!Init
<1>2. QED
    BY <1>1, GateIsInvariant, StepImplementsLanding, PTL
       DEF Spec, OnlyProvenLands, Promise!Spec
=============================================================================
