----------------------------- MODULE BuildGraph -----------------------------
(***************************************************************************)
(* tools/build_graph.py and the end of tools/rebuild_plan.py: from what    *)
(* the recipes BuildRequire and provide to the wave each one builds in,    *)
(* and from the waves to the lists the jobs of rebuild-rpms.yml read.      *)
(*                                                                         *)
(* components() is Tarjan's algorithm with an explicit stack; it is        *)
(* modelled step by step.  What comes after it, break_cycles(), waves()    *)
(* and stage_outputs(), is one step each.                                  *)
(***************************************************************************)
EXTENDS Integers, FiniteSets, Sequences, FiniteSetsExt, SequencesExt

CONSTANTS
    Recipes,            \* numbers: the order of the inventory, and of names
    Sources,            \* Recipes and the sources only the listing still has
    Capabilities,
    Inputs,             \* what prepare can extract: a set of records
    Stages,             \* STAGES
    EarlyPublications,  \* EARLY_PUBLICATIONS
    Chunk               \* CHUNK

ASSUME GraphAssumption ==
    /\ Recipes \subseteq Nat /\ IsFiniteSet(Recipes) /\ Recipes \subseteq Sources
    /\ Inputs \subseteq [needs     : [Recipes -> SUBSET Capabilities],
                         provides  : [Recipes -> SUBSET Capabilities],
                         published : [Sources -> SUBSET Capabilities],
                         stage     : [Recipes -> Nat],
                         build     : SUBSET Recipes,
                         graph     : BOOLEAN]
    /\ Stages \in Nat \ {0} /\ EarlyPublications \in 0..Stages /\ Chunk \in Nat \ {0}

VARIABLES
    in,         \* the extraction, the listing, config stages, the build set
    edges,      \* graph(): package -> the packages it BuildRequires
    phase,      \* which function is running
    index, low, \* Tarjan: the order of discovery, and the lowest reachable
    stack,      \* the nodes not yet in a component
    work,       \* the explicit call stack: [node, left to look at]
    found,      \* result: the components
    wave,       \* package -> wave
    unordered,  \* the cycles config does not order
    jobs        \* stage<k>_chunks

vars == <<in, edges, phase, index, low, stack, work, found, wave, unordered, jobs>>
tarjan == <<index, low, stack, work, found>>

Unseen == -1
NoWave == [r \in Recipes |-> 0]

\* Mutant: the published listing is not consulted.
ProvidersInSpecs(c) == {r \in Recipes : c \in in.provides[r]}

\* Mutant: a published source counts without a recipe.
ProvidersOfAnything(c) ==
    {s \in Sources : c \in in.published[s]} \cup ProvidersInSpecs(c)

\* What provides a capability, by its spec or by its published binaries; a
\* published source without a recipe counts for nothing.
Providers(c) == {r \in Recipes : c \in in.provides[r] \cup in.published[r]}

Graph == [r \in Recipes |-> (UNION {Providers(c) : c \in in.needs[r]}) \ {r}]

\* The edges inside the build set: the rest comes from the repository.
Inside(r) == edges[r] \cap in.build

Load ==
    /\ phase = "load" /\ in.graph
    /\ edges' = Graph
    /\ phase' = "components"
    /\ UNCHANGED <<in, index, low, stack, work, found, wave, unordered, jobs>>

----------------------------------------------------------------------------
(* components() *)

OnStack == ToSet(stack)
Top == Last(work)

Discover(n) ==
    /\ index' = [index EXCEPT ![n] = Cardinality({m \in in.build : index[m] # Unseen})]
    /\ low' = [low EXCEPT ![n] = index'[n]]
    /\ stack' = Append(stack, n)

Frame(n) == [node |-> n, left |-> Inside(n)]

Untouched == UNCHANGED <<in, edges, phase, wave, unordered, jobs>>

\* The loop over the sorted nodes calls visit() on the next one not seen.
Visit ==
    /\ phase = "components" /\ work = <<>>
    /\ \E n \in in.build :
        /\ index[n] = Unseen
        /\ \A m \in in.build : m < n => index[m] # Unseen
        /\ Discover(n)
        /\ work' = <<Frame(n)>>
    /\ UNCHANGED found /\ Untouched

\* The next child of the node on top.
Child == Min(Top.left)
Looking == phase = "components" /\ work # <<>> /\ Top.left # {}

\* Mutant: the iterator over the children does not advance.
NotLooked == Top

Looked == [Top EXCEPT !.left = @ \ {Child}]

Descend ==
    /\ Looking /\ index[Child] = Unseen
    /\ Discover(Child)
    /\ work' = Append(Front(work) \o <<Looked>>, Frame(Child))
    /\ UNCHANGED found /\ Untouched

\* Mutant: back edges are not followed.
NotLowered(n, child) == low[n]

\* Mutant: an edge into a finished component counts as well.
LoweredByAny(n, child) == Min({low[n], index[child]})

Lowered(n, child) == IF child \in OnStack THEN Min({low[n], index[child]}) ELSE low[n]

LookBack ==
    /\ Looking /\ index[Child] # Unseen
    /\ low' = [low EXCEPT ![Top.node] = Lowered(Top.node, Child)]
    /\ work' = Front(work) \o <<Looked>>
    /\ UNCHANGED <<index, stack, found>> /\ Untouched

\* The part of the stack from n up is n's component, if n is its root.
Place(n) == CHOOSE i \in DOMAIN stack : stack[i] = n
Members(n) == {stack[i] : i \in Place(n)..Len(stack)}

Return ==
    /\ phase = "components" /\ work # <<>> /\ Top.left = {}
    /\ LET n == Top.node
           rest == Front(work)
       IN  /\ work' = rest
           /\ low' = IF rest = <<>> THEN low
                     ELSE [low EXCEPT ![Last(rest).node] = Min({@, low[n]})]
           /\ IF low[n] = index[n]
              THEN /\ found' = found \cup {Members(n)}
                   /\ stack' = SubSeq(stack, 1, Place(n) - 1)
              ELSE UNCHANGED <<found, stack>>
    /\ UNCHANGED index /\ Untouched

AllSeen ==
    /\ phase = "components" /\ work = <<>>
    /\ \A n \in in.build : index[n] # Unseen
    /\ phase' = "waves"
    /\ UNCHANGED <<in, edges, tarjan, wave, unordered, jobs>>

----------------------------------------------------------------------------
(* break_cycles(), waves() *)

\* Mutant: an edge of a cycle survives between members of the same stage.
KeptWithinAStage(component, r) ==
    {q \in Inside(r) : q \notin component \/ in.stage[q] <= in.stage[r]}

\* An edge of a cycle survives only towards an earlier stage.
Kept(component, r) ==
    {q \in Inside(r) : q \notin component \/ in.stage[q] < in.stage[r]}

Restricted ==
    [r \in in.build |->
        LET component == CHOOSE c \in found : r \in c
        IN  IF Cardinality(component) = 1 THEN Inside(r) ELSE Kept(component, r)]

\* Mutant: only a whole cycle at one stage is reported.
WholeCycles(components) ==
    {c \in components : Cardinality(c) > 1 /\ \A p, q \in c : in.stage[p] = in.stage[q]}

\* The members of a cycle that config gives the same stage.
SameStage(components) ==
    LET levels == {{r \in c : in.stage[r] = k} : c \in {c \in components : Cardinality(c) > 1},
                                                 k \in {in.stage[r] : r \in in.build}}
    IN  {level \in levels : Cardinality(level) > 1}

\* The packages from which a walk along the edges kept need not end.
Endless(kept) ==
    LET after[k \in 0..Cardinality(in.build)] ==
            IF k = 0 THEN in.build
            ELSE LET longer == after[k - 1] IN {r \in longer : kept[r] \cap longer # {}}
    IN  after[Cardinality(in.build)]

\* depth(): longest path, computed from the providers up.
Depth(kept) ==
    LET depth[r \in in.build] ==
            IF kept[r] = {} THEN 0 ELSE 1 + Max({depth[q] : q \in kept[r]})
    IN  [r \in Recipes |-> IF r \in in.build THEN depth[r] ELSE 0]

\* depth() raises AssertionError when it meets a node of its own trail.
Solve ==
    /\ phase = "waves"
    /\ IF Endless(Restricted) = {}
       THEN /\ wave' = Depth(Restricted)
            /\ unordered' = SameStage(found)
            /\ phase' = "jobs"
       ELSE phase' = "raised" /\ UNCHANGED <<wave, unordered>>
    /\ UNCHANGED <<in, edges, tarjan, jobs>>

----------------------------------------------------------------------------
(* overflow(), stage_outputs() *)

\* Without rpmspec's extraction the waves are the stages of the config.
StageWaves ==
    /\ phase = "load" /\ ~in.graph
    /\ wave' = [r \in Recipes |-> IF r \in in.build THEN in.stage[r] ELSE 0]
    /\ phase' = "jobs"
    /\ UNCHANGED <<in, edges, tarjan, unordered, jobs>>

Late == {r \in in.build : wave[r] >= Stages}

\* The names of a wave, in the order of the build list.
InOrder(names) ==
    CHOOSE s \in [1..Cardinality(names) -> names] : \A i, j \in DOMAIN s : i < j => s[i] < s[j]

\* Mutant: the last, short slice is dropped.
FullChunksOf(names) ==
    [i \in 1..(Len(names) \div Chunk) |-> SubSeq(names, Chunk * (i - 1) + 1, Chunk * i)]

\* A list in slices of at most Chunk names.
ChunksOf(names) ==
    [i \in 1..((Len(names) + Chunk - 1) \div Chunk) |->
        SubSeq(names, Chunk * (i - 1) + 1, Min({Chunk * i, Len(names)}))]

ListJobs ==
    /\ phase = "jobs" /\ Late = {}
    /\ jobs' = [k \in 0..(Stages - 1) |-> ChunksOf(InOrder({r \in in.build : wave[r] = k}))]
    /\ phase' = "listed"
    /\ UNCHANGED <<in, edges, tarjan, wave, unordered>>

\* A wave no job exists for: the prepare job ends here.
RefuseTooDeep ==
    /\ phase = "jobs" /\ Late # {}
    /\ phase' = "refused"
    /\ UNCHANGED <<in, edges, tarjan, wave, unordered, jobs>>

Through(k) == {r \in in.build : wave[r] <= k}

Occupied == {k \in 0..(Stages - 1) : jobs[k] # <<>>}

\* Mutant: the last wave is published early as well.
EveryWaveEarly == {k \in Occupied : k < EarlyPublications}

\* Every occupied wave but the last, among the first few.
EarlyWaves == {k \in Occupied : k # Max(Occupied) /\ k < EarlyPublications}

----------------------------------------------------------------------------

Init ==
    /\ in \in Inputs
    /\ phase = "load" /\ edges = [r \in Recipes |-> {}]
    /\ index = [r \in Recipes |-> Unseen] /\ low = [r \in Recipes |-> Unseen]
    /\ stack = <<>> /\ work = <<>> /\ found = {}
    /\ wave = NoWave /\ unordered = {}
    /\ jobs = [k \in 0..(Stages - 1) |-> <<>>]

Tarjan == Visit \/ Descend \/ LookBack \/ Return \/ AllSeen

Next == Load \/ Tarjan \/ Solve \/ StageWaves \/ ListJobs \/ RefuseTooDeep

Spec == Init /\ [][Next]_vars /\ WF_vars(Next)

----------------------------------------------------------------------------
(* Reference definitions *)

\* The packages reachable from r inside the build set, r included.
Reach(r) ==
    LET within[k \in 0..Cardinality(in.build)] ==
            IF k = 0 THEN {r}
            ELSE LET near == within[k - 1] IN near \cup UNION {Inside(q) : q \in near}
    IN  within[Cardinality(in.build)]

SameCycle(p, q) == q \in Reach(p) /\ p \in Reach(q)

Cycles == LET reach == [r \in in.build |-> Reach(r)]
          IN  {{q \in in.build : q \in reach[p] /\ p \in reach[q]} : p \in in.build}

Solved == phase \in {"jobs", "listed", "refused"} /\ in.graph

----------------------------------------------------------------------------

TypeOK ==
    /\ edges \in [Recipes -> SUBSET Recipes]
    /\ phase \in {"load", "components", "waves", "raised", "jobs", "listed", "refused"}
    /\ index \in [Recipes -> {Unseen} \cup Nat] /\ low \in [Recipes -> {Unseen} \cup Nat]
    /\ stack \in Seq(in.build)
    /\ work \in Seq([node : in.build, left : SUBSET in.build])
    /\ found \subseteq SUBSET in.build /\ unordered \subseteq SUBSET in.build
    /\ wave \in [Recipes -> Nat]
    /\ jobs \in [0..(Stages - 1) -> Seq(Seq(in.build))]

\* components() returns the strongly connected components: every package is in
\* exactly one, together with what it BuildRequires in a cycle and no other.
ComponentsAreCycles ==
    phase = "waves" => found = Cycles

\* While it runs, what is on the stack can reach what was discovered after it,
\* and what has left the stack is a whole cycle.
StackIsConnected ==
    phase = "components" =>
        /\ \A i, j \in 1..Len(stack) : i < j => stack[j] \in Reach(stack[i])
        /\ found \subseteq Cycles

\* break_cycles() leaves nothing for depth() to run into: the assertion in
\* waves() is never met.
NeverRaises == phase # "raised"

\* A package builds after whatever provides what it BuildRequires, by spec or
\* by the published listing, unless the two are in one cycle; inside a cycle
\* the earlier stage still goes first.
ProvidersFirst ==
    Solved => \A p \in in.build, q \in in.build : \A c \in in.needs[p] :
        (p # q /\ c \in in.provides[q] \cup in.published[q]
               /\ (~SameCycle(p, q) \/ in.stage[q] < in.stage[p]))
            => wave[q] < wave[p]

\* Two packages of a cycle, one needing the other, which nothing orders, are
\* reported by name.
UnorderedIsReported ==
    Solved => \A p \in in.build : \A q \in Inside(p) :
        SameCycle(p, q) /\ in.stage[p] = in.stage[q]
            => \E members \in unordered : {p, q} \subseteq members

\* Every selected recipe is handed to exactly one job of its wave, in chunks no
\* longer than the matrix holds, or the run is refused as a whole.
NothingFallsOut ==
    phase = "listed" =>
        /\ \A r \in in.build :
            \E k \in 0..(Stages - 1), i \in 1..Cardinality(Recipes) :
                /\ i \in DOMAIN jobs[k] /\ r \in ToSet(jobs[k][i]) /\ k = wave[r]
                /\ \A l \in 0..(Stages - 1) : \A j \in DOMAIN jobs[l] :
                    r \in ToSet(jobs[l][j]) => <<l, j>> = <<k, i>>
        /\ \A k \in 0..(Stages - 1) : \A i \in DOMAIN jobs[k] :
            Len(jobs[k][i]) \in 1..Chunk /\ IsInjective(jobs[k][i])

\* The search ends: every child is looked at once.
Ends == <>(phase \in {"listed", "refused"})

\* The search for cycles is right when it ends and at every step before
\* (components()).
SearchIsSound == ComponentsAreCycles /\ StackIsConnected

\* The waves exist, put providers first wherever an order exists, and where none
\* does the packages are named (break_cycles(), waves()).
OrderedOrReported == NeverRaises /\ ProvidersFirst /\ UnorderedIsReported
=============================================================================
