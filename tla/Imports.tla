------------------------------ MODULE Imports ------------------------------
(***************************************************************************)
(* import-rawhide-package.yml: a recipe is imported and its source locked  *)
(* in one job (tools/bootstrap_upstream_sources.py), and what that job     *)
(* uploads is restored (tools/import_proposal.py), rendered                *)
(* (tools/render_packit_config.py), validated and proposed in another.     *)
(***************************************************************************)
EXTENDS Tool, Validation, FiniteSetsExt

\* A source, as the bootstrap finds it: [kind, at, served, pin]; at is where
\* Source0 points, served what two downloads or two generations yield ("down"
\* for none), pin the digest the manifest has for the file, or "none".
PinHolds(source) == source.pin \in {"none", source.served[1]}

\* Mutant: one generation is enough.
ProveGeneratedOnce(source) == source.served[1] # "down" /\ PinHolds(source)

\* prove_generated: one digest in two runs, and the pinned one.
ProveGenerated(source) ==
    source.served[1] # "down" /\ source.served[1] = source.served[2] /\ PinHolds(source)

Entry(name, host, digest) == [name |-> name, host |-> host, digest |-> digest, formed |-> TRUE]

\* main of the bootstrap, for an explicit selection: no entry when rejected.
Candidates(name, recipe, source) ==
    CASE recipe.specs # 1 -> {}
      [] recipe.specs = 1 /\ source.kind = "generated" ->
             IF ProveGenerated(source) THEN {Entry(name, "none", source.served[1])} ELSE {}
      [] OTHER ->
             IF source.at \in {"upstream", "plain"} /\ source.served[1] # "down" /\ PinHolds(source)
             THEN {Entry(name, source.at, source.served[1])} ELSE {}

\* Mutant: a lock that is there is replaced.
MergeOver(locks, entries) ==
    LET names == {e.name : e \in ToSet(entries)}
        apart(e) == e.name \notin names
    IN  [ok |-> TRUE, locks |-> LockOrdered(SelectSeq(locks, apart) \o entries)]

\* Mutant: new locks go to the tail.
MergeAtTail(locks, entries) ==
    [ok |-> {e.name : e \in ToSet(locks)} \cap {e.name : e \in ToSet(entries)} = {}, locks |-> locks \o entries]

\* merge_candidates
MergeCandidates(locks, entries) ==
    [ok |-> /\ {e.name : e \in ToSet(locks)} \cap {e.name : e \in ToSet(entries)} = {}
            /\ Cardinality({e.name : e \in ToSet(entries)}) = Len(entries),
     locks |-> LockOrdered(locks \o entries)]

\* restore: the artifact is [shape, recipes, candidates, accepted]: whether it
\* has the three entries and no link, the recipes in it, the entries of the
\* candidate, and whether the report accepts one package and rejects none.
Restorable(tree, artifact, package) ==
    /\ artifact.shape /\ artifact.accepted
    /\ DOMAIN artifact.recipes = {package}
    /\ artifact.recipes[package].specs = 1
    /\ artifact.recipes[package].provenance.package = package
    /\ Len(artifact.candidates) = 1 /\ artifact.candidates[1].name = package
    /\ MergeCandidates(tree.locks, artifact.candidates).ok
    /\ package \notin Names(tree)

Restore(tree, artifact, package) ==
    [tree EXCEPT !.recipes = [p \in Names(tree) \cup {package} |->
                                 IF p = package THEN artifact.recipes[p] ELSE tree.recipes[p]],
                 !.locks = MergeCandidates(tree.locks, artifact.candidates).locks]

\* render
Render(tree) == [tree EXCEPT !.packit = Names(tree)]

Refused(tree) == [opened |-> FALSE, tree |-> tree]

\* The second job: nothing that validate.py refuses is proposed.
Proposal(tree, artifact, package) ==
    IF ~Restorable(tree, artifact, package) THEN Refused(tree)
    ELSE LET restored == Render(Restore(tree, artifact, package))
         IN  IF Validates(restored) THEN [opened |-> TRUE, tree |-> restored] ELSE Refused(tree)

\* Both jobs; the first refuses a recipe that is there.
ImportPackage(tree, package, recipe, source) ==
    LET found == Candidates(package, recipe, source)
    IN  IF package \in Names(tree) \/ found = {} THEN Refused(tree)
        ELSE Proposal(tree, [shape |-> TRUE, recipes |-> [p \in {package} |-> recipe],
                             candidates |-> SetToSeq(found), accepted |-> TRUE], package)

\* Where a proposal puts its entry into the lock.
Inserted(tree, proposal) ==
    CHOOSE at \in [place : 1..Len(tree.locks) + 1, entry : ToSet(proposal.tree.locks)] :
        InsertAt(tree.locks, at.place, at.entry) = proposal.tree.locks

\* git: insertions between the same two entries conflict.
Conflict(tree, one, other) == Inserted(tree, one).place = Inserted(tree, other).place

\* Two proposals made of one commit, both merged.
Merged(tree, one, other) ==
    LET a == Inserted(tree, one)
        b == Inserted(tree, other)
        late == IF a.place > b.place THEN a ELSE b
        early == IF a.place > b.place THEN b ELSE a
    IN  [tree EXCEPT !.recipes = [p \in Names(one.tree) \cup Names(other.tree) |->
                                     IF p \in Names(one.tree) THEN one.tree.recipes[p] ELSE other.tree.recipes[p]],
                     !.locks = InsertAt(InsertAt(@, late.place, late.entry), early.place, early.entry),
                     !.packit = one.tree.packit \cup other.tree.packit]

\* One import, or two of the same commit.
AnswerImports ==
    /\ Waiting("imports")
    /\ LET tree == call.in.tree
       IN  Answer([i \in DOMAIN call.in.imports |->
                      LET import == call.in.imports[i]
                      IN  ImportPackage(tree, import.package, import.recipe, import.source)])

AnswerRestore ==
    /\ Waiting("restore")
    /\ Answer(Proposal(call.in.tree, call.in.artifact, call.in.package))

ImportsNext == AnswerImports \/ AnswerRestore

----------------------------------------------------------------------------
(* Calls *)

Provenances == [package : {1, 4}, branch : {"rawhide", "upstream", "master", "f44"},
                remote : {"fedora", "codec", "none"}, pins : {"full", "short", "none"}]

Fedoras(package) == [package |-> package, branch |-> "rawhide", remote |-> "fedora", pins |-> "full"]

Recipe(package) == [specs |-> 1, provenance |-> Fedoras(package), manifest |-> "sha512", suppressed |-> NoneSuppressed]

Upstreams(digest) == [kind |-> "plain", at |-> "upstream", served |-> <<digest, digest>>, pin |-> "none"]

TreeWith(names) ==
    [recipes |-> [p \in {2, 5} |->
                    [Recipe(p) EXCEPT !.suppressed = IF p \in DOMAIN Inherited THEN Inherited[p] ELSE NoneSuppressed]],
     locks |-> [i \in DOMAIN names |-> Entry(names[i], IF names[i] = 5 THEN "fedora" ELSE "upstream", "x")],
     packit |-> {2, 5}, baseline |-> {5}, reviewOnly |-> {2}]

GoodTrees == {TreeWith(<<2, 5>>), TreeWith(<<2, 4, 5>>)}

BadTrees ==
    {TreeWith(<<5, 2>>), TreeWith(<<2, 4, 4, 5>>), TreeWith(<<2>>), [TreeWith(<<2, 5>>) EXCEPT !.baseline = {}],
     [TreeWith(<<2, 5>>) EXCEPT !.reviewOnly = {3}],
     [TreeWith(<<2, 5>>) EXCEPT !.recipes[2].suppressed = [defined |-> 0, masked |-> 1]]}

ImportSources ==
    [kind : {"plain", "generated"}, at : {"upstream", "plain", "fedora"},
     served : {"x", "y", "down"} \X {"x", "y", "down"}, pin : {"none", "x"}]

ImportRecipes ==
    [specs : {1}, provenance : Provenances, manifest : {"none", "sha512", "md5"}, suppressed : {NoneSuppressed}]
        \cup [specs : 0..2, provenance : {Fedoras(1), Fedoras(4)}, manifest : {"sha512"},
                suppressed : [defined : 0..1, masked : 0..1]]

PlainImports(packages) ==
    {[package |-> p, recipe |-> Recipe(p), source |-> Upstreams("x")] : p \in packages}

ImportInputs ==
    LET trees == GoodTrees \cup BadTrees
    IN  [tree : trees, imports : {<<i>> : i \in [package : {1, 4}, recipe : ImportRecipes, source : {Upstreams("x")}]}]
        \cup [tree : trees, imports : {<<i>> : i \in [package : {4}, recipe : {Recipe(4)}, source : ImportSources]}]
        \cup [tree : GoodTrees, imports : PlainImports({1, 3, 4}) \X PlainImports({1, 3, 4, 6})]

Artifacts ==
    [shape : BOOLEAN, accepted : BOOLEAN,
     recipes : {[p \in s |-> Recipe(q)] : s \in SUBSET {1, 4}, q \in {1, 4}},
     candidates : {<<>>} \cup {<<Entry(p, h, "y")>> : p \in {1, 2, 4}, h \in {"upstream", "plain", "fedora"}}
                  \cup {<<Entry(1, "upstream", "y"), Entry(p, "upstream", "y")>> : p \in {1, 4}}]

RestoreInputs == [tree : GoodTrees \cup BadTrees, artifact : Artifacts, package : {1, 2, 4}]

ImportsCalls == Calls("imports", ImportInputs) \cup Calls("restore", RestoreInputs)

----------------------------------------------------------------------------
(* Properties *)

\* Whatever is uploaded, a proposal is a tree validate.py accepts, and differs
\* from the commit by one recipe and its lock: every other recipe and every
\* entry that was there is as it was.
ImportAddsOnlyItself ==
    Answered("restore") /\ answer.is.opened =>
        LET before == call.in.tree
            after == answer.is.tree
        IN  /\ Validates(after)
            /\ Names(after) \ Names(before) = {call.in.package}
            /\ \A p \in Names(before) : after.recipes[p] = before.recipes[p]
            /\ ToSet(before.locks) = {e \in ToSet(after.locks) : e.name # call.in.package}
            /\ call.in.package \notin LockNames(before)

\* A lock that is proposed is of bytes the upstream served over https, or that
\* two generations agree on, and of the digest the manifest pins, if any.
ImportLocksProvenBytes ==
    Answered("imports") =>
        \A i \in DOMAIN answer.is :
            answer.is[i].opened =>
                LET source == call.in.imports[i].source
                    entry == CHOOSE e \in ToSet(answer.is[i].tree.locks) : e.name = call.in.imports[i].package
                IN  /\ entry.digest = source.served[1] /\ source.pin \in {"none", entry.digest}
                    /\ IF source.kind = "generated" THEN source.served[2] = entry.digest ELSE source.at = "upstream"

\* Of a valid tree any two packages in order can be imported at the same time:
\* both proposals open, they conflict only when they land next to each other,
\* and merged they are a tree validate.py accepts.
ImportsMergeApart ==
    Answered("imports") /\ Len(answer.is) = 2 =>
        LET tree == call.in.tree
            package(i) == call.in.imports[i].package
            between(p, q) == {e \in LockNames(tree) : p < e /\ e < q}
        IN  (/\ package(1) < package(2)
             /\ {package(1), package(2)} \cap LockNames(tree) = {})
            => /\ answer.is[1].opened /\ answer.is[2].opened
               /\ Conflict(tree, answer.is[1], answer.is[2]) => between(package(1), package(2)) = {}
               /\ ~Conflict(tree, answer.is[1], answer.is[2]) => Validates(Merged(tree, answer.is[1], answer.is[2]))

\* A proposal is one new recipe and its lock, and the lock is of bytes proved
\* to be the source.
ImportIsItsOwn == ImportAddsOnlyItself /\ ImportLocksProvenBytes
=============================================================================
