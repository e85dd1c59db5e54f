------------------------------ MODULE Rawhide ------------------------------
(***************************************************************************)
(* Fedora's recipes: tools/rawhide_reimport.py, which takes over what      *)
(* Rawhide built from a newer commit when no human is needed for it,       *)
(* tools/import_rawhide.py, which it imports with, and the two tools that  *)
(* ask dnf what Rawhide ships, tools/scan_rawhide_state.py and             *)
(* tools/import_bluefin_rawhide.py.                                        *)
(*                                                                         *)
(* A tree is [specs, files]: its spec files and a function from its other  *)
(* files to their contents.  Of a spec counts what the classification      *)
(* reads: [path, nvr, requires, generated, mentions], where nvr stands for *)
(* Name, Epoch, Version and Release, and mentions are the files whose path *)
(* occurs in its text.                                                     *)
(***************************************************************************)
EXTENDS Tool, Integers, FiniteSets, Sequences

InertFiles == {"ci", "fmf"}

SingleSpec(tree) == Cardinality(tree.specs) = 1

SpecOf(tree) == CHOOSE s \in tree.specs : TRUE

\* inert: metadata the build does not see, unless the spec speaks of it.
Inert(path, tree) == path \in InertFiles /\ ~(SingleSpec(tree) /\ path \in SpecOf(tree).mentions)

Files(tree) == DOMAIN tree.files

\* Mutant: what was left out is judged by the names of the files alone.
OmittedByName(mine, tree) == {f \in Files(tree) \ Files(mine) : f \in InertFiles}

OmittedInert(mine, tree) == {f \in Files(tree) \ Files(mine) : Inert(f, tree)}

BuildInputs(tree) ==
    [specs |-> tree.specs, files |-> [f \in {g \in Files(tree) : ~Inert(g, tree)} |-> tree.files[f]]]

BuildRelevant(pinned, target) == BuildInputs(pinned) # BuildInputs(target)

\* divergence: whether the factory's recipe is Fedora's at the pinned commit.
Diverged(mine, pinned) ==
    \/ mine.specs # pinned.specs
    \/ Files(mine) # Files(pinned) \ OmittedInert(mine, pinned)
    \/ \E f \in Files(mine) \cap Files(pinned) : mine.files[f] # pinned.files[f]

Sources(tree) == IF "sources" \in Files(tree) THEN tree.files["sources"] ELSE 0

\* classify: whether the target may be taken over without a human.
Safe(in, pinned, target, fastForward) ==
    /\ in.plain /\ fastForward
    /\ in.lock = "plain"
    /\ ~Diverged(in.mine, pinned)
    /\ SingleSpec(pinned) /\ SingleSpec(target)
    /\ LET old == SpecOf(pinned)
           new == SpecOf(target)
       IN  /\ old.path = new.path
           /\ Sources(pinned) = Sources(target)
           /\ old.nvr = new.nvr
           /\ new.requires \subseteq old.requires
           /\ new.generated => old.generated

----------------------------------------------------------------------------
(* dist-git: commits 1, 2 and 3 of the branch, 4 beside it on another one,  *)
(* and 5, which is gone.                                                   *)

Tip == 3
Ancestors == <<{1}, {1, 2}, {1, 2, 3}, {1, 4}>>
Cloned == 1..4

\* Mutant: the arguments are swapped.
IsDescendant(older, newer) == {older, newer} \subseteq Cloned /\ newer \in Ancestors[older]

\* git merge-base --is-ancestor; it fails for a commit that is not there.
IsAncestor(older, newer) == {older, newer} \subseteq Cloned /\ older \in Ancestors[newer]

\* import_snapshot over an existing recipe, less what the recipe did not have.
ImportSnapshot(mine, target) ==
    LET kept == Files(target) \ OmittedInert(mine, target)
    IN  [specs |-> target.specs, files |-> [f \in kept |-> target.files[f]]]

\* main, for one recipe; koji is the commit of the latest Rawhide build, 0 when
\* there is none or it names no dist-git source.
Reimport(in) ==
    LET stays(verdict) == [verdict |-> verdict, tree |-> in.mine, pin |-> in.pin]
    IN  CASE in.koji = 0 -> stays("errors")
          [] in.koji = in.pin -> stays("current")
          [] in.koji \notin {0, in.pin} /\ IsAncestor(in.koji, in.pin) -> stays("behind_pin")
          [] OTHER ->
                 IF ~IsAncestor(in.koji, Tip) \/ in.pin \notin Cloned THEN stays("errors")
                 ELSE IF ~BuildRelevant(in.pinned, in.target) THEN stays("metadata_only")
                 ELSE IF ~Safe(in, in.pinned, in.target, IsAncestor(in.pin, in.koji)) THEN stays("unsafe")
                 ELSE [verdict |-> "safe", tree |-> ImportSnapshot(in.mine, in.target), pin |-> in.koji]

AnswerReimport == Waiting("reimport") /\ Answer(Reimport(call.in))

----------------------------------------------------------------------------
(* scan_rawhide_state.py *)

\* query: dnf prints a record per architecture; the first of these two counts.
Query(records) ==
    CASE "x86_64" \in DOMAIN records -> records["x86_64"]
      [] "x86_64" \notin DOMAIN records /\ "noarch" \in DOMAIN records -> records["noarch"]
      [] OTHER -> "none"

\* Mutant: only what was known before can have changed.
ChangedOfKnown(previous, found) == found # "none" /\ previous # "none" /\ previous # found

Changed(previous, found) == found # "none" /\ previous # found

\* Scans of one package, each with the state the one before it wrote.
Scans(answers) ==
    [i \in DOMAIN answers |->
        Changed(IF i = 1 THEN "none" ELSE Query(answers[i - 1]), Query(answers[i]))]

AnswerScans == Waiting("scans") /\ Answer(Scans(call.in))

----------------------------------------------------------------------------
(* import_bluefin_rawhide.py *)

\* Mutant: an upstream recipe makes what its directory is named.
FactoryDirectories(recipes) == {r.directory : r \in {q \in recipes : q.branch = "upstream"}}

\* What an upstream recipe is known to make: its own names, and the packages
\* its spec names without a macro.
FactorySources(recipes) == UNION {r.names : r \in {q \in recipes : q.branch = "upstream"}}

\* main: resolve gives of each binary the source dnf names, or "none";
\* importable are the sources import_rawhide.py succeeds for.
ImportBluefin(in) ==
    LET binaries == {b \in in.binaries : b \notin in.excluded /\ b \notin FactorySources(in.recipes)}
        resolved == {in.resolve[b] : b \in binaries} \ {"none"}
        there == {r.directory : r \in in.recipes}
    IN  IF resolved = {} THEN [exit |-> 1, imported |-> {}, failed |-> {}]
        ELSE [exit |-> 0, imported |-> (resolved \ there) \cap in.importable,
              failed |-> (resolved \ there) \ in.importable]

AnswerImportBluefin == Waiting("bluefin") /\ Answer(ImportBluefin(call.in))

RawhideNext == AnswerReimport \/ AnswerScans \/ AnswerImportBluefin

----------------------------------------------------------------------------
(* Calls *)

ReimportInputs ==
    LET spec(nvr, requires, generated, mentions) ==
            [path |-> "p.spec", nvr |-> nvr, requires |-> requires, generated |-> generated, mentions |-> mentions]
        first == [path : {"p.spec"}, nvr : {1}, requires : {{"gcc"}}, generated : {FALSE}, mentions : SUBSET {"ci"}]
        later == [path : {"p.spec"}, nvr : {1, 2}, requires : SUBSET {"gcc", "rust"}, generated : BOOLEAN,
                  mentions : SUBSET {"ci"}]
        files == UNION {[{"sources"} \cup s -> {1, 2}] : s \in SUBSET {"patch", "ci"}}
        trees(specs) == [specs : {{s} : s \in specs}, files : files]
        plainTree == [specs |-> {spec(1, {"gcc"}, FALSE, {})}, files |-> [f \in {"sources", "patch"} |-> 1]]
        patched == [plainTree EXCEPT !.files["patch"] = 2]
        elsewhere == {[s EXCEPT !.path = "q.spec"] : s \in first}
        odd == {[plainTree EXCEPT !.specs = s] : s \in {{}, elsewhere, first}}
               \cup {[plainTree EXCEPT !.specs = {s}] : s \in elsewhere}
    IN  (UNION {[mine : {[specs |-> p.specs, files |-> f] : f \in files}
                       \cup {[specs |-> {spec(1, {"gcc"}, FALSE, {"patch"})}, files |-> p.files]},
                pinned : {p}, target : trees(later), pin : {1}, koji : {2}, plain : {TRUE}, lock : {"plain"}]
               : p \in {t \in trees(first) : t.files["sources"] = 1 /\ "patch" \in Files(t)
                                             /\ \A f \in Files(t) : t.files[f] = 1}})
        \cup [mine : {plainTree}, pinned : {plainTree}, target : {plainTree, patched},
              pin : 1..5, koji : 0..4, plain : BOOLEAN, lock : {"plain", "decisions", "none"}]
        \cup [mine : {plainTree}, pinned : odd \cup {plainTree}, target : odd \cup {patched},
              pin : {1}, koji : {2}, plain : {TRUE}, lock : {"plain"}]

Records(names) == UNION {[a -> {"old", "new"}] : a \in SUBSET names}

ScanInputs ==
    (UNION {[1..n -> Records({"i686", "x86_64", "noarch"})] : n \in 1..2}) \cup [1..4 -> Records({"x86_64"})]

BluefinInputs ==
    [binaries : SUBSET {"app", "app-libs"}, excluded : {{}, {"app"}},
     recipes : SUBSET [directory : {"app"}, branch : {"upstream", "rawhide"}, names : {{"app", "app-libs"}}],
     resolve : [{"app", "app-libs"} -> {"app", "other", "none"}],
     importable : SUBSET {"app", "other"}]

RawhideCalls ==
    Calls("reimport", ReimportInputs) \cup Calls("scans", ScanInputs) \cup Calls("bluefin", BluefinInputs)

----------------------------------------------------------------------------
(* Properties *)

\* A re-import taken without a human moves forward along the branch, drops
\* nothing the factory had changed of what the build sees, is what the build
\* sees of Fedora's commit, fits the source lock as it is, needs nothing new to
\* build, and leaves a recipe the next re-import does not find diverged.
ReimportNeedsNoHuman ==
    Answered("reimport") /\ answer.is.verdict = "safe" =>
        LET before == call.in.mine
            after == answer.is.tree
        IN  /\ call.in.pin \in Ancestors[answer.is.pin] \ {answer.is.pin}
            /\ answer.is.pin \in Ancestors[Tip]
            /\ BuildInputs(before) = BuildInputs(call.in.pinned)
            /\ BuildInputs(after) = BuildInputs(call.in.target)
            /\ ~Diverged(after, call.in.target)
            /\ Sources(after) = Sources(before) /\ SpecOf(after).nvr = SpecOf(before).nvr
            /\ SpecOf(after).requires \subseteq SpecOf(before).requires

\* A source whose record is another than when it was last seen is queued, also
\* when dnf did not answer for it in between.
ScansLoseNoChange ==
    Answered("scans") =>
        \A i, j \in DOMAIN call.in :
            LET seen == Query(call.in[i])
                now == Query(call.in[j])
            IN  i < j /\ seen # "none" /\ now \notin {"none", seen}
                /\ (\A k \in i + 1..j - 1 : Query(call.in[k]) = "none") => answer.is[j]

\* What the factory makes from upstream is never imported from Fedora for a
\* binary of its own, and no recipe that is there is imported over.
FactoryBinariesStay ==
    Answered("bluefin") =>
        LET own == UNION {r.names : r \in {q \in call.in.recipes : q.branch = "upstream"}}
        IN  /\ \A s \in answer.is.imported : \E b \in call.in.binaries \ own : call.in.resolve[b] = s
            /\ answer.is.imported \cap {r.directory : r \in call.in.recipes} = {}

\* What dnf says of Rawhide is followed: a change is queued although an answer
\* was missing, and nothing the factory makes itself is imported.
RawhideIsFollowed == ScansLoseNoChange /\ FactoryBinariesStay
=============================================================================
