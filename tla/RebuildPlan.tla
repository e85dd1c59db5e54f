----------------------------- MODULE RebuildPlan -----------------------------
(***************************************************************************)
(* tools/rebuild_plan.py and tools/build_graph.py as the factory run uses  *)
(* them: which recipes a run builds, in which wave, and which waves get a  *)
(* publication of their own.                                               *)
(*                                                                         *)
(* A build is what one recipe's RPMs are made of: the version of the       *)
(* recipe and, for every package it BuildRequires, the version it was      *)
(* linked against.                                                         *)
(***************************************************************************)
EXTENDS FactoryState

CONSTANTS
    Requires,           \* Requires[p]: the packages p BuildRequires
    Soname,             \* Soname[v]: the soname a library has at version v
    Stages,             \* STAGES: the waves rebuild-rpms.yml has a job for
    EarlyPublications   \* EARLY_PUBLICATIONS

ASSUME PlanAssumption ==
    /\ Requires \in [Packages -> SUBSET Packages]
    /\ Soname \in [Digests -> Nat]
    /\ Stages \in Nat \ {0}
    /\ EarlyPublications \in Nat

WaveIds == 0..(Stages - 1)
WaveMap == [Packages -> WaveIds]
EarlyIds == 0..(EarlyPublications - 1)

Builds == [ver : 0..MaxVersion, link : DigestMap]
NoBuild == [ver |-> 0, link |-> NoDigests]
Repositories == [Packages -> Builds]
EmptyRepository == [p \in Packages |-> NoBuild]

Published(rpm) == {p \in Packages : rpm[p].ver # 0}

\* Mutant: nothing is dragged along.
NoConsumers(names) == {}

\* build_graph.dependents, one hop: rebuild_matrix.py passes closure_depth 1.
Consumers(names) == {c \in Packages : Requires[c] \cap names # {}}

\* A soname a published binary asks for, gone from its provider, which is
\* published at another one.
Unsatisfied(rpm, c, l) ==
    /\ rpm[c].link[l] # NoDigest
    /\ rpm[l].ver # 0
    /\ Soname[rpm[c].link[l]] # Soname[rpm[l].ver]

Stale(rpm) ==
    {c \in Published(rpm) : \E l \in Requires[c] : Unsatisfied(rpm, c, l)}

\* The recipes to build among `names`: what changed or went stale, plus its
\* direct dependents; everything on a full run or without a witness.
Plan(names, changed, stale, full, trustPublished) ==
    LET direct == IF full \/ ~trustPublished
                  THEN names
                  ELSE names \cap (changed \cup stale)
        dragged == IF full THEN {} ELSE names \cap Consumers(direct)
    IN  direct \cup dragged

\* Mutant: everything is in the first wave.
FlatWaveMap(wave, build) == \A p \in Packages : wave[p] = 0

\* Longest path over the BuildRequires edges inside the build set.
IsWaveMap(wave, build) ==
    \A p \in Packages :
        LET providers == Requires[p] \cap build
        IN  IF p \notin build \/ providers = {}
            THEN wave[p] = 0
            ELSE /\ \A q \in providers : wave[q] < wave[p]
                 /\ \E q \in providers : wave[p] = wave[q] + 1

\* Every occupied wave that has a later occupied wave, among the first few.
EarlyWaves(build, wave) ==
    {k \in EarlyIds : /\ \E p \in build : wave[p] = k
                      /\ \E p \in build : wave[p] > k}

\* through<k>: what a publication after wave k covers.
Through(build, wave, k) == {p \in build : wave[p] <= k}

\* Mutant: everything published may be pruned.
AllPublished(rpm, owned) == Published(rpm)

PrunableSources(rpm, owned) == Published(rpm) \cap owned
=============================================================================
