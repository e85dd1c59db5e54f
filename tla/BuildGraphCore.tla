--------------------------- MODULE BuildGraphCore ---------------------------
(***************************************************************************)
(* What RebuildPlan takes for granted about waves, of the waves that       *)
(* BuildGraph computes.                                                    *)
(***************************************************************************)
EXTENDS BuildGraph

\* The core's view of the same recipes.
Core == INSTANCE RebuildPlan WITH
            Packages <- Recipes, MaxVersion <- 1, Requires <- edges,
            Soname <- [v \in {1} |-> 1]

\* Without cycles the waves, and the early publications, are those the factory
\* run is modelled with.
AgreesWithCore ==
    phase = "listed" /\ in.graph /\ Cardinality(Cycles) = Cardinality(in.build) =>
        /\ Core!IsWaveMap(wave, in.build)
        /\ EarlyWaves = Core!EarlyWaves(in.build, wave)
        /\ \A k \in EarlyWaves : Through(k) = Core!Through(in.build, wave, k)
=============================================================================
