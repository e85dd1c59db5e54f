---------------------------- MODULE MCBuildGraph ----------------------------
(* BuildGraph over every graph of four recipes, and over every graph of three *)
(* with the listing, the stages and two build sets.                           *)
EXTENDS BuildGraphCore

Own == [r \in Recipes |-> {r} \cap Capabilities]
Unlisted == [s \in Sources |-> {}]

Needs(pairs) == [r \in Recipes |-> {c \in Capabilities : <<r, c>> \in pairs}]
Others(some, caps) == {pair \in some \X caps : pair[1] # pair[2]}

\* Every graph: recipe r provides capability r, and BuildRequires any others.
MCEveryGraph ==
    {[needs |-> Needs(pairs), provides |-> Own, published |-> Unlisted,
      stage |-> [r \in Recipes |-> r % 2], build |-> Recipes, graph |-> TRUE] :
        pairs \in SUBSET Others(Recipes, Recipes)}

\* Three recipes of it; a capability only the listing shows (of recipe 1, or of
\* a source that has no recipe any more), every stage, two build sets.
Few == {1, 2, 3}

MCEveryStage ==
    {[needs |-> Needs(pairs), provides |-> Own, published |-> [Unlisted EXCEPT ![s] = {0}],
      stage |-> [r \in Recipes |-> IF r \in late THEN 1 ELSE 0], build |-> b, graph |-> TRUE] :
        pairs \in SUBSET (Others(Few, Few \cup {0}) \cup {<<1, 1>>}),
        s \in {1, 9}, late \in SUBSET Few, b \in {Few, {1, 3}}}

\* Without the extraction.
MCNoGraph ==
    {[needs |-> [r \in Recipes |-> {}], provides |-> Own, published |-> Unlisted,
      stage |-> [r \in Recipes |-> IF r \in late THEN 1 ELSE IF r \in later THEN 2 ELSE 0],
      build |-> Few, graph |-> FALSE] : late \in SUBSET Few, later \in SUBSET Few}

MCInputs == MCEveryGraph \cup MCEveryStage \cup MCNoGraph
=============================================================================
