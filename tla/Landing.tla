------------------------------ MODULE Landing ------------------------------
(***************************************************************************)
(* What the bump gate promises of main: nothing moves there by itself that *)
(* was not built first, whole, by a gate.  A move is the set of packages a *)
(* pull request changes with the versions it takes them to (0: removed).   *)
(***************************************************************************)
EXTENDS Naturals

CONSTANTS Packages, Versions

VARIABLES
    locked,   \* the version of each package that main locks
    proved    \* the moves every package of which was built, together

Moves == UNION {[S -> Versions] : S \in SUBSET Packages}

Landed(move) == [p \in Packages |-> IF p \in DOMAIN move THEN move[p] ELSE locked[p]]

Init == locked \in [Packages -> Versions] /\ proved = {}

\* A gate builds every package of a move.
Prove == \E move \in Moves : proved' = proved \cup {move} /\ UNCHANGED locked

\* A proved move lands, as it was proved.
Land == \E move \in proved : locked' = Landed(move) /\ UNCHANGED proved

Next == Prove \/ Land

Spec == Init /\ [][Next]_<<locked, proved>>
=============================================================================
