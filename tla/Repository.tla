----------------------------- MODULE Repository -----------------------------
(***************************************************************************)
(* What the factory promises of the repository it publishes, to those who  *)
(* install from it and to the next run: every publication is of one commit *)
(* that main has been at, moves each package it touches to that commit's   *)
(* inputs or takes away what the commit gave up, leaves everything else as *)
(* it is, resolves for consumers, and records nothing but what is there.   *)
(***************************************************************************)
EXTENDS Naturals

CONSTANTS
    Packages, Versions,
    Internal,     \* packages that are never published
    Requires,     \* the packages a package is linked against
    Soname,       \* the soname of a library at a version
    Contract,     \* the packages consumers install
    Again         \* whether somebody may start over at an old commit

VARIABLES
    head,         \* the commit main is at: versions, packages given up
    rpm,          \* the published builds: version, and versions linked with
    known         \* the versions the repository says it holds

Commits == [digest : [Packages -> Versions], owned : SUBSET Packages]

Recipes(commit) == {p \in Packages : commit.digest[p] # 0}

\* Main goes from older to newer: recipes move up, or are given up for good.
Older(older, newer) ==
    /\ Recipes(newer) \subseteq Recipes(older)
    /\ older.owned \subseteq newer.owned
    /\ \A p \in Recipes(newer) : older.digest[p] <= newer.digest[p]

\* What consumers install is there, with every library it asks for.
Usable(owned) ==
    \A c \in Contract \ owned :
        /\ rpm[c].ver # 0
        /\ \A l \in Requires[c] \ (Internal \cup owned) :
            /\ rpm[l].ver # 0
            /\ rpm[c].link[l] # 0 => Soname[rpm[c].link[l]] = Soname[rpm[l].ver]

Init ==
    /\ head \in Commits
    /\ \A p \in Packages : rpm[p].ver = 0 /\ known[p] = 0

Move ==
    /\ \E commit \in Commits : Older(head, commit) /\ head' = commit
    /\ UNCHANGED <<rpm, known>>

Moves(p, commit) ==
    /\ p \in Recipes(commit) \ Internal
    /\ rpm'[p].ver = commit.digest[p]
    /\ Again \/ rpm[p].ver <= commit.digest[p]

GoesAway(p, commit) == p \in commit.owned /\ rpm'[p].ver = 0

Publish(commit) ==
    /\ Older(commit, head)
    /\ \A p \in Packages : rpm'[p] = rpm[p] \/ Moves(p, commit) \/ GoesAway(p, commit)
    /\ \A p \in Packages \ Internal : known'[p] # 0 => known'[p] = rpm'[p].ver
    /\ Usable(commit.owned)'
    /\ UNCHANGED head

Next == Move \/ \E commit \in Commits : Publish(commit)

Spec == Init /\ [][Next]_<<head, rpm, known>>
=============================================================================
