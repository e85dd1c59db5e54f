------------------------------ MODULE Releases ------------------------------
(***************************************************************************)
(* tools/upstream_bump.py, the part that decides: which release of a       *)
(* project a locked source should move to, and whether the move may be     *)
(* written without a human.                                                *)
(*                                                                         *)
(* A version is [num, tag]: its leading numbers, and what follows them.    *)
(* "pre" is a prerelease marker behind a separator (51.beta, 1.10.rc.1),   *)
(* "glued" one without (4.25.0rc1), "build" any other suffix (2.13b171).   *)
(***************************************************************************)
EXTENDS Integers, Sequences, SequencesExt

Ver(num, tag) == [num |-> num, tag |-> tag]

IsPrerelease(v) == v.tag = "pre"

IsGnomePrerelease(v) ==
    IsPrerelease(v) \/ (v.tag = "" /\ Len(v.num) = 3 /\ v.num[1] < 40 /\ v.num[3] >= 90)

\* What version_key compares: a component that is no number counts as -1.
VersionKey(v) ==
    CASE v.tag = "" -> v.num
      [] v.tag = "pre" -> Append(v.num, -1)
      [] OTHER -> Append(Front(v.num), -1)

\* Python's order of tuples.
Above(a, b) ==
    \/ Len(a) > Len(b) /\ SubSeq(a, 1, Len(b)) = b
    \/ \E i \in DOMAIN a \cap DOMAIN b : a[i] > b[i] /\ \A j \in 1..i - 1 : a[j] = b[j]

Newest(versions) ==
    IF versions = {} THEN {}
    ELSE {CHOOSE v \in versions : \A w \in versions : ~Above(VersionKey(w), VersionKey(v))}

NewestStable(versions) == Newest({v \in versions : ~IsPrerelease(v)})

NewestGnome(versions) == Newest({v \in versions : ~IsGnomePrerelease(v)})

\* Mutant: the cycle is the leading number, in both of GNOME's schemes.
LeadingNumber(v) == <<v.num[1]>>

ReleaseCycle(v) ==
    IF IsPrerelease(v) THEN v.num
    ELSE LET numeric == IF v.tag = "" THEN v.num ELSE Front(v.num)
         IN  CASE Len(numeric) >= 3 /\ numeric[1] >= 40 -> <<numeric[1]>>
               [] Len(numeric) >= 3 /\ numeric[1] < 40 -> SubSeq(numeric, 1, 2)
               [] OTHER -> <<numeric[1]>>

CycleFinal(versions, cycle) ==
    Newest({v \in versions : ~IsGnomePrerelease(v) /\ ReleaseCycle(v) = cycle})

\* A suffixed lock is compared by its numbers: a prerelease is below them, any
\* other suffix above.
Newer(v, current) ==
    CASE current.tag = "" -> Above(VersionKey(v), VersionKey(current))
      [] current.tag \in {"pre", "glued"} -> ~Above(current.num, VersionKey(v))
      [] OTHER -> Above(VersionKey(v), current.num)

----------------------------------------------------------------------------
(* Where the releases of a lock are listed *)

\* An entry is [version, primary, mirror, feed]: the host of its primary URL,
\* whether a fallback names a git forge, and what its explicit feed names.
PrimaryTracksForge(entry) == entry.primary = "forge"

Feed(entry, only) ==
    CASE entry.primary = "gnome" -> [at |-> "gnome", relock |-> FALSE]
      [] entry.primary = "forge" \/ (entry.primary # "gnome" /\ entry.mirror) ->
             [at |-> "forge", relock |-> FALSE]
      [] OTHER ->
             IF entry.feed # "none"
             THEN [at |-> entry.feed, relock |-> only /\ entry.feed # "anitya"]
             ELSE [at |-> IF only THEN "gnome" ELSE "none", relock |-> only]

\* A listing is [released, flagged, tagged]: the releases a project publishes,
\* those of them it marks as drafts or prereleases, and its tags.
ForgeVersions(listing, endpoint) ==
    LET published == listing.released \ listing.flagged
    IN  IF published # {} \/ endpoint = "releases" THEN published ELSE listing.tagged

Nothing == [kind |-> "nothing"]

Propose(kind, latest) == [kind |-> kind, latest |-> latest]

ForgeProposal(entry, available) ==
    LET inMajor == {v \in available : v.num[1] = entry.version.num[1]}
        newest == {v \in NewestStable(available) : Newer(v, entry.version)}
        within == {v \in NewestStable(inMajor) : Newer(v, entry.version)}
    IN  CASE newest = {} -> Nothing
          [] newest # {} /\ within # {} -> Propose("update", CHOOSE v \in within : TRUE)
          [] OTHER -> Propose("review", CHOOSE v \in newest : TRUE)

GnomeProposal(entry, feed, available, cycle) ==
    LET target == IF cycle = <<>> THEN ReleaseCycle(entry.version) ELSE cycle
        above(v) == Above(VersionKey(v), VersionKey(entry.version))
        within == {v \in CycleFinal(available, target) : IsPrerelease(entry.version) \/ above(v)}
        newest == {v \in NewestGnome(available) : above(v)}
        kind == CASE entry.primary = "gnome" -> "final"
                  [] entry.primary # "gnome" /\ feed.relock -> "relock"
                  [] OTHER -> "review"
    IN  CASE within # {} -> Propose(kind, CHOOSE v \in within : TRUE)
          [] within = {} /\ newest # {} -> Propose("review", CHOOSE v \in newest : TRUE)
          [] OTHER -> Nothing

\* Mutant: a release found through a mirror is taken like any other.
PlanThroughMirrors(b) ==
    LET feed == Feed(b.entry, b.only)
        silent == feed.at = "none" \/ ~b.readable \/ (feed.at = "gnome" /\ ~b.module)
    IN  CASE silent -> Nothing
          [] ~silent /\ feed.at = "gnome" -> GnomeProposal(b.entry, feed, b.listing.released, b.cycle)
          [] OTHER -> ForgeProposal(b.entry, ForgeVersions(b.listing, b.endpoint))

\* plan, for one lock; an index that cannot be read, and one that is not there
\* because the package is no GNOME module, propose nothing.
Plan(b) ==
    LET feed == Feed(b.entry, b.only)
        found == ForgeProposal(b.entry, ForgeVersions(b.listing, b.endpoint))
        silent == feed.at = "none" \/ ~b.readable \/ (feed.at = "gnome" /\ ~b.module)
    IN  CASE silent -> Nothing
          [] ~silent /\ feed.at = "gnome" -> GnomeProposal(b.entry, feed, b.listing.released, b.cycle)
          [] OTHER ->
                 IF found.kind = "update" /\ ~PrimaryTracksForge(b.entry)
                 THEN [found EXCEPT !.kind = IF feed.relock THEN "relock" ELSE "review"]
                 ELSE found

\* Mutant: the holds are not looked at.
WrittenThoughHeld(b) ==
    LET proposal == Plan(b)
    IN  /\ proposal.kind \in {"final", "update", "relock"}
        /\ b.reviewOnly => proposal.kind = "relock"

\* What main writes of it: the review-only list takes all but relocks out, and
\* a hold the exact version it names.
Written(b) ==
    LET proposal == Plan(b)
    IN  /\ proposal.kind \in {"final", "update", "relock"}
        /\ b.reviewOnly => proposal.kind = "relock"
        /\ b.held # {proposal.latest}

----------------------------------------------------------------------------
(* Whether a recipe can be moved by rewriting its Version: line *)

\* macros: from the names a spec defines to the names each body refers to.
Below(macros, names) ==
    LET near[k \in 0..Cardinality(DOMAIN macros)] ==
            IF k = 0 THEN names
            ELSE near[k - 1] \cup UNION {macros[n] : n \in near[k - 1] \cap DOMAIN macros}
    IN  near[Cardinality(DOMAIN macros)]

AboveIn(macros, names) ==
    LET near[k \in 0..Cardinality(DOMAIN macros)] ==
            IF k = 0 THEN names
            ELSE near[k - 1] \cup {n \in DOMAIN macros : macros[n] \cap near[k - 1] # {}}
    IN  near[Cardinality(DOMAIN macros)]

\* Mutant: only what the Version: line names is bound to it.
BoundDirectly(spec) == spec.version \cap DOMAIN spec.macros

\* The macros the version is computed from, and those computed from them.
Bound(spec) == AboveIn(spec.macros, Below(spec.macros, spec.version))

MacroSources(spec) ==
    IF spec.version = {} THEN {} ELSE {s \in spec.sources : s \cap Bound(spec) # {}}
=============================================================================
