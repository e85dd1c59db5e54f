------------------------------ MODULE Upstream ------------------------------
(***************************************************************************)
(* Calls of tools/upstream_bump.py that write nothing: the proposal for    *)
(* one lock (Releases), over every listing four projects can have, and     *)
(* the check of a recipe's macros.  BumpRun is what is then written.       *)
(***************************************************************************)
EXTENDS Tool, Releases

AnswerPlan == Waiting("plan") /\ Answer([proposal |-> Plan(call.in), written |-> Written(call.in)])

AnswerMacros == Waiting("macros") /\ Answer(MacroSources(call.in))

UpstreamNext == AnswerPlan \/ AnswerMacros

----------------------------------------------------------------------------
(* Calls *)

\* Four projects, each with what it ever releases and the series these are of,
\* and the cycles a run may name: GNOME's in both of its numberings, and two of
\* a forge, the second with prereleases as samba spells them (4.25.0rc1).
Projects == <<
    [series |-> <<{Ver(<<51>>, "pre"), Ver(<<51, 0>>, ""), Ver(<<51, 0, 1>>, "")},
                  {Ver(<<52>>, "pre"), Ver(<<52, 0>>, "")}>>,
     cycles |-> {<<>>, <<51>>, <<52>>}, primaries |-> {"gnome", "lookaside"}],
    [series |-> <<{Ver(<<1, 58, 1>>, ""), Ver(<<1, 58, 2>>, "")},
                  {Ver(<<1, 89, 90>>, ""), Ver(<<1, 90, 0>>, "")},
                  {Ver(<<1, 60>>, "pre"), Ver(<<1, 60, 0>>, "")}>>,
     cycles |-> {<<>>, <<52>>, <<1, 60>>}, primaries |-> {"gnome", "lookaside"}],
    [series |-> <<{Ver(<<2, 12>>, ""), Ver(<<2, 13>>, ""), Ver(<<2, 13>>, "build"), Ver(<<2, 14>>, "pre"),
                   Ver(<<2, 14>>, "")},
                  {Ver(<<3, 0>>, "")}>>,
     cycles |-> {<<>>}, primaries |-> {"forge", "lookaside"}],
    [series |-> <<{Ver(<<4, 24, 1>>, ""), Ver(<<4, 25, 0>>, "glued"), Ver(<<4, 25, 0>>, "")},
                  {Ver(<<5, 0, 0>>, "glued"), Ver(<<5, 0, 0>>, "")}>>,
     cycles |-> {<<>>}, primaries |-> {"forge", "lookaside"}] >>

AllOf(project) == UNION ToSet(project.series)

PlanCallsOf(project) ==
    LET versions == AllOf(project)
        entries == [version : versions, primary : project.primaries, mirror : BOOLEAN,
                    feed : {"none", "anitya", IF "gnome" \in project.primaries THEN "gnome" ELSE "forge"}]
        listings == [released : SUBSET versions, flagged : {{}, versions}, tagged : {{}, versions}]
    IN  [entry : {e \in entries : e.mirror => e.primary = "lookaside" /\ e.feed = "none"},
         listing : listings, endpoint : {"releases", "tags"}, readable : {TRUE}, module : {"gnome" \in project.primaries},
         only : BOOLEAN, cycle : project.cycles, reviewOnly : {FALSE}, held : {{}},
         series : {project.series}]

\* The lists main consults, over one project and a full listing.
PlanCallsOfLists ==
    LET all == AllOf(Projects[3])
    IN  [entry : [version : all, primary : {"forge", "lookaside"}, mirror : {FALSE}, feed : {"forge"}],
         listing : {[released |-> all, flagged |-> {}, tagged |-> {}]}, endpoint : {"tags"},
         readable : BOOLEAN, module : {FALSE}, only : BOOLEAN, cycle : {<<>>}, reviewOnly : BOOLEAN,
         held : {{}} \cup {{v} : v \in all}, series : {Projects[3].series}]

MacroNames == {"a", "b", "c"}

MacroCalls ==
    [macros : UNION {[D -> {{}, {"a"}, {"b"}, {"a", "c"}}] : D \in SUBSET MacroNames},
     version : {{}, {"a"}, {"b"}, {"b", "c"}}, sources : {{{n} : n \in MacroNames}}]

UpstreamCalls ==
    Calls("plan", (UNION {PlanCallsOf(p) : p \in ToSet(Projects)}) \cup PlanCallsOfLists)
        \cup Calls("macros", MacroCalls)

----------------------------------------------------------------------------
(* Properties *)

\* The order of releases, on its own terms: a prerelease is below what it
\* precedes, a build suffix between its release and the next.
Rank(v) ==
    Append([i \in DOMAIN v.num |-> 2 * v.num[i]],
           CASE v.tag = "build" -> 1 [] v.tag \in {"pre", "glued"} -> -1 [] OTHER -> 0)

SeriesOf(b, v) == CHOOSE i \in DOMAIN b.series : v \in b.series[i]

\* The cycle a run names comes before the one whose prerelease the lock is:
\* that the lock is a prerelease is then enough to write the earlier release.
NamesEarlierCycle(b) ==
    b.cycle # <<>> /\ IsPrerelease(b.entry.version) /\ Above(b.entry.version.num, b.cycle)

\* What is written without a human goes forward, within the series the lock is
\* of or the cycle the run names, in each of the numbering schemes: 1.58.2 does
\* not move to the development series 1.90, nor 2.13b171 back to 2.13.  It is a
\* release, or on a forge what is_prerelease cannot see to be none: a version
\* whose marker stands without a separator.  A run that names an earlier cycle
\* than a prerelease lock's may go back.
WrittenStaysInSeries ==
    Answered("plan") /\ answer.is.written =>
        LET latest == answer.is.proposal.latest
            cycle == call.in.cycle
        IN  /\ latest.tag = "" \/ (latest.tag = "glued" /\ ~call.in.module)
            /\ Above(Rank(latest), Rank(call.in.entry.version)) \/ NamesEarlierCycle(call.in)
            /\ IF cycle = <<>>
               THEN SeriesOf(call.in, latest) = SeriesOf(call.in, call.in.entry.version)
               ELSE \A i \in DOMAIN cycle : latest.num[i] = cycle[i]

\* No prerelease is ever proposed (upstream_bump.py: forge_proposal).  Violated:
\* 4.25.0rc1 is written over 4.24.1.
PrereleasesAreNotProposed ==
    Answered("plan") /\ answer.is.proposal.kind # "nothing" =>
        answer.is.proposal.latest.tag \notin {"pre", "glued"}

\* Over a prerelease the final of its cycle is written, or of a later one
\* (upstream_bump.py: plan).  Violated: with --cycle 51 a lock of 52.beta goes
\* back to 51.0.
FinalsComeAfter ==
    Answered("plan") /\ answer.is.proposal.kind = "final" /\ IsPrerelease(call.in.entry.version) =>
        Above(Rank(answer.is.proposal.latest), Rank(call.in.entry.version))

\* A lock whose primary is not where the release was found is left alone by
\* every run that does not name its package: the new bytes are not where the
\* lock points, and moving the primary is a human's.
PrimaryMovesByHandOnly ==
    Answered("plan") /\ answer.is.written /\ ~call.in.only =>
        /\ answer.is.proposal.kind # "relock"
        /\ call.in.entry.primary \in {"gnome", "forge"}

\* A Source line that is refused is exactly one that some macro the version is
\* computed from reaches, over any number of definitions in between.
StaleSourcesRefused ==
    Answered("macros") =>
        LET reaches(n, m) == m \in Below(call.in.macros, {n})
        IN  answer.is = {s \in call.in.sources :
                            \E n \in s : \E v \in call.in.version, m \in MacroNames :
                                reaches(n, m) /\ reaches(v, m)}

\* What a run writes by itself is no human's to decide, and can be built: the
\* right series, the same primary, and no Source the rewrite leaves behind.
BumpNeedsNoHuman == WrittenStaysInSeries /\ PrimaryMovesByHandOnly /\ StaleSourcesRefused
=============================================================================
