----------------------------- MODULE ToolProofs -----------------------------
(***************************************************************************)
(* What the programs under tools/ promise of one call, for every input     *)
(* their steps can meet and not only for the calls MCTools enumerates: the *)
(* lemmas of each part are about any input, and the calls are used only    *)
(* for the shape of what is passed.                                        *)
(***************************************************************************)
EXTENDS MCTools, TLAPS, WellFoundedInduction, FiniteSetTheorems, SequenceTheorems

\* A call is not changed, and is answered by the program it is for.
LEMMA OneAnswer ==
    ASSUME [Next]_toolVars
    PROVE  /\ call' = call
           /\ answer' = answer \/ answer'.done
           /\ answer' # answer =>
                 /\ call.tool = "source" => answer'.is = Pipeline(call.in)
                 /\ call.tool = "reimport" => answer'.is = Reimport(call.in)
                 /\ call.tool = "scans" => answer'.is = Scans(call.in)
                 /\ call.tool = "bluefin" => answer'.is = ImportBluefin(call.in)
                 /\ call.tool = "verify" => answer'.is = Verified(call.in.command, call.in.of)
                 /\ call.tool = "merge-group" =>
                       answer'.is = [admitted |-> CanaryCheck(call.in.pr),
                                     proved |-> MergeGroupProved(call.in)]
                 /\ call.tool = "fork" =>
                       answer'.is = [copy |-> ForkDecision(call.in),
                                     proved |-> call.in.fullSha /\ HasProof(call.in.runs, "canary/pr", call.in.head)]
                 /\ call.tool = "snapshot" => answer'.is = CmdSnapshot(call.in)
                 /\ call.tool = "imports" =>
                       answer'.is = [i \in DOMAIN call.in.imports |->
                                        ImportPackage(call.in.tree, call.in.imports[i].package,
                                                      call.in.imports[i].recipe, call.in.imports[i].source)]
                 /\ call.tool = "restore" =>
                       answer'.is = Proposal(call.in.tree, call.in.artifact, call.in.package)
                 /\ call.tool = "plan" =>
                       answer'.is = [proposal |-> Plan(call.in), written |-> Written(call.in)]
                 /\ call.tool = "macros" => answer'.is = MacroSources(call.in)
                 /\ call.tool = "tracking" => answer'.is = IssueAfter(call.in)
                 /\ call.tool = "utah-issues" => answer'.is = UtahIssuesAfter(call.in)
                 /\ call.tool = "set" =>
                       LET result == SetPin(call.in.tree, call.in.value)
                       IN  \E n \in DOMAIN result.trees :
                               answer'.is = [exit |-> IF n = Len(result.trees) THEN result.exit ELSE 1,
                                             tree |-> result.trees[n], cut |-> n < Len(result.trees)]
<1>1. CASE UNCHANGED toolVars
    BY <1>1 DEF toolVars
<1>2. CASE CanaryNext
    BY <1>2 DEF CanaryNext, AnswerMergeGroup, AnswerFork, AnswerVerify, Answer, Waiting
<1>3. CASE UpstreamNext
    BY <1>3 DEF UpstreamNext, AnswerPlan, AnswerMacros, Answer, Waiting
<1>4. CASE SourcePipelineNext
    BY <1>4 DEF SourcePipelineNext, AnswerPipeline, AnswerStaged, Answer, Waiting
<1>5. CASE BuildrootNext
    BY <1>5 DEF BuildrootNext, AnswerSet, AnswerSnapshot, Answer, Waiting
<1>6. CASE RawhideNext
    BY <1>6 DEF RawhideNext, AnswerReimport, AnswerScans, AnswerImportBluefin, Answer, Waiting
<1>7. CASE ImportsNext
    BY <1>7 DEF ImportsNext, AnswerImports, AnswerRestore, Answer, Waiting
<1>8. CASE TrackingNext
    BY <1>8 DEF TrackingNext, AnswerTracking, AnswerUtah, Answer, Waiting
<1>9. QED
    BY <1>1, <1>2, <1>3, <1>4, <1>5, <1>6, <1>7, <1>8 DEF Next

-----------------------------------------------------------------------------
(* SourcePipeline: a source, over any number of attempts and mirrors.       *)

\* Of a set of attempts, or of mirrors, there is a first one.
LEMMA FirstOne ==
    ASSUME NEW S \in SUBSET Nat, S # {}
    PROVE  Min(S) \in S /\ \A i \in S : Min(S) <= i
<1> DEFINE Less == OpToRel(<, Nat)
<1>1. IsWellFoundedOn(Less, Nat)
    BY NatLessThanWellFounded
<1> HIDE DEF Less
<1>2. PICK least \in S : \A i \in S : ~(<<i, least>> \in Less)
    BY <1>1, WFMin
<1>3. ASSUME NEW i \in S PROVE least <= i
    <2>1. ~(<<i, least>> \in Less) /\ i \in Nat /\ least \in Nat
        BY <1>2
    <2>2. ~(i < least)
        BY <2>1 DEF Less, OpToRel
    <2>3. QED BY <2>1, <2>2
<1>4. \E x \in S : \A i \in S : x <= i
    BY <1>2, <1>3
<1>5. QED BY <1>4, Zenon DEF Min

\* What an attempt brought is final: fetch returns the first answer that carries
\* anything.
LEMMA FetchIsFirst ==
    ASSUME NEW server, NEW n \in 1..Attempts, server[n] \notin {"empty", "down"}
    PROVE  \E k \in 1..n : Fetch(server) = server[k]
<1> DEFINE kept == {i \in 1..Attempts : server[i] \notin {"empty", "down"}}
<1>1. kept \in SUBSET Nat /\ n \in kept
    BY AttemptsAssumption
<1>2. Min(kept) \in kept /\ Min(kept) <= n
    BY <1>1, FirstOne
<1>3. Fetch(server) = server[Min(kept)]
    BY <1>1 DEF Fetch
<1>4. Min(kept) \in 1..n
    BY <1>2, AttemptsAssumption
<1>5. QED BY <1>3, <1>4

\* A mirror that comes before the one that served has not served other bytes.
LEMMA EarlierServedNothing ==
    ASSUME NEW servers, NEW m \in Nat, DOMAIN servers = 1..m,
           \A j \in 1..m : servers[j] \in [1..Attempts -> Answers],
           NEW i \in 1..FetchWithFallbacks(servers).from - 1, NEW n \in 1..Attempts,
           servers[i][n] = "other"
    PROVE  \E k \in 1..n - 1 : servers[i][k] = "html"
<1> DEFINE answered == {j \in DOMAIN servers : Fetch(servers[j]) \notin {"failed", "html"}}
<1>1. answered # {}
    <2>1. CASE answered = {}
        <3>1. FetchWithFallbacks(servers).from = 0
            BY <2>1 DEF FetchWithFallbacks
        <3>2. QED BY <3>1
    <2>2. QED BY <2>1
<1>2. FetchWithFallbacks(servers).from = Min(answered)
    BY <1>1 DEF FetchWithFallbacks
<1>3. answered \in SUBSET Nat
    OBVIOUS
<1>4. Min(answered) \in 1..m /\ \A j \in answered : Min(answered) <= j
    BY <1>1, <1>3, FirstOne
<1>5. PICK least \in 1..m : least = Min(answered)
    BY <1>4
<1>6. i \in 1..m /\ i < least
    BY <1>2, <1>5
<1>7. i \notin answered
    <2>1. \A j \in answered : least <= j
        BY <1>4, <1>5
    <2> HIDE DEF answered
    <2>2. ~(least <= i)
        BY <1>6
    <2>3. QED BY <2>1, <2>2
<1>8. Fetch(servers[i]) \in {"failed", "html"}
    BY <1>6, <1>7
<1>9. PICK k \in 1..n : Fetch(servers[i]) = servers[i][k]
    BY FetchIsFirst
<1>10. k \in 1..Attempts /\ servers[i][k] \in Answers
    BY <1>6, AttemptsAssumption
<1>11. servers[i][k] = "html"
    BY <1>8, <1>9, <1>10 DEF Answers
<1>12. k # n /\ n \in Nat
    BY <1>11, AttemptsAssumption
<1>13. k \in 1..n - 1
    BY <1>12
<1>14. QED BY <1>11, <1>13

\* The facts of one call that the two properties are read off.
LEMMA PipelineIs ==
    ASSUME NEW source
    PROVE  LET is == Pipeline(source)
           IN  /\ is.file \in {source.before, "locked"}
               /\ is.report = "accepted" /\ source.kind # "none" =>
                      /\ is.file = "locked" /\ BundledHolds(source)
                      /\ is.from = Candidate(source).from
               /\ is.report = "accepted" /\ source.kind = "none" => is.from = 0
<1>1. CASE ~source.wellFormed
    <2>1. Pipeline(source) = [report |-> "none", file |-> source.before, from |-> 0, exit |-> 1]
        BY <1>1, Zenon DEF Pipeline
    <2>2. QED BY <2>1
<1>2. CASE source.wellFormed /\ source.kind = "none"
    <2>1. Pipeline(source) = [report |-> "accepted", file |-> source.before, from |-> 0, exit |-> 0]
        BY <1>2, Zenon DEF Pipeline
    <2>2. QED BY <1>2, <2>1
<1>3. CASE source.wellFormed /\ source.kind # "none"
    <2> DEFINE kept == CandidateAccepted(source)
               accepted == kept /\ BundledHolds(source)
    <2>1. Pipeline(source) = [report |-> IF accepted THEN "accepted" ELSE "rejected",
                              file |-> IF kept THEN Candidate(source).got ELSE source.before,
                              from |-> Candidate(source).from,
                              exit |-> IF accepted THEN 0 ELSE 1]
        BY <1>3, Zenon DEF Pipeline
    <2>2. QED BY <1>3, <2>1 DEF CandidateAccepted
<1>4. QED BY <1>1, <1>2, <1>3

\* Each program answers its own calls.
LEMMA CallTool ==
    ASSUME NEW tool, NEW inputs, call \in Calls(tool, inputs)
    PROVE  call.tool = tool /\ call.in \in inputs
BY DEF Calls

\* So which program a call is for says where it was made.
LEMMA CallTools ==
    /\ call \in CanaryCalls => call.tool \in {"merge-group", "fork", "verify"}
    /\ call \in UpstreamCalls => call.tool \in {"plan", "macros"}
    /\ call \in SourceCalls => call.tool \in {"source", "staged"}
    /\ call \in BuildrootCalls => call.tool \in {"set", "snapshot"}
    /\ call \in RawhideCalls => call.tool \in {"reimport", "scans", "bluefin"}
    /\ call \in ImportsCalls => call.tool \in {"imports", "restore"}
    /\ call \in TrackingProgramCalls => call.tool \in {"tracking", "utah-issues"}
<1>1. call \in CanaryCalls => call.tool \in {"merge-group", "fork", "verify"}
    BY CallTool, Zenon DEF CanaryCalls
<1>2. call \in UpstreamCalls => call.tool \in {"plan", "macros"}
    BY CallTool DEF UpstreamCalls
<1>3. call \in SourceCalls => call.tool \in {"source", "staged"}
    BY CallTool, Zenon DEF SourceCalls
<1>4. call \in BuildrootCalls => call.tool \in {"set", "snapshot"}
    BY CallTool, Zenon DEF BuildrootCalls
<1>5. call \in RawhideCalls => call.tool \in {"reimport", "scans", "bluefin"}
    BY CallTool, Zenon DEF RawhideCalls
<1>6. call \in ImportsCalls => call.tool \in {"imports", "restore"}
    BY CallTool, Zenon DEF ImportsCalls
<1>7. call \in TrackingProgramCalls => call.tool \in {"tracking", "utah-issues"}
    BY CallTool, Zenon DEF TrackingProgramCalls
<1>8. QED BY <1>1, <1>2, <1>3, <1>4, <1>5, <1>6, <1>7

\* What a source call passes: some servers, each answering every attempt.
LEMMA SourceCallShape ==
    ASSUME call \in SourceCalls, call.tool = "source"
    PROVE  \E m \in Nat : /\ DOMAIN call.in.servers = 1..m
                          /\ \A j \in 1..m : call.in.servers[j] \in Servers
<1>1. call.in.servers \in {<<s>> : s \in Servers} \cup (Servers \X Servers)
                              \cup {<<[i \in 1..Attempts |-> a]>> : a \in Bytes}
    BY DEF SourceCalls, Calls
<1>2. \A a \in Bytes : [i \in 1..Attempts |-> a] \in Servers
    BY DEF Bytes, Servers, Answers
<1>3. CASE \E s \in Servers : call.in.servers = <<s>>
    <2>1. DOMAIN call.in.servers = 1..1 /\ \A j \in 1..1 : call.in.servers[j] \in Servers
        BY <1>3
    <2>2. QED BY <2>1
<1>4. CASE call.in.servers \in Servers \X Servers
    <2>1. DOMAIN call.in.servers = 1..2 /\ \A j \in 1..2 : call.in.servers[j] \in Servers
        BY <1>4
    <2>2. QED BY <2>1
<1>5. QED BY <1>1, <1>2, <1>3, <1>4

\* Every answer about a source is that of a call that was made.
CallIsMade ==
    \/ call \in CanaryCalls
    \/ call \in UpstreamCalls
    \/ call \in SourceCalls
    \/ call \in BuildrootCalls
    \/ call \in RawhideCalls
    \/ call \in ImportsCalls
    \/ call \in TrackingProgramCalls

\* The calls are made once and are not changed.
LEMMA CallsStay == Spec => []CallIsMade
<1>1. Init => CallIsMade
    BY DEF Init, CallIsMade
<1>2. CallIsMade /\ [Next]_toolVars => CallIsMade'
    BY OneAnswer DEF CallIsMade
<1>3. QED BY <1>1, <1>2, PTL DEF Spec

\* Retries and mirrors change which server is asked and never what is accepted,
\* for any FETCH_ATTEMPTS (source_pipeline.py: fetch, fetch_with_fallbacks).
THEOREM SourcesCorrect == Spec => []SourceStandsAsLocked
<1>1. Init => SourceStandsAsLocked
    BY DEF Init, SourceStandsAsLocked, SourceIsLocked, MirrorsAreForAvailability, Answered
<1>2. CallIsMade /\ SourceStandsAsLocked /\ [Next]_toolVars => SourceStandsAsLocked'
    <2> SUFFICES ASSUME CallIsMade, SourceStandsAsLocked, [Next]_toolVars
                 PROVE  SourceStandsAsLocked'
        OBVIOUS
    <2>1. CASE answer' = answer
        BY <2>1, OneAnswer DEF SourceStandsAsLocked, SourceIsLocked, MirrorsAreForAvailability, Answered
    <2>2. CASE answer' # answer /\ call.tool = "source"
        <3> DEFINE source == call.in
                   is == Pipeline(source)
        <3>1. call' = call /\ answer'.is = is
            BY <2>2, OneAnswer
        <3>2. SourceIsLocked'
            BY <3>1, PipelineIs DEF SourceIsLocked, BundledHolds
        <3>3. PICK m \in Nat : /\ DOMAIN source.servers = 1..m
                               /\ \A j \in 1..m : source.servers[j] \in Servers
            <4>1. call \in SourceCalls
                BY <2>2, CallTools DEF CallIsMade
            <4>2. QED BY <2>2, <4>1, SourceCallShape
        <3>4. ASSUME is.report = "accepted", is.from > 1,
                     NEW i \in 1..is.from - 1, NEW n \in 1..Attempts,
                     source.servers[i][n] = "other"
              PROVE  \E k \in 1..n - 1 : source.servers[i][k] = "html"
            <4>1. is.from = Candidate(source).from
                BY <3>4, PipelineIs
            <4>2. is.from = FetchWithFallbacks(source.servers).from
                BY <3>4, <4>1 DEF Candidate
            <4>3. QED BY <3>3, <3>4, <4>2, EarlierServedNothing DEF Servers
        <3>5. QED
            BY <3>1, <3>2, <3>4 DEF SourceStandsAsLocked, MirrorsAreForAvailability
    <2>3. CASE call.tool # "source"
        BY <2>3, OneAnswer DEF SourceStandsAsLocked, SourceIsLocked, MirrorsAreForAvailability, Answered
    <2>4. QED BY <2>1, <2>2, <2>3
<1>3. QED BY <1>1, <1>2, CallsStay, PTL DEF Spec

-----------------------------------------------------------------------------
(* Rawhide: a recipe taken over, scans, and the import for Bluefin.         *)

\* The build inputs of a recipe that has not diverged are those of the pinned
\* commit, and so is all that is read of its spec and its sources file.
LEMMA FollowsPinned ==
    ASSUME NEW mine, NEW pinned, ~Diverged(mine, pinned)
    PROVE  /\ BuildInputs(mine) = BuildInputs(pinned)
           /\ SpecOf(mine) = SpecOf(pinned)
           /\ Sources(mine) = Sources(pinned)
<1>1. /\ mine.specs = pinned.specs
      /\ Files(mine) = Files(pinned) \ OmittedInert(mine, pinned)
      /\ \A f \in Files(mine) : mine.files[f] = pinned.files[f]
    BY DEF Diverged
<1>2. SpecOf(mine) = SpecOf(pinned) /\ \A f : Inert(f, mine) <=> Inert(f, pinned)
    BY <1>1 DEF SpecOf, Inert, SingleSpec
<1>3. {g \in Files(mine) : ~Inert(g, mine)} = {g \in Files(pinned) : ~Inert(g, pinned)}
    BY <1>1, <1>2 DEF OmittedInert
<1>4. [f \in {g \in Files(mine) : ~Inert(g, mine)} |-> mine.files[f]]
        = [f \in {g \in Files(pinned) : ~Inert(g, pinned)} |-> pinned.files[f]]
    BY <1>1, <1>3
<1>5. BuildInputs(mine) = BuildInputs(pinned)
    BY <1>1, <1>4 DEF BuildInputs
<1>6. ~Inert("sources", pinned)
    BY DEF Inert, InertFiles
<1>7. "sources" \in Files(mine) <=> "sources" \in Files(pinned)
    BY <1>1, <1>6 DEF OmittedInert
<1>8. Sources(mine) = Sources(pinned)
    BY <1>1, <1>7 DEF Sources
<1>9. QED BY <1>2, <1>5, <1>8

\* What import_snapshot leaves has not diverged from what it imports.
LEMMA SnapshotFollows ==
    ASSUME NEW mine, NEW target
    PROVE  ~Diverged(ImportSnapshot(mine, target), target)
<1> DEFINE after == ImportSnapshot(mine, target)
<1>1. /\ after.specs = target.specs
      /\ Files(after) = Files(target) \ OmittedInert(mine, target)
      /\ \A f \in Files(after) : after.files[f] = target.files[f]
    BY DEF ImportSnapshot, Files
<1>2. OmittedInert(after, target) = OmittedInert(mine, target)
    BY <1>1 DEF OmittedInert
<1>3. QED BY <1>1, <1>2 DEF Diverged

\* When a re-import is taken.
LEMMA SafeReimport ==
    ASSUME NEW in, Reimport(in).verdict = "safe"
    PROVE  /\ Reimport(in).tree = ImportSnapshot(in.mine, in.target)
           /\ Reimport(in).pin = in.koji
           /\ in.koji # in.pin
           /\ IsAncestor(in.koji, Tip)
           /\ Safe(in, in.pinned, in.target, IsAncestor(in.pin, in.koji))
<1> DEFINE stays(verdict) == [verdict |-> verdict, tree |-> in.mine, pin |-> in.pin]
<1>1. CASE in.koji = 0
    <2>1. Reimport(in) = stays("errors")
        BY <1>1, Zenon DEF Reimport
    <2>2. QED BY <2>1
<1>2. CASE in.koji # 0 /\ in.koji = in.pin
    <2>1. Reimport(in) = stays("current")
        BY <1>2, Zenon DEF Reimport
    <2>2. QED BY <2>1
<1>3. CASE in.koji \notin {0, in.pin} /\ IsAncestor(in.koji, in.pin)
    <2>1. Reimport(in) = stays("behind_pin")
        BY <1>3, Zenon DEF Reimport
    <2>2. QED BY <2>1
<1>4. CASE in.koji \notin {0, in.pin} /\ ~IsAncestor(in.koji, in.pin)
    <2>1. Reimport(in) =
              IF ~IsAncestor(in.koji, Tip) \/ in.pin \notin Cloned THEN stays("errors")
              ELSE IF ~BuildRelevant(in.pinned, in.target) THEN stays("metadata_only")
              ELSE IF ~Safe(in, in.pinned, in.target, IsAncestor(in.pin, in.koji)) THEN stays("unsafe")
              ELSE [verdict |-> "safe", tree |-> ImportSnapshot(in.mine, in.target), pin |-> in.koji]
        BY <1>4, Zenon DEF Reimport
    <2>2. QED BY <1>4, <2>1
<1>5. QED BY <1>1, <1>2, <1>3, <1>4

\* A re-import taken without a human needs none (rawhide_reimport.py: classify).
THEOREM ReimportsCorrect == Spec => []ReimportNeedsNoHuman
<1>1. Init => ReimportNeedsNoHuman
    BY DEF Init, ReimportNeedsNoHuman, Answered
<1>2. ReimportNeedsNoHuman /\ [Next]_toolVars => ReimportNeedsNoHuman'
    <2> SUFFICES ASSUME ReimportNeedsNoHuman, [Next]_toolVars PROVE ReimportNeedsNoHuman'
        OBVIOUS
    <2>1. CASE answer' = answer \/ call.tool # "reimport"
        BY <2>1, OneAnswer DEF ReimportNeedsNoHuman, Answered
    <2>2. CASE answer' # answer /\ call.tool = "reimport"
        <3> DEFINE in == call.in
                   is == Reimport(in)
        <3>1. call' = call /\ answer'.is = is
            BY <2>2, OneAnswer
        <3>2. SUFFICES ASSUME is.verdict = "safe"
                       PROVE  /\ in.pin \in Ancestors[is.pin] \ {is.pin}
                              /\ is.pin \in Ancestors[Tip]
                              /\ BuildInputs(in.mine) = BuildInputs(in.pinned)
                              /\ BuildInputs(is.tree) = BuildInputs(in.target)
                              /\ ~Diverged(is.tree, in.target)
                              /\ Sources(is.tree) = Sources(in.mine)
                              /\ SpecOf(is.tree).nvr = SpecOf(in.mine).nvr
                              /\ SpecOf(is.tree).requires \subseteq SpecOf(in.mine).requires
            BY <3>1 DEF ReimportNeedsNoHuman
        <3>3. /\ is.tree = ImportSnapshot(in.mine, in.target) /\ is.pin = in.koji
              /\ in.koji # in.pin /\ IsAncestor(in.koji, Tip)
              /\ IsAncestor(in.pin, in.koji) /\ ~Diverged(in.mine, in.pinned)
              /\ Sources(in.pinned) = Sources(in.target)
              /\ SpecOf(in.pinned).nvr = SpecOf(in.target).nvr
              /\ SpecOf(in.target).requires \subseteq SpecOf(in.pinned).requires
            BY <3>2, SafeReimport DEF Safe
        <3>4. ~Diverged(is.tree, in.target)
            BY <3>3, SnapshotFollows
        <3>5. QED BY <3>3, <3>4, FollowsPinned DEF IsAncestor
    <2>3. QED BY <2>1, <2>2
<1>3. QED BY <1>1, <1>2, PTL DEF Spec

\* Scans are made of answers one after the other.
LEMMA ScanShape ==
    ASSUME CallIsMade, call.tool = "scans"
    PROVE  \E n \in Nat : DOMAIN call.in = 1..n
<1>1. call \in RawhideCalls
    BY CallTools DEF CallIsMade
<1>2. call.in \in ScanInputs
    BY <1>1 DEF RawhideCalls, Calls
<1>3. CASE call.in \in UNION {[1..n -> Records({"i686", "x86_64", "noarch"})] : n \in 1..2}
    <2>1. PICK n \in 1..2 : call.in \in [1..n -> Records({"i686", "x86_64", "noarch"})]
        BY <1>3
    <2>2. DOMAIN call.in = 1..n /\ n \in Nat
        BY <2>1
    <2>3. QED BY <2>2
<1>4. CASE call.in \in [1..4 -> Records({"x86_64"})]
    <2>1. PICK n \in Nat : n = 4
        OBVIOUS
    <2>2. DOMAIN call.in = 1..n
        BY <1>4, <2>1
    <2>3. QED BY <2>2
<1>5. QED BY <1>2, <1>3, <1>4, Zenon DEF ScanInputs

\* A change is queued by the first scan that sees it.
LEMMA ScansKeepChanges ==
    ASSUME NEW answers, NEW n \in Nat, DOMAIN answers = 1..n, NEW i \in 1..n, NEW j \in 1..n, i < j,
           Query(answers[i]) # "none", Query(answers[j]) \notin {"none", Query(answers[i])},
           \A k \in i + 1..j - 1 : Query(answers[k]) = "none"
    PROVE  Scans(answers)[j]
<1>1. Scans(answers)[j] = Changed(Query(answers[j - 1]), Query(answers[j]))
    BY DEF Scans
<1>2. Query(answers[j - 1]) # Query(answers[j])
    <2>1. CASE j - 1 = i
        BY <2>1
    <2>2. CASE j - 1 # i
        BY <2>2
    <2>3. QED BY <2>1, <2>2
<1>3. QED BY <1>1, <1>2 DEF Changed

\* What the factory makes from upstream is not imported for a binary of its own,
\* and nothing is imported over.
LEMMA ImportsStayOut ==
    ASSUME NEW in
    PROVE  /\ \A s \in ImportBluefin(in).imported :
                  \E b \in in.binaries \ FactorySources(in.recipes) : in.resolve[b] = s
           /\ ImportBluefin(in).imported \cap {r.directory : r \in in.recipes} = {}
<1> DEFINE binaries == {b \in in.binaries : b \notin in.excluded /\ b \notin FactorySources(in.recipes)}
           resolved == {in.resolve[b] : b \in binaries} \ {"none"}
           there == {r.directory : r \in in.recipes}
<1>1. \/ ImportBluefin(in).imported = {}
      \/ ImportBluefin(in).imported = (resolved \ there) \cap in.importable
    BY DEF ImportBluefin
<1>2. QED BY <1>1

\* What dnf says of Rawhide is followed, over any number of scans and for any
\* binaries and recipes (scan_rawhide_state.py, import_bluefin_rawhide.py).
THEOREM RawhideCorrect == Spec => []RawhideIsFollowed
<1>1. Init => RawhideIsFollowed
    BY DEF Init, RawhideIsFollowed, ScansLoseNoChange, FactoryBinariesStay, Answered
<1>2. CallIsMade /\ RawhideIsFollowed /\ [Next]_toolVars => RawhideIsFollowed'
    <2> SUFFICES ASSUME CallIsMade, RawhideIsFollowed, [Next]_toolVars PROVE RawhideIsFollowed'
        OBVIOUS
    <2>1. CASE answer' = answer \/ call.tool \notin {"scans", "bluefin"}
        BY <2>1, OneAnswer DEF RawhideIsFollowed, ScansLoseNoChange, FactoryBinariesStay, Answered
    <2>2. CASE answer' # answer /\ call.tool = "scans"
        <3>1. call' = call /\ answer'.is = Scans(call.in)
            BY <2>2, OneAnswer
        <3>2. PICK n \in Nat : DOMAIN call.in = 1..n
            BY <2>2, ScanShape
        <3>3. ScansLoseNoChange'
            BY <3>1, <3>2, ScansKeepChanges DEF ScansLoseNoChange
        <3>4. QED BY <2>2, <3>1, <3>3 DEF RawhideIsFollowed, FactoryBinariesStay, Answered
    <2>3. CASE answer' # answer /\ call.tool = "bluefin"
        <3>1. call' = call /\ answer'.is = ImportBluefin(call.in)
            BY <2>3, OneAnswer
        <3>2. FactoryBinariesStay'
            BY <3>1, ImportsStayOut DEF FactoryBinariesStay, FactorySources
        <3>3. QED BY <2>3, <3>1, <3>2 DEF RawhideIsFollowed, ScansLoseNoChange, Answered
    <2>4. QED BY <2>1, <2>2, <2>3
<1>3. QED BY <1>1, <1>2, CallsStay, PTL DEF Spec

-----------------------------------------------------------------------------
(* Canary: what a pass shows, and what a merge group needs.                 *)

\* A job one of whose build steps succeeded is no cache hit.
LEMMA CompiledIsNoHit ==
    ASSUME NEW job, job.build = "success" \/ job.offline = "success"
    PROVE  Outcome(job) # "cache hit"
BY DEF Outcome

\* Of a pass that compiled something the lock moved.
LEMMA CompiledIsExplained ==
    ASSUME NEW c, CacheProved(c), NEW pass \in {2, 3}, NEW p \in CanarySet,
           c.jobs[pass][p].build = "success" \/ c.jobs[pass][p].offline = "success"
    PROVE  RootMoved(c.locks, pass, p)
<1> DEFINE outcomes == [q \in {2, 3} |-> BuildOutcomes(c.jobs[q])]
<1>1. /\ outcomes[2] = BuildOutcomes(c.jobs[2]) /\ outcomes[3] = BuildOutcomes(c.jobs[3])
      /\ DOMAIN outcomes[2] = CanarySet /\ DOMAIN outcomes[3] = Named
      /\ outcomes[pass][p] = "cache hit" \/ RootMoved(c.locks, pass, p)
    BY DEF CacheProved
<1>2. p \in DOMAIN c.jobs[pass]
    BY <1>1 DEF BuildOutcomes, Named
<1>3. outcomes[pass][p] = Outcome(c.jobs[pass][p])
    BY <1>1, <1>2 DEF BuildOutcomes
<1>4. QED BY <1>1, <1>3, CompiledIsNoHit

\* A step that compiled in a pass verify-cache accepts is explained by its lock,
\* for any set of canary packages (canary.py: verify_cache).
THEOREM CacheVerdictCorrect == Spec => []CacheVerdictIsSound
<1>1. Init => CacheVerdictIsSound
    BY DEF Init, CacheVerdictIsSound, Answered
<1>2. CacheVerdictIsSound /\ [Next]_toolVars => CacheVerdictIsSound'
    <2> SUFFICES ASSUME CacheVerdictIsSound, [Next]_toolVars PROVE CacheVerdictIsSound'
        OBVIOUS
    <2>1. CASE answer' = answer \/ call.tool # "verify"
        <3>1. call' = call
            BY OneAnswer, Zenon
        <3>2. CASE call.tool # "verify"
            BY <3>1, <3>2 DEF CacheVerdictIsSound, Answered
        <3>3. CASE answer' = answer
            BY <3>1, <3>3, Zenon DEF CacheVerdictIsSound, Answered
        <3>4. QED BY <2>1, <3>2, <3>3
    <2>2. CASE answer' # answer /\ call.tool = "verify"
        <3>1. call' = call /\ answer'.is = Verified(call.in.command, call.in.of)
            BY <2>2, OneAnswer
        <3>2. call.in.command = "cache" => Verified(call.in.command, call.in.of) = CacheProved(call.in.of)
            BY Zenon DEF Verified
        <3>3. call.in.command = "cache" /\ answer'.is =>
                  \A pass \in {2, 3}, p \in CanarySet :
                      LET job == call.in.of.jobs[pass][p]
                      IN  (job.build = "success" \/ job.offline = "success")
                              => RootMoved(call.in.of.locks, pass, p)
            BY <3>1, <3>2, CompiledIsExplained
        <3>4. QED BY <3>1, <3>3 DEF CacheVerdictIsSound, RootMoved
    <2>3. QED BY <2>1, <2>2
<1>3. QED BY <1>1, <1>2, PTL DEF Spec

\* A change that is not relevant leaves a tree as proved as it was, if every
\* canary package had an entry.
LEMMA IrrelevantKeepsProof ==
    ASSUME NEW base, NEW head, NEW noPatch, ~PipelineRelevant(base, head, noPatch),
           Named \subseteq DOMAIN base.lock.rows
    PROVE  Proves(head) = Proves(base) /\ Named \subseteq DOMAIN head.lock.rows
<1>1. base.code = head.code /\ \A n \in Named : base.data[n] = head.data[n]
    BY DEF PipelineRelevant, Mentions
<1>2. /\ base.lock.rest = head.lock.rest
      /\ \A n \in DOMAIN base.lock.rows :
             n \in DOMAIN head.lock.rows /\ head.lock.rows[n] = base.lock.rows[n]
    BY DEF PipelineRelevant, TouchesExisting
<1>3. Named \cap DOMAIN head.lock.rows = Named /\ Named \cap DOMAIN base.lock.rows = Named
    BY <1>2
<1>4. [n \in Named |-> head.lock.rows[n]] = [n \in Named |-> base.lock.rows[n]]
    BY <1>2
<1>5. [n \in Named |-> head.data[n]] = [n \in Named |-> base.data[n]]
    BY <1>1
<1>6. QED BY <1>1, <1>2, <1>3, <1>4, <1>5 DEF Proves

\* A group that is admitted and proved, of a pull request whose check did not
\* crash.
LEMMA GroupStandsOnProof ==
    ASSUME NEW g, ~g.pr.crashed, g.pr.built => Named \subseteq DOMAIN g.pr.head.lock.rows,
           Named \subseteq DOMAIN g.pr.base.lock.rows,
           CanaryCheck(g.pr), MergeGroupProved(g)
    PROVE  Proves(g.group) \in {Proves(g.pr.base)} \cup (IF g.pr.built THEN {Proves(g.pr.head)} ELSE {})
<1>1. ~PipelineRelevant(g.pr.head, g.group, FALSE)
    BY DEF MergeGroupProved, RangeRelevant
<1>2. CASE g.pr.built
    BY <1>1, <1>2, IrrelevantKeepsProof
<1>3. CASE ~g.pr.built
    <2>1. ~PipelineRelevant(g.pr.base, g.pr.head, g.pr.noPatch)
        BY <1>3 DEF CanaryCheck, PrRelevant
    <2>2. Proves(g.pr.head) = Proves(g.pr.base) /\ Named \subseteq DOMAIN g.pr.head.lock.rows
        BY <2>1, IrrelevantKeepsProof
    <2>3. QED BY <1>1, <2>2, IrrelevantKeepsProof
<1>4. QED BY <1>2, <1>3

\* A fork's commit that is copied is the reviewed one, and its list is complete.
LEMMA ForkDecisionHolds ==
    ASSUME NEW f, ForkDecision(f) = "copy"
    PROVE  f.head = f.reviewed /\ "workflow" \notin f.listed /\ ~(f.changed >= FilesLimit)
BY DEF ForkDecision

\* What the two kinds of call pass.
LEMMA GroupCallShape ==
    ASSUME CallIsMade, call.tool = "merge-group"
    PROVE  /\ call.in.pr.base = Tree({})
           /\ call.in.pr.built => Buildable(call.in.pr.head)
<1>1. call \in CanaryCalls
    BY CallTools DEF CallIsMade
<1>2. call.in \in MergeGroupCalls
    BY <1>1 DEF CanaryCalls, Calls
<1> DEFINE trees == {Tree(e) : e \in Sets(Edits)}
           prs == {[base |-> Tree({}), head |-> t, noPatch |-> n, crashed |-> c, built |-> b] :
                       t \in trees, n \in BOOLEAN, c \in BOOLEAN, b \in BOOLEAN}
<1>3. \E pr \in prs : (pr.built => Buildable(pr.head)) /\ call.in.pr = pr
    BY <1>2 DEF MergeGroupCalls
<1>4. QED BY <1>3

\* GitHub lists a change up to its limit.
LEMMA ForkCallShape ==
    ASSUME CallIsMade, call.tool = "fork"
    PROVE  /\ call.in.changed \in Nat
           /\ call.in.changed <= FilesLimit => call.in.listed = call.in.files
<1>1. call \in CanaryCalls
    BY CallTools DEF CallIsMade
<1>2. call.in \in ForkCalls
    BY <1>1 DEF CanaryCalls, Calls
<1>3. QED BY <1>2 DEF ForkCalls, FilesLimit

\* What comes in past the required check was proved or reviewed, but for a pull
\* request whose check crashed: for any set of canary packages (canary.py,
\* fork_canary.py, canary.yml).
THEOREM AdmittedCorrect == Spec => []AdmittedIsProved
<1>1. Init => AdmittedIsProved
    BY DEF Init, AdmittedIsProved, GroupIsProved, ForkCopyIsReviewed, Answered
<1>2. CallIsMade /\ AdmittedIsProved /\ [Next]_toolVars => AdmittedIsProved'
    <2> SUFFICES ASSUME CallIsMade, AdmittedIsProved, [Next]_toolVars PROVE AdmittedIsProved'
        OBVIOUS
    <2>1. CASE answer' = answer \/ call.tool \notin {"merge-group", "fork"}
        BY <2>1, OneAnswer DEF AdmittedIsProved, GroupIsProved, ForkCopyIsReviewed, Answered
    <2>2. CASE answer' # answer /\ call.tool = "merge-group"
        <3> DEFINE g == call.in
        <3>1. /\ call' = call
              /\ answer'.is = [admitted |-> CanaryCheck(g.pr), proved |-> MergeGroupProved(g)]
            BY <2>2, OneAnswer
        <3>2. /\ g.pr.base = Tree({})
              /\ g.pr.built => Named \subseteq DOMAIN g.pr.head.lock.rows
            BY <2>2, GroupCallShape DEF Buildable
        <3>3. Named \subseteq DOMAIN g.pr.base.lock.rows
            BY <3>2 DEF Tree
        <3>4. GroupIsProved'
            BY <3>1, <3>2, <3>3, GroupStandsOnProof DEF GroupIsProved, ProvedSomewhere
        <3>5. QED BY <2>2, <3>1, <3>4 DEF AdmittedIsProved, ForkCopyIsReviewed, Answered
    <2>3. CASE answer' # answer /\ call.tool = "fork"
        <3>1. call' = call /\ answer'.is.copy = ForkDecision(call.in)
            BY <2>3, OneAnswer
        <3>2. ASSUME ForkDecision(call.in) = "copy"
              PROVE  call.in.head = call.in.reviewed /\ "workflow" \notin call.in.files
            BY <2>3, <3>2, ForkDecisionHolds, ForkCallShape DEF FilesLimit
        <3>3. ForkCopyIsReviewed'
            BY <3>1, <3>2 DEF ForkCopyIsReviewed
        <3>4. QED BY <2>3, <3>1, <3>3 DEF AdmittedIsProved, GroupIsProved, Answered
    <2>4. QED BY <2>1, <2>2, <2>3
<1>3. QED BY <1>1, <1>2, CallsStay, PTL DEF Spec

-----------------------------------------------------------------------------
(* Buildroot: the pin and the lock, and the root a run resolved.            *)

IsRoot(root) ==
    root = [dict |-> root.dict, image |-> root.image, listed |-> root.listed, nevras |-> root.nevras]

\* A tree as the program finds it: any pin file, any lock file with any roots.
IsRootTree(tree) ==
    /\ tree = [pin |-> tree.pin, lock |-> tree.lock]
    /\ tree.pin \in Seq(References)
    /\ IsLock(tree.lock) =>
          /\ tree.lock = [is |-> "lock", schema |-> tree.lock.schema, roots |-> tree.lock.roots]
          /\ tree.lock.roots = [r \in DOMAIN tree.lock.roots |-> tree.lock.roots[r]]
          /\ \A r \in DOMAIN tree.lock.roots : IsRoot(tree.lock.roots[r])

\* Between its two writes the tree is as it was, or validate.py refuses it.
LEMMA HalfMovedIsNoticed ==
    ASSUME NEW tree, IsRootTree(tree), ValidRoot(tree), NEW value
    PROVE  LET moved == [tree EXCEPT !.pin = <<value>>]
           IN  moved = tree \/ ~ValidRoot(moved)
<1> DEFINE moved == [tree EXCEPT !.pin = <<value>>]
<1>1. moved = [pin |-> <<value>>, lock |-> tree.lock]
    BY DEF IsRootTree
<1>2. Len(tree.pin) = 1 /\ tree.pin = <<tree.pin[1]>>
    BY DEF IsRootTree, ValidRoot, Parses
<1>3. PICK r \in DOMAIN tree.lock.roots : tree.lock.roots[r].image = tree.pin[1]
    BY DEF ValidRoot
<1>4. CASE value = tree.pin[1]
    BY <1>1, <1>2, <1>4 DEF IsRootTree
<1>5. CASE value # tree.pin[1]
    BY <1>1, <1>3, <1>5 DEF ValidRoot
<1>6. QED BY <1>4, <1>5

\* What the second write makes of a lock, and of a tree.
LEMMA RelockedIs ==
    ASSUME NEW schema, NEW roots, NEW value
    PROVE  Relocked([is |-> "lock", schema |-> schema, roots |-> roots], value)
               = [is |-> "lock", schema |-> schema,
                  roots |-> [r \in DOMAIN roots |-> [roots[r] EXCEPT !.image = value]]]
BY DEF Relocked, IsLock

\* After both, every root is the new pin.
LEMMA MovedIsValid ==
    ASSUME NEW tree, IsRootTree(tree), ValidRoot(tree), NEW value, IsMirrorPin(value)
    PROVE  LET moved == [tree EXCEPT !.pin = <<value>>]
               after == [moved EXCEPT !.lock = Relocked(tree.lock, value)]
           IN  ValidRoot(after) /\ after.pin = <<value>>
<1> DEFINE moved == [tree EXCEPT !.pin = <<value>>]
           after == [moved EXCEPT !.lock = Relocked(tree.lock, value)]
           roots == tree.lock.roots
           relocked == [r \in DOMAIN roots |-> [roots[r] EXCEPT !.image = value]]
<1>1. IsLock(tree.lock) /\ tree.lock.schema /\ DOMAIN roots # {}
    BY DEF ValidRoot, Loads
<1>2. Relocked(tree.lock, value) = [is |-> "lock", schema |-> tree.lock.schema, roots |-> relocked]
    <2>1. PICK schema, given : tree.lock = [is |-> "lock", schema |-> schema, roots |-> given]
        BY <1>1 DEF IsRootTree
    <2>2. QED BY <2>1, RelockedIs
<1>3. after = [pin |-> <<value>>, lock |-> Relocked(tree.lock, value)]
    <2>1. PICK lock : lock = Relocked(tree.lock, value)
        OBVIOUS
    <2>2. PICK pin, old : tree = [pin |-> pin, lock |-> old]
        BY DEF IsRootTree
    <2>3. moved = [pin |-> <<value>>, lock |-> old]
        BY <2>2
    <2> HIDE DEF moved
    <2>4. [moved EXCEPT !.lock = lock] = [pin |-> <<value>>, lock |-> lock]
        BY <2>3
    <2>5. QED BY <2>1, <2>4
<1>4. ASSUME NEW r \in DOMAIN roots
      PROVE  /\ relocked[r].dict = roots[r].dict /\ relocked[r].listed = roots[r].listed
             /\ relocked[r].nevras = roots[r].nevras /\ relocked[r].image = value
    <2>1. IsRoot(roots[r])
        BY <1>1 DEF IsRootTree
    <2>2. relocked[r] = [roots[r] EXCEPT !.image = value]
        OBVIOUS
    <2>3. QED BY <2>1, <2>2 DEF IsRoot
<1>5. \A r \in DOMAIN roots : roots[r].dict /\ roots[r].listed /\ roots[r].nevras
    BY DEF ValidRoot, Loads, Pinned
<1>6. /\ after.lock.is = "lock" /\ after.lock.schema /\ after.lock.roots = relocked
      /\ after.pin = <<value>> /\ Len(after.pin) = 1 /\ after.pin[1] = value
    BY <1>1, <1>2, <1>3
<1>7. Loads(after.lock)
    <2>1. ASSUME NEW r \in DOMAIN roots
          PROVE  Pinned(relocked[r]) /\ relocked[r].listed
        BY <1>4, <1>5 DEF Pinned, IsMirrorPin
    <2>2. DOMAIN relocked = DOMAIN roots
        OBVIOUS
    <2> HIDE DEF relocked, roots, after
    <2>3. QED BY <1>6, <2>1, <2>2 DEF Loads, IsLock
<1>8. Parses(after.pin)
    BY <1>6 DEF Parses
<1>9. \A r \in DOMAIN after.lock.roots : after.lock.roots[r].nevras /\ after.lock.roots[r].image = after.pin[1]
    <2>1. \A r \in DOMAIN roots : relocked[r].nevras /\ relocked[r].image = value
        BY <1>4, <1>5
    <2>2. DOMAIN relocked = DOMAIN roots
        OBVIOUS
    <2> HIDE DEF relocked, roots, after
    <2>3. QED BY <1>6, <2>1, <2>2
<1>10. QED BY <1>1, <1>6, <1>7, <1>8, <1>9 DEF ValidRoot

\* set_pin, ended after any of its writes.
LEMMA SetPinIsWhole ==
    ASSUME NEW tree, IsRootTree(tree), NEW value, NEW n \in DOMAIN SetPin(tree, value).trees
    PROVE  LET result == SetPin(tree, value)
               after == result.trees[n]
               exit == IF n = Len(result.trees) THEN result.exit ELSE 1
           IN  /\ exit # 0 => \/ after = tree
                              \/ n < Len(result.trees) /\ (ValidRoot(tree) => ~ValidRoot(after))
               /\ exit = 0 /\ ValidRoot(tree) => ValidRoot(after) /\ after.pin = <<value>>
<1> DEFINE readable == \/ tree.lock.is = "absent"
                       \/ IsLock(tree.lock) /\ \A r \in DOMAIN tree.lock.roots : tree.lock.roots[r].dict
           moved == [tree EXCEPT !.pin = <<value>>]
           done == [moved EXCEPT !.lock = Relocked(tree.lock, value)]
<1>1. CASE ~IsMirrorPin(value) \/ ~readable
    <2>1. SetPin(tree, value) = [exit |-> 1, trees |-> <<tree>>]
        BY <1>1 DEF SetPin
    <2>2. QED BY <2>1
<1>2. CASE IsMirrorPin(value) /\ readable /\ IsLock(tree.lock)
    <2>1. SetPin(tree, value) = [exit |-> 0, trees |-> <<tree, moved, done>>]
        BY <1>2 DEF SetPin
    <2>2. moved = tree \/ (ValidRoot(tree) => ~ValidRoot(moved))
        BY HalfMovedIsNoticed
    <2>3. ValidRoot(tree) => ValidRoot(done) /\ done.pin = <<value>>
        BY <1>2, MovedIsValid
    <2> HIDE DEF moved, done
    <2>4. n \in {1, 2, 3} /\ Len(<<tree, moved, done>>) = 3
        BY <2>1
    <2>5. QED BY <2>1, <2>2, <2>3, <2>4
<1>3. CASE IsMirrorPin(value) /\ readable /\ ~IsLock(tree.lock)
    <2>1. SetPin(tree, value) = [exit |-> 0, trees |-> <<tree, moved>>]
        BY <1>3 DEF SetPin
    <2>2. ~ValidRoot(tree)
        BY <1>3 DEF ValidRoot, Loads
    <2> HIDE DEF moved
    <2>3. n \in {1, 2} /\ Len(<<tree, moved>>) = 2
        BY <2>1
    <2>4. QED BY <2>1, <2>2, <2>3
<1>4. QED BY <1>1, <1>2, <1>3

\* What set and snapshot read.
LEMMA SetCallShape ==
    ASSUME CallIsMade, call.tool = "set"
    PROVE  IsRootTree(call.in.tree)
<1>1. call \in BuildrootCalls
    BY CallTools DEF CallIsMade
<1>2. call.in \in SetInputs
    BY <1>1 DEF BuildrootCalls, Calls
<1>3. PICK pin \in Pins, lock \in {[is |-> "absent"], [is |-> "garbage"]} \cup Locks :
          call.in.tree = [pin |-> pin, lock |-> lock]
    BY <1>2 DEF SetInputs
<1>4. pin \in Seq(References)
    <2>1. CASE \E r \in References : pin = <<r>>
        BY <2>1
    <2>2. CASE pin \in {<<>>, <<Mirror("old"), Mirror("new")>>}
        <3>1. Mirror("old") \in References /\ Mirror("new") \in References
            BY DEF Mirror, References
        <3>2. PICK a \in References : a = Mirror("old")
            BY <3>1
        <3>3. PICK b \in References : b = Mirror("new")
            BY <3>1
        <3>4. <<>> \in Seq(References) /\ <<a, b>> \in Seq(References)
            OBVIOUS
        <3>5. QED BY <2>2, <3>2, <3>3, <3>4
    <2>3. QED BY <2>1, <2>2 DEF Pins
<1>5. ASSUME NEW r \in Roots PROVE IsRoot(r)
    <2>1. CASE r \in [dict : {TRUE}, image : References, listed : BOOLEAN, nevras : BOOLEAN]
        BY <2>1 DEF IsRoot
    <2>2. CASE r \in [dict : {FALSE}, image : {Mirror("none")}, listed : {FALSE}, nevras : {FALSE}]
        BY <2>2 DEF IsRoot
    <2>3. QED BY <2>1, <2>2 DEF Roots
<1>6. ASSUME IsLock(lock)
      PROVE  /\ lock = [is |-> "lock", schema |-> lock.schema, roots |-> lock.roots]
             /\ lock.roots = [r \in DOMAIN lock.roots |-> lock.roots[r]]
             /\ \A r \in DOMAIN lock.roots : lock.roots[r] \in Roots
    <2>1. lock \in Locks
        BY <1>6 DEF IsLock
    <2>2. lock \in [is : {"lock"}, schema : BOOLEAN,
                    roots : [{"fedora"} -> Roots] \cup {<<>>} \cup [{"fedora", "second"} -> Roots]]
        BY <2>1 DEF Locks
    <2>3. PICK schema \in BOOLEAN,
               roots \in [{"fedora"} -> Roots] \cup {<<>>} \cup [{"fedora", "second"} -> Roots] :
              lock = [is |-> "lock", schema |-> schema, roots |-> roots]
        BY <2>2
    <2>4. /\ roots = [r \in DOMAIN roots |-> roots[r]]
          /\ \A r \in DOMAIN roots : roots[r] \in Roots
        <3>1. CASE roots \in [{"fedora"} -> Roots]
            BY <3>1
        <3>2. CASE roots \in [{"fedora", "second"} -> Roots]
            BY <3>2
        <3>3. CASE roots = <<>>
            BY <3>3
        <3>4. QED BY <2>3, <3>1, <3>2, <3>3
    <2>5. QED BY <2>3, <2>4
<1>7. QED BY <1>3, <1>4, <1>5, <1>6 DEF IsRootTree

\* A snapshot of some packages, against a locked image.
LEMMA SnapshotCallShape ==
    ASSUME CallIsMade, call.tool = "snapshot"
    PROVE  /\ call.in.locked = Mirror("old")
           /\ call.in.expected \subseteq RootPackages
           /\ \A p \in DOMAIN call.in.lines : call.in.lines[p] \in {"whole", "short", "cut", "lost"}
<1>1. call \in BuildrootCalls
    BY CallTools DEF CallIsMade
<1>2. call.in \in SnapshotInputs
    BY <1>1 DEF BuildrootCalls, Calls
<1>3. /\ call.in.locked = Mirror("old") /\ call.in.expected \in SUBSET RootPackages
      /\ call.in.lines \in UNION {[s -> {"whole", "short", "cut", "lost"}] : s \in SUBSET RootPackages}
    BY <1>2 DEF SnapshotInputs
<1>4. PICK s \in SUBSET RootPackages : call.in.lines \in [s -> {"whole", "short", "cut", "lost"}]
    BY <1>3
<1>5. QED BY <1>3, <1>4

\* What --strict passes over.
LEMMA StrictSnapshot ==
    ASSUME NEW in, in.locked.digest # "none", in.strict, CmdSnapshot(in).exit = 0
    PROVE  /\ in.resolved = in.locked.digest
           /\ Discarded(in.lines) = {}
           /\ in.expected # {} => Listed(in.lines) = {[name |-> p, whole |-> TRUE] : p \in in.expected}
<1>1. /\ ActualImage(in) = in.locked /\ Discarded(in.lines) = {}
      /\ in.expected # {} => ~Diverges(in)
    BY DEF CmdSnapshot
<1>2. in.resolved = in.locked.digest
    <2>1. CASE in.resolved = "none"
        <3>1. in.locked = [repo |-> "none", digest |-> "none"]
            BY <1>1, <2>1 DEF ActualImage
        <3>2. QED BY <3>1
    <2>2. CASE in.resolved # "none"
        <3>1. in.locked = [repo |-> in.locked.repo, digest |-> in.resolved]
            BY <1>1, <2>2 DEF ActualImage
        <3>2. PICK resolved : resolved = in.resolved
            OBVIOUS
        <3>3. in.locked.digest = resolved
            BY <3>1, <3>2
        <3>4. QED BY <3>2, <3>3
    <2>3. QED BY <2>1, <2>2
<1>3. QED BY <1>1, <1>2 DEF Diverges

\* Lines none of which was cut, and listed as what is expected.
LEMMA ExpectedAreRead ==
    ASSUME NEW lines, NEW expected, Discarded(lines) = {},
           Listed(lines) = {[name |-> p, whole |-> TRUE] : p \in expected},
           \A p \in DOMAIN lines : lines[p] \in {"whole", "short", "cut", "lost"}, NEW p
    PROVE  p \in expected <=> p \in DOMAIN lines /\ lines[p] # "lost"
<1>1. ASSUME p \in expected PROVE p \in DOMAIN lines /\ lines[p] # "lost"
    <2>1. [name |-> p, whole |-> TRUE] \in Listed(lines)
        BY <1>1
    <2>2. PICK q \in DOMAIN lines : /\ lines[q] \in {"whole", "short"}
                                    /\ [name |-> p, whole |-> TRUE] = [name |-> q, whole |-> lines[q] = "whole"]
        BY <2>1 DEF Listed
    <2>3. p = q
        BY <2>2
    <2>4. QED BY <2>2, <2>3
<1>2. ASSUME p \in DOMAIN lines, lines[p] # "lost" PROVE p \in expected
    <2>1. lines[p] \in {"whole", "short"}
        BY <1>2 DEF Discarded
    <2>2. [name |-> p, whole |-> lines[p] = "whole"] \in Listed(lines)
        BY <1>2, <2>1 DEF Listed
    <2>3. PICK q \in expected : [name |-> p, whole |-> lines[p] = "whole"] = [name |-> q, whole |-> TRUE]
        BY <2>2
    <2>4. p = q
        BY <2>3
    <2>5. QED BY <2>4
<1>3. QED BY <1>1, <1>2

\* So a strict snapshot that passes has read what was expected, and no more.
LEMMA StrictReads ==
    ASSUME NEW in, in.locked.digest # "none", in.strict, CmdSnapshot(in).exit = 0,
           \A p \in DOMAIN in.lines : in.lines[p] \in {"whole", "short", "cut", "lost"}
    PROVE  /\ in.resolved = in.locked.digest
           /\ in.expected # {} =>
                  \A p \in RootPackages : p \in in.expected
                      <=> p \in DOMAIN in.lines /\ in.lines[p] # "lost"
<1>1. /\ in.resolved = in.locked.digest /\ Discarded(in.lines) = {}
      /\ in.expected # {} => Listed(in.lines) = {[name |-> p, whole |-> TRUE] : p \in in.expected}
    BY StrictSnapshot
<1>2. ASSUME in.expected # {}, NEW p
      PROVE  p \in in.expected <=> p \in DOMAIN in.lines /\ in.lines[p] # "lost"
    <2>1. PICK lines : lines = in.lines
        OBVIOUS
    <2>2. PICK expected : expected = in.expected
        OBVIOUS
    <2>3. /\ Discarded(lines) = {}
          /\ Listed(lines) = {[name |-> q, whole |-> TRUE] : q \in expected}
          /\ \A q \in DOMAIN lines : lines[q] \in {"whole", "short", "cut", "lost"}
        BY <1>1, <1>2, <2>1, <2>2
    <2>4. p \in expected <=> p \in DOMAIN lines /\ lines[p] # "lost"
        BY <2>3, ExpectedAreRead
    <2>5. QED BY <2>1, <2>2, <2>4
<1>3. QED BY <1>1, <1>2

\* The pin, the lock and the root a run resolved are one root, or it is noticed,
\* whatever the two files hold (buildroot_pin.py: set_pin, buildroot_lock.py).
THEOREM RootCorrect == Spec => []RootIsThePin
<1>1. Init => RootIsThePin
    BY DEF Init, RootIsThePin, RootMovesWhole, StrictIsExact, Answered
<1>2. CallIsMade /\ RootIsThePin /\ [Next]_toolVars => RootIsThePin'
    <2> SUFFICES ASSUME CallIsMade, RootIsThePin, [Next]_toolVars PROVE RootIsThePin'
        OBVIOUS
    <2>1. CASE answer' = answer \/ call.tool \notin {"set", "snapshot"}
        BY <2>1, OneAnswer DEF RootIsThePin, RootMovesWhole, StrictIsExact, Answered
    <2>2. CASE answer' # answer /\ call.tool = "set"
        <3> DEFINE tree == call.in.tree
                   value == call.in.value
                   result == SetPin(tree, value)
        <3>1. PICK n \in DOMAIN result.trees :
                  /\ call' = call
                  /\ answer'.is = [exit |-> IF n = Len(result.trees) THEN result.exit ELSE 1,
                                   tree |-> result.trees[n], cut |-> n < Len(result.trees)]
            BY <2>2, OneAnswer
        <3>2. IsRootTree(tree)
            BY <2>2, SetCallShape
        <3> DEFINE after == result.trees[n]
                   exit == IF n = Len(result.trees) THEN result.exit ELSE 1
        <3>3. /\ exit # 0 => \/ after = tree
                             \/ n < Len(result.trees) /\ (ValidRoot(tree) => ~ValidRoot(after))
              /\ exit = 0 /\ ValidRoot(tree) => ValidRoot(after) /\ after.pin = <<value>>
            BY <3>2, SetPinIsWhole
        <3>4. /\ answer'.is.exit = exit /\ answer'.is.tree = after
              /\ answer'.is.cut <=> n < Len(result.trees)
            <4>1. PICK cut : cut = (n < Len(result.trees))
                BY Zenon
            <4>2. answer'.is = [exit |-> exit, tree |-> after, cut |-> cut]
                BY <3>1, <4>1, Zenon
            <4> HIDE DEF after, exit
            <4>3. answer'.is.exit = exit /\ answer'.is.tree = after /\ answer'.is.cut = cut
                BY <4>2
            <4>4. QED BY <4>1, <4>3, Zenon
        <3> HIDE DEF after, exit
        <3>5. RootMovesWhole'
            BY <3>1, <3>3, <3>4 DEF RootMovesWhole
        <3>6. QED BY <2>2, <3>1, <3>5 DEF RootIsThePin, StrictIsExact, Answered
    <2>3. CASE answer' # answer /\ call.tool = "snapshot"
        <3> DEFINE in == call.in
        <3>1. call' = call /\ answer'.is = CmdSnapshot(in)
            BY <2>3, OneAnswer
        <3>2. ASSUME in.strict, CmdSnapshot(in).exit = 0
              PROVE  /\ in.resolved = in.locked.digest
                     /\ in.expected # {} =>
                            \A p \in RootPackages : p \in in.expected
                                <=> p \in DOMAIN in.lines /\ in.lines[p] # "lost"
            BY <2>3, <3>2, SnapshotCallShape, StrictReads DEF Mirror
        <3>3. StrictIsExact'
            BY <3>1, <3>2 DEF StrictIsExact
        <3>4. QED BY <2>3, <3>1, <3>3 DEF RootIsThePin, RootMovesWhole, Answered
    <2>4. QED BY <2>1, <2>2, <2>3
<1>3. QED BY <1>1, <1>2, CallsStay, PTL DEF Spec

-----------------------------------------------------------------------------
(* Imports: one recipe and its lock, for any tree and any upload.           *)

\* n entries with names that can be compared.
IsNamed(locks, n) ==
    /\ DOMAIN locks = 1..n /\ Len(locks) = n
    /\ \A i \in 1..n : locks[i].name \in Nat

\* Every entry has a place of its own.
LEMMA PlacesApart ==
    ASSUME NEW n \in Nat, NEW locks, IsNamed(locks, n)
    PROVE  /\ \A i \in 1..n : PlaceInOrder(locks, i) \in 1..n
           /\ \A i, j \in 1..n : PlaceInOrder(locks, i) = PlaceInOrder(locks, j) => i = j
<1> DEFINE UpTo(i) == {j \in 1..n : \/ locks[j].name < locks[i].name
                                    \/ (locks[j].name = locks[i].name /\ j <= i)}
<1>1. IsFiniteSet(1..n) /\ Cardinality(1..n) = n
    BY FS_Interval
<1>2. \A i \in 1..n : PlaceInOrder(locks, i) = Cardinality(UpTo(i))
    BY DEF PlaceInOrder, IsNamed
<1>3. ASSUME NEW i \in 1..n PROVE IsFiniteSet(UpTo(i)) /\ Cardinality(UpTo(i)) \in 1..n /\ i \in UpTo(i)
    <2>1. UpTo(i) \subseteq 1..n /\ i \in UpTo(i)
        BY DEF IsNamed
    <2> HIDE DEF UpTo
    <2>2. IsFiniteSet(UpTo(i)) /\ Cardinality(UpTo(i)) <= n
        BY <1>1, <2>1, FS_Subset
    <2>3. Cardinality(UpTo(i)) \in Nat /\ Cardinality(UpTo(i)) # 0
        BY <2>1, <2>2, FS_CardinalityType, FS_EmptySet
    <2>4. QED BY <2>1, <2>2, <2>3
<1>4. ASSUME NEW i \in 1..n, NEW j \in 1..n, i # j,
             locks[i].name < locks[j].name \/ (locks[i].name = locks[j].name /\ i < j)
      PROVE  Cardinality(UpTo(i)) # Cardinality(UpTo(j))
    <2>1. UpTo(i) \subseteq UpTo(j)
        BY <1>4 DEF IsNamed
    <2>2. j \notin UpTo(i)
        BY <1>4 DEF IsNamed
    <2>3. IsFiniteSet(UpTo(j)) /\ j \in UpTo(j)
        BY <1>3
    <2> HIDE DEF UpTo
    <2>4. Cardinality(UpTo(i)) = Cardinality(UpTo(j)) => UpTo(i) = UpTo(j)
        BY <2>1, <2>3, FS_Subset
    <2>5. QED BY <2>2, <2>3, <2>4
<1>5. ASSUME NEW i \in 1..n, NEW j \in 1..n, PlaceInOrder(locks, i) = PlaceInOrder(locks, j)
      PROVE  i = j
    <2>1. SUFFICES ASSUME i # j PROVE FALSE
        OBVIOUS
    <2>2. Cardinality(UpTo(i)) = Cardinality(UpTo(j))
        BY <1>2, <1>5
    <2> HIDE DEF UpTo
    <2>3. CASE locks[i].name < locks[j].name \/ (locks[i].name = locks[j].name /\ i < j)
        BY <1>4, <2>1, <2>2, <2>3
    <2>4. CASE locks[j].name < locks[i].name \/ (locks[j].name = locks[i].name /\ j < i)
        BY <1>4, <2>1, <2>2, <2>4
    <2>5. QED BY <2>1, <2>3, <2>4 DEF IsNamed
<1> HIDE DEF UpTo
<1>6. QED BY <1>2, <1>3, <1>5

\* Sorting keeps every entry and makes none.
LEMMA OrderKeepsEntries ==
    ASSUME NEW n \in Nat, NEW locks, IsNamed(locks, n)
    PROVE  ToSet(LockOrdered(locks)) = ToSet(locks)
<1> DEFINE place == [i \in 1..n |-> PlaceInOrder(locks, i)]
           from(k) == CHOOSE i \in 1..n : PlaceInOrder(locks, i) = k
<1>1. LockOrdered(locks) = [k \in 1..n |-> locks[from(k)]]
    BY DEF LockOrdered, IsNamed
<1>2. place \in Injection(1..n, 1..n)
    BY PlacesApart DEF Injection, IsInjective
<1>3. place \in Surjection(1..n, 1..n)
    <2>1. IsFiniteSet(1..n)
        BY FS_Interval
    <2> HIDE DEF place
    <2>2. QED BY <1>2, <2>1, FS_Injection
<1>4. ASSUME NEW k \in 1..n PROVE from(k) \in 1..n
    <2>1. \E i \in 1..n : PlaceInOrder(locks, i) = k
        BY <1>3 DEF Surjection
    <2>2. QED BY <2>1
<1>5. ASSUME NEW i \in 1..n PROVE \E k \in 1..n : from(k) = i
    <2>1. PICK k \in 1..n : k = PlaceInOrder(locks, i)
        BY PlacesApart
    <2>2. from(k) \in 1..n /\ PlaceInOrder(locks, from(k)) = k
        BY <2>1
    <2>3. from(k) = i
        BY <2>1, <2>2, PlacesApart
    <2>4. QED BY <2>3
<1>6. PICK ordered : ordered = [k \in 1..n |-> locks[from(k)]]
    OBVIOUS
<1> HIDE DEF from
<1>7. DOMAIN ordered = 1..n /\ \A k \in 1..n : ordered[k] = locks[from(k)]
    BY <1>6
<1>8. ASSUME NEW e PROVE (\E k \in 1..n : e = ordered[k]) <=> (\E i \in 1..n : e = locks[i])
    <2>1. ASSUME NEW k \in 1..n, e = ordered[k] PROVE \E i \in 1..n : e = locks[i]
        BY <1>4, <1>7, <2>1
    <2>2. ASSUME NEW i \in 1..n, e = locks[i] PROVE \E k \in 1..n : e = ordered[k]
        BY <1>5, <1>7, <2>2
    <2>3. QED BY <2>1, <2>2
<1>9. ToSet(ordered) = ToSet(locks)
    <2>1. \A e : e \in ToSet(ordered) <=> \E k \in 1..n : e = ordered[k]
        BY <1>7 DEF ToSet
    <2>2. \A e : e \in ToSet(locks) <=> \E i \in 1..n : e = locks[i]
        BY DEF ToSet, IsNamed
    <2>3. \A e : e \in ToSet(ordered) <=> e \in ToSet(locks)
        BY <1>8, <2>1, <2>2, Zenon
    <2>4. QED BY <2>3
<1>10. LockOrdered(locks) = ordered
    BY <1>1, <1>6
<1>11. QED BY <1>9, <1>10, Zenon

\* A sequence of entries with names that can be compared.
IsLocks(locks) == \E S : locks \in Seq(S) /\ \A e \in S : e.name \in Nat

IsTree(tree) ==
    /\ tree = [recipes |-> tree.recipes, locks |-> tree.locks, packit |-> tree.packit,
               baseline |-> tree.baseline, reviewOnly |-> tree.reviewOnly]
    /\ IsLocks(tree.locks)

\* The parts of two sequences in a row.
LEMMA InARow ==
    ASSUME NEW S, NEW s \in Seq(S), NEW t \in Seq(S)
    PROVE  /\ s \o t \in Seq(S)
           /\ Len(s \o t) = Len(s) + Len(t)
           /\ \A i \in 1..Len(s) + Len(t) :
                  (s \o t)[i] = IF i <= Len(s) THEN s[i] ELSE t[i - Len(s)]
    BY ConcatProperties

\* What a merge of one candidate makes of the lock.
LEMMA MergedLocks ==
    ASSUME NEW locks, IsLocks(locks), NEW candidates, IsLocks(candidates), Len(candidates) = 1,
           MergeCandidates(locks, candidates).ok
    PROVE  /\ ToSet(MergeCandidates(locks, candidates).locks) = ToSet(locks) \cup {candidates[1]}
           /\ \A e \in ToSet(locks) : e.name # candidates[1].name
<1> DEFINE both == locks \o candidates
           n == Len(locks)
           m == Len(candidates)
<1>0. PICK S : locks \in Seq(S) /\ candidates \in Seq(S) /\ \A e \in S : e.name \in Nat
    <2>1. PICK S1, S2 : /\ locks \in Seq(S1) /\ candidates \in Seq(S2)
                        /\ \A e \in S1 \cup S2 : e.name \in Nat
        BY DEF IsLocks
    <2>2. locks \in Seq(S1 \cup S2) /\ candidates \in Seq(S1 \cup S2)
        BY <2>1
    <2>3. QED BY <2>1, <2>2
<1>1. n \in Nat /\ locks \in [1..n -> S] /\ candidates \in [1..1 -> S]
    BY <1>0, LenProperties, Zenon
<1>2. /\ both \in Seq(S) /\ Len(both) = n + 1
      /\ \A i \in 1..(n + 1) : both[i] = IF i <= n THEN locks[i] ELSE candidates[i - n]
    <2>0. locks \in Seq(S) /\ candidates \in Seq(S)
        BY <1>0
    <2>1. /\ both \in Seq(S) /\ Len(both) = n + m
          /\ \A i \in 1..n + m : both[i] = IF i <= n THEN locks[i] ELSE candidates[i - n]
        BY <2>0, InARow, SMTT(30)
    <2> HIDE DEF both, n
    <2>2. n + m = n + 1
        OBVIOUS
    <2>3. QED BY <2>1, <2>2, Zenon
<1>3. /\ \A i \in 1..n : both[i] = locks[i]
      /\ both[n + 1] = candidates[1]
    <2> HIDE DEF both
    <2>2. (n + 1) - n = 1 /\ n + 1 \in 1..(n + 1) /\ ~(n + 1 <= n)
        BY <1>1
    <2>3. both[n + 1] = candidates[1]
        BY <1>2, <2>2
    <2>4. \A i \in 1..n : i \in 1..(n + 1) /\ i <= n
        BY <1>1
    <2>5. QED BY <1>2, <2>3, <2>4
<1>4. DOMAIN both = 1..(n + 1) /\ \A i \in 1..(n + 1) : both[i] \in S
    BY <1>2
<1>5. IsNamed(both, n + 1)
    BY <1>0, <1>2, <1>4 DEF IsNamed
<1>6. ToSet(LockOrdered(both)) = ToSet(both)
    BY <1>1, <1>5, OrderKeepsEntries
<1>7. ToSet(both) = ToSet(locks) \cup {candidates[1]}
    <2> HIDE DEF both
    <2>1. ASSUME NEW e \in ToSet(both) PROVE e \in ToSet(locks) \cup {candidates[1]}
        <3>1. PICK i \in 1..(n + 1) : e = both[i]
            BY <1>4 DEF ToSet
        <3>2. CASE i = n + 1
            BY <1>3, <3>1, <3>2
        <3>3. CASE i # n + 1
            <4>1. i \in 1..n /\ e = locks[i]
                BY <1>1, <1>3, <3>1, <3>3
            <4>2. QED BY <1>1, <4>1 DEF ToSet
        <3>4. QED BY <3>2, <3>3
    <2>2. ASSUME NEW e \in ToSet(locks) PROVE e \in ToSet(both)
        <3>1. PICK i \in 1..n : e = locks[i]
            BY <1>1 DEF ToSet
        <3>2. i \in 1..(n + 1) /\ e = both[i]
            BY <1>1, <1>3, <3>1
        <3>3. QED BY <1>4, <3>2 DEF ToSet
    <2>3. candidates[1] \in ToSet(both)
        <3>1. n + 1 \in 1..(n + 1)
            BY <1>1
        <3>2. QED BY <1>3, <1>4, <3>1 DEF ToSet
    <2>4. QED BY <2>1, <2>2, <2>3
<1>8. MergeCandidates(locks, candidates).locks = LockOrdered(both)
    BY DEF MergeCandidates
<1>9. ASSUME NEW e \in ToSet(locks) PROVE e.name # candidates[1].name
    <2>1. {f.name : f \in ToSet(locks)} \cap {f.name : f \in ToSet(candidates)} = {}
        BY DEF MergeCandidates
    <2>2. candidates[1] \in ToSet(candidates)
        BY <1>1 DEF ToSet
    <2>3. QED BY <2>1, <2>2
<1> HIDE DEF both
<1>10. QED BY <1>6, <1>7, <1>8, <1>9

\* What a proposal that is opened changes.
LEMMA ProposalAddsOne ==
    ASSUME NEW tree, IsTree(tree), NEW artifact, IsLocks(artifact.candidates), NEW package,
           NEW is, is = Proposal(tree, artifact, package), is.opened
    PROVE  /\ Validates(is.tree)
           /\ Names(is.tree) \ Names(tree) = {package}
           /\ \A p \in Names(tree) : is.tree.recipes[p] = tree.recipes[p]
           /\ ToSet(is.tree.locks) = ToSet(tree.locks) \cup {artifact.candidates[1]}
           /\ \A e \in ToSet(tree.locks) : e.name # package
           /\ artifact.candidates[1].name = package
<1> DEFINE restored == Restore(tree, artifact, package)
           after == Render(restored)
           recipes == [p \in Names(tree) \cup {package} |->
                          IF p = package THEN artifact.recipes[p] ELSE tree.recipes[p]]
           locks == MergeCandidates(tree.locks, artifact.candidates).locks
<1>1. /\ Restorable(tree, artifact, package) /\ Validates(after)
      /\ is.tree = after
    <2>1. CASE ~Restorable(tree, artifact, package)
        BY <2>1 DEF Proposal, Refused
    <2>2. CASE Restorable(tree, artifact, package) /\ ~Validates(after)
        BY <2>2 DEF Proposal, Refused
    <2>3. CASE Restorable(tree, artifact, package) /\ Validates(after)
        BY <2>3 DEF Proposal
    <2>4. QED BY <2>1, <2>2, <2>3
<1>2. after.recipes = recipes /\ after.locks = locks
    <2>1. PICK r, l : r = recipes /\ l = locks
        OBVIOUS
    <2> HIDE DEF recipes, locks
    <2>2. restored = [tree EXCEPT !.recipes = r, !.locks = l]
        BY <2>1 DEF Restore, recipes, locks
    <2>3. restored.recipes = r /\ restored.locks = l
        BY <2>2 DEF IsTree
    <2>4. after.recipes = restored.recipes /\ after.locks = restored.locks
        <3>1. PICK names : names = Names(restored)
            OBVIOUS
        <3>2. after = [restored EXCEPT !.packit = names]
            BY <3>1 DEF Render
        <3> HIDE DEF restored, after
        <3>3. QED BY <3>2
    <2>5. QED BY <2>1, <2>3, <2>4
<1>3. /\ package \notin Names(tree) /\ Len(artifact.candidates) = 1
      /\ artifact.candidates[1].name = package
      /\ MergeCandidates(tree.locks, artifact.candidates).ok
    BY <1>1 DEF Restorable
<1>4. /\ ToSet(locks) = ToSet(tree.locks) \cup {artifact.candidates[1]}
      /\ \A e \in ToSet(tree.locks) : e.name # package
    BY <1>3, MergedLocks DEF IsTree
<1>5. Names(after) = Names(tree) \cup {package}
    BY <1>2 DEF Names
<1>6. \A p \in Names(tree) : recipes[p] = tree.recipes[p]
    BY <1>3
<1> HIDE DEF after, recipes, locks
<1>7. QED BY <1>1, <1>2, <1>3, <1>4, <1>5, <1>6

\* The one candidate of a source is of bytes that were proved.
LEMMA CandidatesAreProved ==
    ASSUME NEW name, NEW recipe, NEW source, Candidates(name, recipe, source) # {}
    PROVE  \E host : /\ Candidates(name, recipe, source) = {Entry(name, host, source.served[1])}
                     /\ host \in {"none", source.at}
                     /\ PinHolds(source)
                     /\ IF source.kind = "generated" THEN source.served[2] = source.served[1]
                        ELSE host = source.at /\ source.at \in {"upstream", "plain"}
<1>1. CASE recipe.specs # 1
    <2>1. Candidates(name, recipe, source) = {}
        BY <1>1, Zenon DEF Candidates
    <2>2. QED BY <2>1
<1>2. CASE recipe.specs = 1 /\ source.kind = "generated"
    <2>1. Candidates(name, recipe, source) =
              IF ProveGenerated(source) THEN {Entry(name, "none", source.served[1])} ELSE {}
        BY <1>2, Zenon DEF Candidates
    <2>2. ProveGenerated(source)
        BY <2>1
    <2>3. QED BY <1>2, <2>1, <2>2 DEF ProveGenerated
<1>3. CASE recipe.specs = 1 /\ source.kind # "generated"
    <2> DEFINE good == source.at \in {"upstream", "plain"} /\ source.served[1] # "down" /\ PinHolds(source)
    <2>1. Candidates(name, recipe, source) =
              IF good THEN {Entry(name, source.at, source.served[1])} ELSE {}
        BY <1>3, Zenon DEF Candidates
    <2>2. good
        BY <2>1
    <2>3. QED BY <1>3, <2>1, <2>2
<1>4. QED BY <1>1, <1>2, <1>3

\* A set of one, as a sequence.
LEMMA SequenceOfOne ==
    ASSUME NEW e, NEW S, e \in S
    PROVE  SetToSeq({e}) \in Seq(S) /\ SetToSeq({e})[1] = e /\ SetToSeq({e}) = <<e>>
<1>1. Cardinality({e}) = 1
    BY FS_Singleton
<1>2. PICK one : one = [i \in 1..1 |-> e]
    OBVIOUS
<1>3. one \in [1..1 -> {e}] /\ IsInjective(one)
    BY <1>2 DEF IsInjective
<1>4. SetToSeq({e}) = CHOOSE f \in [1..1 -> {e}] : IsInjective(f)
    BY <1>1 DEF SetToSeq
<1>5. PICK sequence : sequence = SetToSeq({e})
    OBVIOUS
<1>6. sequence \in [1..1 -> {e}]
    BY <1>3, <1>4, <1>5
<1>7. sequence \in Seq(S) /\ sequence[1] = e
    <2>1. PICK n \in Nat : n = 1
        OBVIOUS
    <2>2. sequence \in [1..n -> S] /\ sequence[n] = e
        BY <1>6, <2>1
    <2>3. sequence \in Seq(S)
        BY <2>2
    <2>4. QED BY <2>1, <2>2, <2>3
<1>8. sequence = <<e>>
    <2>1. PICK n \in Nat : n = 1
        OBVIOUS
    <2>2. sequence = [i \in 1..n |-> e]
        BY <1>6, <2>1
    <2>3. <<e>> = [i \in 1..n |-> e]
        BY <2>1
    <2>4. QED BY <2>2, <2>3
<1>9. QED BY <1>5, <1>7, <1>8

\* An import that is opened locks what was proved.
LEMMA ImportLocksIt ==
    ASSUME NEW tree, IsTree(tree), NEW package \in Nat, NEW recipe, NEW source,
           ImportPackage(tree, package, recipe, source).opened
    PROVE  LET after == ImportPackage(tree, package, recipe, source).tree
               entry == CHOOSE e \in ToSet(after.locks) : e.name = package
           IN  /\ entry.digest = source.served[1] /\ source.pin \in {"none", entry.digest}
               /\ IF source.kind = "generated" THEN source.served[2] = entry.digest
                  ELSE source.at = "upstream"
<1> DEFINE found == Candidates(package, recipe, source)
           artifact == [shape |-> TRUE, recipes |-> [p \in {package} |-> recipe],
                        candidates |-> SetToSeq(found), accepted |-> TRUE]
           after == Proposal(tree, artifact, package).tree
           entry == CHOOSE e \in ToSet(after.locks) : e.name = package
<1>1. /\ found # {} /\ Proposal(tree, artifact, package).opened
      /\ ImportPackage(tree, package, recipe, source).tree = after
    <2>1. CASE package \in Names(tree) \/ found = {}
        BY <2>1 DEF ImportPackage, Refused
    <2>2. CASE ~(package \in Names(tree) \/ found = {})
        BY <2>2 DEF ImportPackage
    <2>3. QED BY <2>1, <2>2
<1>2. PICK host : /\ found = {Entry(package, host, source.served[1])}
                  /\ host \in {"none", source.at}
                  /\ PinHolds(source)
                  /\ IF source.kind = "generated" THEN source.served[2] = source.served[1]
                     ELSE host = source.at /\ source.at \in {"upstream", "plain"}
    BY <1>1, CandidatesAreProved
<1>3. PICK mine : mine = Entry(package, host, source.served[1])
    OBVIOUS
<1>4. /\ mine.name = package /\ mine.host = host
      /\ mine.digest = source.served[1]
    BY <1>3 DEF Entry
<1>5. IsLocks(SetToSeq(found)) /\ SetToSeq(found)[1] = mine
    <2>1. SetToSeq(found) \in Seq({mine}) /\ SetToSeq(found)[1] = mine
        BY <1>2, <1>3, SequenceOfOne
    <2>2. QED BY <1>4, <2>1 DEF IsLocks
<1>6. artifact.candidates = SetToSeq(found)
    OBVIOUS
<1> HIDE DEF found, artifact
<1>7. /\ Validates(after)
      /\ ToSet(after.locks) = ToSet(tree.locks) \cup {artifact.candidates[1]}
      /\ \A e \in ToSet(tree.locks) : e.name # package
    <2>1. PICK upload : upload = artifact
        OBVIOUS
    <2>2. PICK is : is = Proposal(tree, upload, package)
        OBVIOUS
    <2>3. IsLocks(upload.candidates) /\ is.opened /\ is.tree = after
        BY <1>1, <1>5, <1>6, <2>1, <2>2
    <2> HIDE DEF after
    <2>4. QED BY <2>1, <2>2, <2>3, ProposalAddsOne
<1> HIDE DEF after
<1>8. ToSet(after.locks) = ToSet(tree.locks) \cup {mine}
    BY <1>5, <1>6, <1>7
<1>9. entry = mine
    <2>1. \E e \in ToSet(after.locks) : e.name = package
        BY <1>4, <1>8
    <2>2. entry \in ToSet(after.locks) /\ entry.name = package
        BY <2>1
    <2> HIDE DEF entry
    <2>3. QED BY <1>7, <1>8, <2>2
<1>10. host # "plain"
    BY <1>4, <1>7, <1>8 DEF Validates, NothingPlaintext
<1> HIDE DEF entry
<1>11. /\ entry.digest = source.served[1] /\ source.pin \in {"none", entry.digest}
       /\ IF source.kind = "generated" THEN source.served[2] = entry.digest ELSE source.at = "upstream"
    BY <1>2, <1>4, <1>9, <1>10 DEF PinHolds
<1>12. QED BY <1>1, <1>11 DEF entry

\* The trees of the calls.
LEMMA TreesAreTrees == \A tree \in GoodTrees \cup BadTrees : IsTree(tree)
<1>1. ASSUME NEW names \in Seq(Nat)
      PROVE  IsTree(TreeWith(names))
    <2>1. PICK recipes, locks :
              /\ TreeWith(names) = [recipes |-> recipes, locks |-> locks, packit |-> {2, 5},
                                    baseline |-> {5}, reviewOnly |-> {2}]
              /\ locks = [i \in DOMAIN names |-> Entry(names[i], IF names[i] = 5 THEN "fedora" ELSE "upstream", "x")]
        BY DEF TreeWith
    <2>2. IsLocks(locks)
        <3>1. PICK n \in Nat : DOMAIN names = 1..n /\ \A i \in 1..n : names[i] \in Nat
            BY LenProperties
        <3>2. locks = [i \in 1..n |-> Entry(names[i], IF names[i] = 5 THEN "fedora" ELSE "upstream", "x")]
            BY <2>1, <3>1
        <3>3. \A i \in 1..n : locks[i].name = names[i]
            BY <3>2 DEF Entry
        <3>4. PICK S : S = {locks[i] : i \in 1..n}
            OBVIOUS
        <3>5. locks \in [1..n -> S] /\ \A e \in S : e.name \in Nat
            BY <3>1, <3>2, <3>3, <3>4
        <3>6. QED BY <3>5 DEF IsLocks
    <2>3. QED BY <2>1, <2>2 DEF IsTree
<1>2. TreeWith(<<2, 5>>) \in GoodTrees
    BY DEF GoodTrees
<1>3. \A tree \in GoodTrees : IsTree(tree)
    <2>1. <<2, 5>> \in Seq(Nat) /\ <<2, 4, 5>> \in Seq(Nat)
        OBVIOUS
    <2>2. QED BY <1>1, <2>1 DEF GoodTrees
<1>4. IsTree(TreeWith(<<5, 2>>)) /\ IsTree(TreeWith(<<2, 4, 4, 5>>)) /\ IsTree(TreeWith(<<2>>))
    <2>1. <<5, 2>> \in Seq(Nat) /\ <<2, 4, 4, 5>> \in Seq(Nat) /\ <<2>> \in Seq(Nat)
        OBVIOUS
    <2>2. QED BY <1>1, <2>1
<1>5. PICK tree : tree = TreeWith(<<2, 5>>) /\ IsTree(tree)
    BY <1>2, <1>3
<1>6. PICK recipes, locks, packit, baseline, reviewOnly :
          /\ tree = [recipes |-> recipes, locks |-> locks, packit |-> packit,
                     baseline |-> baseline, reviewOnly |-> reviewOnly]
          /\ IsLocks(locks)
    BY <1>5 DEF IsTree
<1>7. ASSUME NEW r, NEW b, NEW o, NEW other,
             other = [recipes |-> r, locks |-> locks, packit |-> packit, baseline |-> b, reviewOnly |-> o]
      PROVE  IsTree(other)
    BY <1>6, <1>7 DEF IsTree
<1>8. \A bad \in BadTrees : IsTree(bad)
    <2>1. PICK one : one = [tree EXCEPT !.baseline = {}]
        OBVIOUS
    <2>2. PICK two : two = [tree EXCEPT !.reviewOnly = {3}]
        OBVIOUS
    <2>3. PICK three : three = [tree EXCEPT !.recipes[2].suppressed = [defined |-> 0, masked |-> 1]]
        OBVIOUS
    <2>4. one = [recipes |-> recipes, locks |-> locks, packit |-> packit, baseline |-> {}, reviewOnly |-> reviewOnly]
        BY <1>6, <2>1
    <2>5. two = [recipes |-> recipes, locks |-> locks, packit |-> packit, baseline |-> baseline, reviewOnly |-> {3}]
        BY <1>6, <2>2
    <2>6. PICK changed : changed = [recipes EXCEPT ![2].suppressed = [defined |-> 0, masked |-> 1]]
        OBVIOUS
    <2>7. three = [recipes |-> changed, locks |-> locks, packit |-> packit,
                   baseline |-> baseline, reviewOnly |-> reviewOnly]
        BY <1>6, <2>3, <2>6
    <2>8. IsTree(one) /\ IsTree(two) /\ IsTree(three)
        BY <1>7, <2>4, <2>5, <2>7
    <2>9. \A bad \in BadTrees : \/ bad \in {TreeWith(<<5, 2>>), TreeWith(<<2, 4, 4, 5>>), TreeWith(<<2>>)}
                                 \/ bad \in {one, two, three}
        BY <1>5, <2>1, <2>2, <2>3 DEF BadTrees
    <2>10. QED BY <1>4, <2>8, <2>9
<1>9. QED BY <1>3, <1>8

\* What an import, and a restore, is called with.
LEMMA ImportCallShape ==
    ASSUME CallIsMade, call.tool = "imports"
    PROVE  /\ IsTree(call.in.tree)
           /\ \A i \in DOMAIN call.in.imports :
                  call.in.imports[i].package \in Nat
<1>1. call \in ImportsCalls
    BY CallTools DEF CallIsMade
<1>2. call.in \in ImportInputs
    BY <1>1 DEF ImportsCalls, Calls
<1> DEFINE trees == GoodTrees \cup BadTrees
           recipes == {<<i>> : i \in [package : {1, 4}, recipe : ImportRecipes, source : {Upstreams("x")}]}
           sources == {<<i>> : i \in [package : {4}, recipe : {Recipe(4)}, source : ImportSources]}
           pairs == PlainImports({1, 3, 4}) \X PlainImports({1, 3, 4, 6})
           IsImport(i) == i.package \in Nat
<1>3. call.in.tree \in trees /\ call.in.imports \in recipes \cup sources \cup pairs
    <2> HIDE DEF recipes, sources, pairs
    <2>1. call.in \in [tree : trees, imports : recipes] \cup [tree : trees, imports : sources]
                           \cup [tree : GoodTrees, imports : pairs]
        BY <1>2 DEF ImportInputs, recipes, sources, pairs
    <2>2. QED BY <2>1
<1>5. ASSUME call.in.imports \in recipes
      PROVE  \A i \in DOMAIN call.in.imports : IsImport(call.in.imports[i])
    <2>1. PICK i \in [package : {1, 4}, recipe : ImportRecipes, source : {Upstreams("x")}] :
              call.in.imports = <<i>>
        BY <1>5
    <2>2. IsImport(i)
        OBVIOUS
    <2>3. QED BY <2>1, <2>2
<1>6. ASSUME call.in.imports \in sources
      PROVE  \A i \in DOMAIN call.in.imports : IsImport(call.in.imports[i])
    <2>1. PICK i \in [package : {4}, recipe : {Recipe(4)}, source : ImportSources] :
              call.in.imports = <<i>>
        BY <1>6
    <2>2. IsImport(i)
        OBVIOUS
    <2>3. QED BY <2>1, <2>2
<1>7. ASSUME call.in.imports \in pairs
      PROVE  \A i \in DOMAIN call.in.imports : IsImport(call.in.imports[i])
    <2>1. PICK i \in PlainImports({1, 3, 4}), j \in PlainImports({1, 3, 4, 6}) :
              call.in.imports = <<i, j>>
        BY <1>7
    <2>2. IsImport(i) /\ IsImport(j)
        BY DEF PlainImports
    <2>3. QED BY <2>1, <2>2
<1> HIDE DEF trees, recipes, sources, pairs
<1>8. IsTree(call.in.tree)
    BY <1>3, TreesAreTrees DEF trees
<1>9. QED BY <1>3, <1>5, <1>6, <1>7, <1>8

\* The same for what is restored.
LEMMA RestoreCallShape ==
    ASSUME CallIsMade, call.tool = "restore"
    PROVE  IsTree(call.in.tree) /\ IsLocks(call.in.artifact.candidates)
<1>1. call \in ImportsCalls
    BY CallTools DEF CallIsMade
<1>2. call.in \in RestoreInputs
    BY <1>1 DEF ImportsCalls, Calls
<1>3. call.in.tree \in GoodTrees \cup BadTrees /\ call.in.artifact \in Artifacts
    BY <1>2 DEF RestoreInputs
<1>4. PICK candidates : candidates = call.in.artifact.candidates
    OBVIOUS
<1>5. \/ candidates = <<>>
      \/ \E p \in {1, 2, 4}, h \in {"upstream", "plain", "fedora"} : candidates = <<Entry(p, h, "y")>>
      \/ \E p \in {1, 4} : candidates = <<Entry(1, "upstream", "y"), Entry(p, "upstream", "y")>>
    BY <1>3, <1>4 DEF Artifacts
<1>6. ASSUME NEW p \in Nat, NEW h PROVE Entry(p, h, "y").name \in Nat
    BY DEF Entry
<1>7. IsLocks(candidates)
    <2>1. CASE candidates = <<>>
        <3>1. candidates \in Seq({})
            BY <2>1
        <3>2. QED BY <3>1 DEF IsLocks
    <2>2. ASSUME NEW p \in {1, 2, 4}, NEW h, candidates = <<Entry(p, h, "y")>>
          PROVE  IsLocks(candidates)
        <3>1. PICK e : e = Entry(p, h, "y") /\ e.name \in Nat
            BY <1>6
        <3>2. candidates \in Seq({e})
            BY <2>2, <3>1
        <3>3. QED BY <3>1, <3>2 DEF IsLocks
    <2>3. ASSUME NEW p \in {1, 4}, candidates = <<Entry(1, "upstream", "y"), Entry(p, "upstream", "y")>>
          PROVE  IsLocks(candidates)
        <3>1. PICK d, e : /\ d = Entry(1, "upstream", "y") /\ d.name \in Nat
                          /\ e = Entry(p, "upstream", "y") /\ e.name \in Nat
            BY <1>6
        <3>2. candidates \in Seq({d, e})
            BY <2>3, <3>1
        <3>3. QED BY <3>1, <3>2 DEF IsLocks
    <2>4. QED BY <1>5, <2>1, <2>2, <2>3
<1>8. QED BY <1>3, <1>4, <1>7, TreesAreTrees

\* The entry of every import that is opened is of bytes that were proved.
ProvenBytes(imports, is) ==
    \A i \in DOMAIN is :
        is[i].opened =>
            LET source == imports[i].source
                entry == CHOOSE e \in ToSet(is[i].tree.locks) : e.name = imports[i].package
            IN  /\ entry.digest = source.served[1] /\ source.pin \in {"none", entry.digest}
                /\ IF source.kind = "generated" THEN source.served[2] = entry.digest ELSE source.at = "upstream"

\* A proposal is one new recipe and its lock, of bytes that were proved, for any
\* upload (bootstrap_upstream_sources.py, import_proposal.py).
THEOREM ImportsCorrect == Spec => []ImportIsItsOwn
<1>1. Init => ImportIsItsOwn
    BY DEF Init, ImportIsItsOwn, ImportAddsOnlyItself, ImportLocksProvenBytes, Answered
<1>2. CallIsMade /\ ImportIsItsOwn /\ [Next]_toolVars => ImportIsItsOwn'
    <2> SUFFICES ASSUME CallIsMade, ImportIsItsOwn, [Next]_toolVars PROVE ImportIsItsOwn'
        OBVIOUS
    <2>0. call' = call
        BY OneAnswer
    <2>5. (Answered("imports")' => ProvenBytes(call'.in.imports, answer'.is)) => ImportLocksProvenBytes'
        BY DEF ImportLocksProvenBytes, ProvenBytes
    <2>1. CASE answer' = answer \/ call.tool \notin {"imports", "restore"}
        <3>1. CASE answer' = answer
            <4>1. ImportAddsOnlyItself'
                BY <2>0, <3>1 DEF ImportIsItsOwn, ImportAddsOnlyItself, Answered
            <4>2. ImportLocksProvenBytes'
                <5>1. ImportLocksProvenBytes =>
                          (Answered("imports") => ProvenBytes(call.in.imports, answer.is))
                    BY DEF ImportLocksProvenBytes, ProvenBytes
                <5>2. QED BY <2>0, <3>1, <2>5, <5>1, Zenon DEF ImportIsItsOwn, Answered
            <4>3. QED BY <4>1, <4>2 DEF ImportIsItsOwn
        <3>2. CASE call.tool \notin {"imports", "restore"}
            <4>1. call'.tool # "imports" /\ call'.tool # "restore"
                BY <2>0, <3>2
            <4>2. QED BY <4>1, Zenon DEF ImportIsItsOwn, ImportAddsOnlyItself, ImportLocksProvenBytes, Answered
        <3>3. QED BY <2>1, <3>1, <3>2
    <2>2. CASE answer' # answer /\ call.tool = "restore"
        <3>1. PICK is, tree, artifact, package :
                  /\ is = Proposal(tree, artifact, package) /\ tree = call.in.tree
                  /\ artifact = call.in.artifact /\ package = call.in.package
            OBVIOUS
        <3>2. answer'.is = is
            BY <2>2, <3>1, OneAnswer
        <3>3. IsTree(tree) /\ IsLocks(artifact.candidates)
            BY <2>2, <3>1, RestoreCallShape
        <3>4. ASSUME is.opened
              PROVE  /\ Validates(is.tree)
                     /\ Names(is.tree) \ Names(tree) = {package}
                     /\ \A p \in Names(tree) : is.tree.recipes[p] = tree.recipes[p]
                     /\ ToSet(is.tree.locks) = ToSet(tree.locks) \cup {artifact.candidates[1]}
                     /\ \A e \in ToSet(tree.locks) : e.name # package
                     /\ artifact.candidates[1].name = package
            <4>1. is = Proposal(tree, artifact, package)
                BY <3>1
            <4>2. QED BY <3>3, <3>4, <4>1, ProposalAddsOne
        <3>5. ASSUME is.opened
              PROVE  /\ ToSet(tree.locks) = {e \in ToSet(is.tree.locks) : e.name # package}
                     /\ package \notin LockNames(tree)
            BY <3>4, <3>5 DEF LockNames
        <3>6. ImportAddsOnlyItself'
            BY <2>0, <3>1, <3>2, <3>4, <3>5 DEF ImportAddsOnlyItself
        <3>7. call'.tool # "imports"
            BY <2>0, <2>2
        <3>8. QED BY <3>6, <3>7, Zenon DEF ImportIsItsOwn, ImportLocksProvenBytes, Answered
    <2>3. CASE answer' # answer /\ call.tool = "imports"
        <3>1. PICK is, tree, imports :
                  /\ tree = call.in.tree /\ imports = call.in.imports
                  /\ is = [i \in DOMAIN imports |-> ImportPackage(tree, imports[i].package, imports[i].recipe, imports[i].source)]
            OBVIOUS
        <3>2. answer'.is = is
            BY <2>3, <3>1, OneAnswer
        <3>3. /\ IsTree(tree)
              /\ \A i \in DOMAIN imports : imports[i].package \in Nat
            BY <2>3, <3>1, ImportCallShape
        <3>4. ProvenBytes(imports, is)
            <4> SUFFICES ASSUME NEW i \in DOMAIN is, is[i].opened
                         PROVE  LET source == imports[i].source
                                    entry == CHOOSE e \in ToSet(is[i].tree.locks) : e.name = imports[i].package
                                IN  /\ entry.digest = source.served[1] /\ source.pin \in {"none", entry.digest}
                                    /\ IF source.kind = "generated" THEN source.served[2] = entry.digest
                                       ELSE source.at = "upstream"
                BY DEF ProvenBytes
            <4>1. PICK package, recipe, source :
                      package = imports[i].package /\ recipe = imports[i].recipe /\ source = imports[i].source
                OBVIOUS
            <4>2. is[i] = ImportPackage(tree, package, recipe, source) /\ i \in DOMAIN imports
                BY <3>1, <4>1
            <4>3. package \in Nat
                BY <3>3, <4>1, <4>2
            <4>4. ImportPackage(tree, package, recipe, source).opened
                BY <4>2
            <4>5. QED BY <3>3, <4>1, <4>2, <4>3, <4>4, ImportLocksIt
        <3>5. ImportLocksProvenBytes'
            BY <2>0, <2>5, <3>1, <3>2, <3>4, Zenon
        <3>6. call'.tool # "restore"
            BY <2>0, <2>3
        <3>7. QED BY <3>5, <3>6, Zenon DEF ImportIsItsOwn, ImportAddsOnlyItself, Answered
    <2>4. QED BY <2>1, <2>2, <2>3
<1>3. QED BY <1>1, <1>2, CallsStay, PTL DEF Spec

-----------------------------------------------------------------------------
(* Imports: two of one commit, for any lock in order.                       *)

\* n entries in order, no name twice.
Sorted(locks, n) ==
    /\ n \in Nat /\ IsLocks(locks) /\ Len(locks) = n
    /\ \A i, j \in 1..n : i < j => locks[i].name < locks[j].name

\* The n entries with one more at a place.
WithAt(locks, n, place, entry) ==
    [i \in 1..(n + 1) |-> IF i < place THEN locks[i] ELSE IF i = place THEN entry ELSE locks[i - 1]]

\* The place of a name among n entries: what is before it is smaller.
IsPlace(locks, n, name, place) ==
    /\ place \in 1..(n + 1)
    /\ \A i \in 1..n : i < place <=> locks[i].name < name

\* A lock is a function on its places.
LEMMA LocksAreListed ==
    ASSUME NEW locks, NEW n \in Nat, IsLocks(locks), Len(locks) = n
    PROVE  /\ DOMAIN locks = 1..n
           /\ locks = [i \in 1..n |-> locks[i]]
           /\ \A i \in 1..n : locks[i].name \in Nat
           /\ IsNamed(locks, n)
<1>1. PICK S : locks \in Seq(S) /\ \A e \in S : e.name \in Nat
    BY DEF IsLocks
<1>2. locks \in [1..n -> S]
    BY <1>1, LenProperties, Zenon
<1>3. QED BY <1>1, <1>2 DEF IsNamed

\* What is listed with names is a lock.
LEMMA ListedAreLocks ==
    ASSUME NEW n \in Nat, NEW locks, locks = [i \in 1..n |-> locks[i]],
           \A i \in 1..n : locks[i].name \in Nat
    PROVE  IsLocks(locks) /\ Len(locks) = n
<1>1. PICK S : S = {locks[i] : i \in 1..n}
    OBVIOUS
<1>2. (\A i \in 1..n : locks[i] \in S) /\ \A e \in S : e.name \in Nat
    BY <1>1
<1>3. locks \in [1..n -> S]
    BY <1>2, Zenon
<1>4. locks \in Seq(S) /\ Len(locks) = n
    BY <1>3
<1>5. QED BY <1>2, <1>4 DEF IsLocks

\* The insertion of an entry, place by place.
LEMMA InsertionIs ==
    ASSUME NEW n, NEW locks, Sorted(locks, n), NEW entry, entry.name \in Nat, NEW place \in 1..(n + 1)
    PROVE  InsertAt(locks, place, entry) = WithAt(locks, n, place, entry)
<1>0. n \in Nat /\ place \in Nat /\ place >= 1 /\ place <= n + 1
    BY DEF Sorted
<1>1. PICK S : /\ entry \in S /\ \A i \in 1..n : locks[i] \in S
    <2>1. PICK S : S = {entry} \cup {locks[i] : i \in 1..n}
        OBVIOUS
    <2>2. QED BY <2>1
<1>2. PICK before : before = SubSeq(locks, 1, place - 1)
    OBVIOUS
<1>3. PICK after : after = SubSeq(locks, place, n)
    OBVIOUS
<1>4. /\ before \in Seq(S) /\ Len(before) = place - 1
      /\ \A i \in 1..(place - 1) : before[i] = locks[i]
    <2>1. PICK last : last = place - 1
        OBVIOUS
    <2>2. 1 \in Int /\ last \in Int /\ (\A i \in 1..last : locks[i] \in S)
        BY <1>0, <1>1, <2>1
    <2>3. /\ SubSeq(locks, 1, last) \in Seq(S)
          /\ Len(SubSeq(locks, 1, last)) = IF 1 <= last THEN last - 1 + 1 ELSE 0
          /\ \A i \in 1..(last - 1 + 1) : SubSeq(locks, 1, last)[i] = locks[1 + i - 1]
        BY <2>2, SubSeqProperties
    <2>4. /\ before \in Seq(S)
          /\ Len(before) = IF 1 <= last THEN last - 1 + 1 ELSE 0
          /\ \A i \in 1..(last - 1 + 1) : before[i] = locks[1 + i - 1]
        BY <1>2, <2>1, <2>3, Zenon
    <2>5. QED BY <1>0, <2>1, <2>4
<1>5. /\ after \in Seq(S) /\ Len(after) = n - place + 1
      /\ \A i \in 1..(n - place + 1) : after[i] = locks[place + i - 1]
    <2>1. place \in Int /\ n \in Int /\ \A i \in place..n : locks[i] \in S
        BY <1>0, <1>1
    <2>2. /\ after \in Seq(S)
          /\ Len(after) = IF place <= n THEN n - place + 1 ELSE 0
          /\ \A i \in 1..(n - place + 1) : after[i] = locks[place + i - 1]
        BY <1>3, <2>1, SubSeqProperties
    <2>3. QED BY <1>0, <2>2
<1>6. PICK one : one = <<entry>>
    OBVIOUS
<1>7. one \in Seq(S) /\ Len(one) = 1 /\ one[1] = entry
    BY <1>1, <1>6
<1>8. PICK start : start = before \o one
    OBVIOUS
<1>9. /\ start \in Seq(S) /\ Len(start) = place
      /\ \A i \in 1..place : start[i] = IF i <= place - 1 THEN locks[i] ELSE entry
    <2>1. /\ start \in Seq(S)
          /\ Len(start) = Len(before) + Len(one)
          /\ \A i \in 1..Len(before) + Len(one) :
                 start[i] = IF i <= Len(before) THEN before[i] ELSE one[i - Len(before)]
        BY <1>4, <1>7, <1>8, InARow
    <2>2. QED BY <1>0, <1>4, <1>7, <2>1
<1>10. PICK all : all = start \o after
    OBVIOUS
<1>11. /\ all \in Seq(S) /\ Len(all) = n + 1
       /\ \A i \in 1..(n + 1) : all[i] = IF i <= place THEN start[i] ELSE after[i - place]
    <2>1. /\ all \in Seq(S)
          /\ Len(all) = Len(start) + Len(after)
          /\ \A i \in 1..Len(start) + Len(after) :
                 all[i] = IF i <= Len(start) THEN start[i] ELSE after[i - Len(start)]
        BY <1>5, <1>9, <1>10, InARow
    <2>2. QED BY <1>0, <1>5, <1>9, <2>1
<1>12. ASSUME NEW i \in 1..(n + 1)
       PROVE  all[i] = IF i < place THEN locks[i] ELSE IF i = place THEN entry ELSE locks[i - 1]
    <2>1. CASE i < place
        BY <1>0, <1>9, <1>11, <2>1
    <2>2. CASE i = place
        BY <1>0, <1>9, <1>11, <2>2
    <2>3. CASE i > place
        <3>1. i - place \in 1..(n - place + 1) /\ place + (i - place) - 1 = i - 1
            BY <1>0, <2>3
        <3>2. after[i - place] = locks[i - 1]
            BY <1>5, <3>1
        <3>3. QED BY <1>0, <1>11, <2>3, <3>2
    <2>4. QED BY <1>0, <2>1, <2>2, <2>3
<1>13. all = [i \in 1..(n + 1) |-> all[i]]
    <2>1. all \in [1..(n + 1) -> S]
        BY <1>11, LenProperties, Zenon
    <2>2. QED BY <2>1
<1>14. all = WithAt(locks, n, place, entry)
    BY <1>12, <1>13, Zenon DEF WithAt
<1>15. InsertAt(locks, place, entry) = all
    <2>1. Len(locks) = n
        BY DEF Sorted
    <2>2. QED BY <1>2, <1>3, <1>6, <1>8, <1>10, <2>1, Zenon DEF InsertAt
<1>16. QED BY <1>14, <1>15, Zenon

\* Every name that is not there has a place.
LEMMA PlaceIsThere ==
    ASSUME NEW n, NEW locks, Sorted(locks, n), NEW name \in Nat, \A i \in 1..n : locks[i].name # name
    PROVE  \E place \in 1..(n + 1) : IsPlace(locks, n, name, place)
<1>1. n \in Nat /\ \A i \in 1..n : locks[i].name \in Nat
    BY LocksAreListed DEF Sorted
<1>2. PICK S : S = {i \in 1..n : locks[i].name > name} \cup {n + 1}
    OBVIOUS
<1>3. S \in SUBSET Nat /\ S # {}
    BY <1>1, <1>2
<1>4. PICK place \in S : \A i \in S : place <= i
    BY <1>3, FirstOne
<1>5. place \in 1..(n + 1)
    BY <1>1, <1>2, <1>4
<1>6. ASSUME NEW i \in 1..n PROVE i < place <=> locks[i].name < name
    <2>1. CASE i < place
        <3>1. i \notin S
            BY <1>1, <1>4, <1>5, <2>1
        <3>2. QED BY <1>1, <1>2, <2>1, <3>1
    <2>2. CASE place <= i
        <3>1. place \in 1..n /\ locks[place].name > name
            BY <1>1, <1>2, <1>4, <2>2
        <3>2. locks[place].name <= locks[i].name
            BY <1>1, <2>2, <3>1 DEF Sorted
        <3>3. QED BY <1>1, <1>5, <2>2, <3>1, <3>2
    <2>3. QED BY <1>1, <1>5, <2>1, <2>2
<1>7. QED BY <1>5, <1>6 DEF IsPlace

\* With the entry at its place the lock is in order.
LEMMA InOrderWithIt ==
    ASSUME NEW n, NEW locks, Sorted(locks, n), NEW entry, entry.name \in Nat,
           \A i \in 1..n : locks[i].name # entry.name,
           NEW place, IsPlace(locks, n, entry.name, place)
    PROVE  Sorted(WithAt(locks, n, place, entry), n + 1)
<1>0. n \in Nat /\ place \in 1..(n + 1) /\ \A i \in 1..n : locks[i].name \in Nat
    BY LocksAreListed DEF Sorted, IsPlace
<1>1. PICK with : with = WithAt(locks, n, place, entry)
    OBVIOUS
<1>2. /\ \A i \in 1..n : i < place => with[i] = locks[i]
      /\ with[place] = entry
      /\ \A i \in 1..(n + 1) : i > place => with[i] = locks[i - 1]
      /\ with = [i \in 1..(n + 1) |-> with[i]]
    BY <1>0, <1>1 DEF WithAt
<1>3. ASSUME NEW i \in 1..(n + 1)
      PROVE  \/ i < place /\ i \in 1..n /\ with[i] = locks[i]
             \/ i = place /\ with[i] = entry
             \/ i > place /\ i - 1 \in 1..n /\ with[i] = locks[i - 1]
    <2>1. i < place => i \in 1..n
        BY <1>0
    <2>2. i > place => i - 1 \in 1..n
        BY <1>0
    <2>3. CASE i < place
        BY <1>2, <2>1, <2>3
    <2>4. CASE i = place
        BY <1>2, <2>4
    <2>5. CASE i > place
        BY <1>2, <2>2, <2>5
    <2>6. QED BY <1>0, <2>3, <2>4, <2>5
<1>4. \A i \in 1..(n + 1) : with[i].name \in Nat
    BY <1>0, <1>3
<1>5. IsLocks(with) /\ Len(with) = n + 1
    BY <1>0, <1>2, <1>4, ListedAreLocks
<1>6. ASSUME NEW i \in 1..(n + 1), NEW j \in 1..(n + 1), i < j
      PROVE  with[i].name < with[j].name
    <2>1. \A a, b \in 1..n : a < b => locks[a].name < locks[b].name
        BY DEF Sorted
    <2>2. \A a \in 1..n : a < place <=> locks[a].name < entry.name
        BY DEF IsPlace
    <2>3. \A a \in 1..n : a >= place => locks[a].name > entry.name
        BY <1>0, <2>2
    <2>4. CASE j < place
        BY <1>0, <1>3, <1>6, <2>1, <2>4
    <2>5. CASE j = place
        BY <1>0, <1>3, <1>6, <2>2, <2>5
    <2>6. CASE j > place /\ i < place
        BY <1>0, <1>3, <2>1, <2>6
    <2>7. CASE j > place /\ i = place
        <3>1. j - 1 \in 1..n /\ with[j] = locks[j - 1] /\ j - 1 >= place /\ with[i] = entry
            BY <1>0, <1>3, <2>7
        <3>2. QED BY <1>0, <2>3, <3>1
    <2>8. CASE j > place /\ i > place
        <3>1. /\ j - 1 \in 1..n /\ with[j] = locks[j - 1]
              /\ i - 1 \in 1..n /\ with[i] = locks[i - 1] /\ i - 1 < j - 1
            BY <1>0, <1>3, <1>6, <2>8
        <3>2. QED BY <2>1, <3>1
    <2>9. QED BY <1>0, <2>4, <2>5, <2>6, <2>7, <2>8
<1>7. QED BY <1>0, <1>1, <1>5, <1>6 DEF Sorted

\* Sorting puts the one entry that is added at its place (merge_candidates).
LEMMA OneIsInserted ==
    ASSUME NEW n, NEW locks, Sorted(locks, n), NEW entry, entry.name \in Nat,
           \A i \in 1..n : locks[i].name # entry.name,
           NEW place, IsPlace(locks, n, entry.name, place)
    PROVE  LockOrdered(locks \o <<entry>>) = WithAt(locks, n, place, entry)
<1>0. n \in Nat /\ place \in 1..(n + 1) /\ \A i \in 1..n : locks[i].name \in Nat
    BY LocksAreListed DEF Sorted, IsPlace
<1>1. PICK both : both = locks \o <<entry>>
    OBVIOUS
<1>2. /\ \A i \in 1..n : both[i] = locks[i]
      /\ both[n + 1] = entry
      /\ DOMAIN both = 1..(n + 1) /\ Len(both) = n + 1
    <2>1. PICK S0 : locks \in Seq(S0)
        BY DEF Sorted, IsLocks
    <2>2. PICK S : S = S0 \cup {entry}
        OBVIOUS
    <2>3. PICK one : one = <<entry>>
        OBVIOUS
    <2>4. locks \in Seq(S) /\ one \in Seq(S) /\ Len(one) = 1 /\ one[1] = entry /\ Len(locks) = n
        BY <2>1, <2>2, <2>3 DEF Sorted
    <2>5. /\ both \in Seq(S) /\ Len(both) = n + 1
          /\ \A i \in 1..(n + 1) : both[i] = IF i <= n THEN locks[i] ELSE one[i - n]
        <3>1. /\ both \in Seq(S) /\ Len(both) = Len(locks) + Len(one)
              /\ \A i \in 1..Len(locks) + Len(one) :
                     both[i] = IF i <= Len(locks) THEN locks[i] ELSE one[i - Len(locks)]
            BY <1>1, <2>3, <2>4, InARow
        <3>2. QED BY <2>4, <3>1
    <2>6. QED BY <1>0, <2>4, <2>5
<1>3. \A i \in 1..(n + 1) : both[i].name \in Nat
    BY <1>0, <1>2
<1>4. IsNamed(both, n + 1)
    BY <1>2, <1>3 DEF IsNamed
<1> DEFINE UpTo(i) == {j \in 1..(n + 1) : \/ both[j].name < both[i].name
                                          \/ (both[j].name = both[i].name /\ j <= i)}
<1>5. \A i \in 1..(n + 1) : PlaceInOrder(both, i) = Cardinality(UpTo(i))
    BY <1>2 DEF PlaceInOrder
<1>6. /\ \A a, b \in 1..n : a < b => locks[a].name < locks[b].name
      /\ \A a \in 1..n : a < place => locks[a].name < entry.name
      /\ \A a \in 1..n : a >= place => locks[a].name > entry.name
    BY <1>0 DEF Sorted, IsPlace
<1>7. ASSUME NEW i \in 1..n, i < place PROVE PlaceInOrder(both, i) = i
    <2>1. ASSUME NEW j \in 1..(n + 1) PROVE j \in UpTo(i) <=> j <= i
        <3>1. CASE j = n + 1
            BY <1>0, <1>2, <1>6, <1>7, <3>1
        <3>2. CASE j \in 1..n /\ j < i
            BY <1>0, <1>2, <1>6, <3>2
        <3>3. CASE j \in 1..n /\ j = i
            BY <1>0, <1>2, <1>6, <3>3
        <3>4. CASE j \in 1..n /\ j > i
            BY <1>0, <1>2, <1>6, <3>4
        <3>5. QED BY <1>0, <3>1, <3>2, <3>3, <3>4
    <2>2. UpTo(i) = 1..i
        <3>1. UpTo(i) \subseteq 1..(n + 1)
            OBVIOUS
        <3> HIDE DEF UpTo
        <3>2. 1..i \subseteq 1..(n + 1) /\ \A j \in 1..(n + 1) : j <= i <=> j \in 1..i
            BY <1>0
        <3>3. QED BY <2>1, <3>1, <3>2
    <2>3. Cardinality(1..i) = i
        BY FS_Interval
    <2> HIDE DEF UpTo
    <2>4. QED BY <1>0, <1>5, <2>2, <2>3
<1>8. ASSUME NEW i \in 1..n, i >= place PROVE PlaceInOrder(both, i) = i + 1
    <2>1. ASSUME NEW j \in 1..(n + 1) PROVE j \in UpTo(i) <=> j <= i \/ j = n + 1
        <3>1. CASE j = n + 1
            BY <1>0, <1>2, <1>6, <1>8, <3>1
        <3>2. CASE j \in 1..n /\ j < i
            BY <1>0, <1>2, <1>6, <3>2
        <3>3. CASE j \in 1..n /\ j = i
            BY <1>0, <1>2, <1>6, <3>3
        <3>4. CASE j \in 1..n /\ j > i
            BY <1>0, <1>2, <1>6, <3>4
        <3>5. QED BY <1>0, <3>1, <3>2, <3>3, <3>4
    <2>2. UpTo(i) = 1..i \cup {n + 1}
        <3>1. UpTo(i) \subseteq 1..(n + 1)
            OBVIOUS
        <3> HIDE DEF UpTo
        <3>2. QED BY <1>0, <2>1, <3>1
    <2>3. IsFiniteSet(1..i) /\ Cardinality(1..i) = i
        <3>1. 1 \in Int /\ i \in Int /\ ~(1 > i) /\ i - 1 + 1 = i
            OBVIOUS
        <3>2. QED BY <3>1, FS_Interval
    <2>4. n + 1 \notin 1..i
        BY <1>0
    <2>5. Cardinality(1..i \cup {n + 1}) = i + 1
        BY <2>3, <2>4, FS_AddElement
    <2> HIDE DEF UpTo
    <2>6. i \in 1..(n + 1)
        BY <1>0
    <2>7. PlaceInOrder(both, i) = Cardinality(UpTo(i))
        BY <1>5, <2>6
    <2>8. QED BY <2>2, <2>5, <2>7, Zenon
<1>9. PlaceInOrder(both, n + 1) = place
    <2>0. PICK before \in Nat : before = place - 1
        BY <1>0
    <2>1. ASSUME NEW j \in 1..(n + 1) PROVE j \in UpTo(n + 1) <=> j <= before \/ j = n + 1
        <3>1. CASE j = n + 1
            BY <1>0, <1>2, <1>3, <3>1
        <3>2. CASE j \in 1..n /\ j < place
            BY <1>0, <1>2, <1>6, <2>0, <3>2
        <3>3. CASE j \in 1..n /\ j >= place
            BY <1>0, <1>2, <1>6, <2>0, <3>3
        <3>4. QED BY <1>0, <3>1, <3>2, <3>3
    <2>2. UpTo(n + 1) = 1..before \cup {n + 1}
        <3>1. UpTo(n + 1) \subseteq 1..(n + 1)
            OBVIOUS
        <3> HIDE DEF UpTo
        <3>2. QED BY <1>0, <2>0, <2>1, <3>1
    <2>3. IsFiniteSet(1..before) /\ Cardinality(1..before) = before
        BY FS_Interval
    <2>4. n + 1 \notin 1..before
        BY <1>0, <2>0
    <2>5. Cardinality(1..before \cup {n + 1}) = before + 1
        BY <2>3, <2>4, FS_AddElement
    <2> HIDE DEF UpTo
    <2>6. n + 1 \in 1..(n + 1)
        BY <1>0
    <2>7. QED BY <1>0, <1>5, <2>0, <2>2, <2>5, <2>6
<1> HIDE DEF UpTo
<1> DEFINE from(k) == CHOOSE i \in 1..(n + 1) : PlaceInOrder(both, i) = k
<1>10. ASSUME NEW k \in 1..(n + 1), NEW i \in 1..(n + 1), PlaceInOrder(both, i) = k
       PROVE  from(k) = i
    <2>1. from(k) \in 1..(n + 1) /\ PlaceInOrder(both, from(k)) = k
        BY <1>10
    <2>2. PICK m \in Nat : m = n + 1
        BY <1>0
    <2>3. \A a, b \in 1..m : PlaceInOrder(both, a) = PlaceInOrder(both, b) => a = b
        BY <1>4, <2>2, PlacesApart
    <2> HIDE DEF from
    <2>4. QED BY <1>10, <2>1, <2>2, <2>3
<1>11. ASSUME NEW k \in 1..(n + 1)
       PROVE  both[from(k)] = IF k < place THEN locks[k] ELSE IF k = place THEN entry ELSE locks[k - 1]
    <2>1. CASE k < place
        <3>1. k \in 1..n /\ PlaceInOrder(both, k) = k
            BY <1>0, <1>7, <2>1
        <3>2. from(k) = k
            BY <1>10, <3>1
        <3> HIDE DEF from
        <3>3. QED BY <1>2, <2>1, <3>1, <3>2
    <2>2. CASE k = place
        <3>1. n + 1 \in 1..(n + 1) /\ PlaceInOrder(both, n + 1) = k
            BY <1>0, <1>9, <2>2
        <3>2. from(k) = n + 1
            BY <1>10, <3>1
        <3> HIDE DEF from
        <3>3. QED BY <1>0, <1>2, <2>2, <3>2
    <2>3. CASE k > place
        <3>1. PICK i : i = k - 1
            OBVIOUS
        <3>2. i \in 1..n /\ i >= place /\ i + 1 = k
            BY <1>0, <2>3, <3>1
        <3>3. PlaceInOrder(both, i) = k
            BY <1>8, <3>2
        <3>4. from(k) = i
            BY <1>0, <1>10, <3>2, <3>3
        <3> HIDE DEF from
        <3>5. QED BY <1>0, <1>2, <2>3, <3>1, <3>2, <3>4
    <2>4. QED BY <1>0, <2>1, <2>2, <2>3
<1>12. LockOrdered(both) = [k \in 1..(n + 1) |-> both[from(k)]]
    BY <1>2 DEF LockOrdered
<1> HIDE DEF from
<1>13. LockOrdered(both) = WithAt(locks, n, place, entry)
    BY <1>11, <1>12 DEF WithAt
<1>14. QED BY <1>1, <1>13, Zenon

\* The entries of a lock with one more.
LEMMA EntriesWithIt ==
    ASSUME NEW n, NEW locks, Sorted(locks, n), NEW entry, NEW place \in 1..(n + 1)
    PROVE  ToSet(WithAt(locks, n, place, entry)) = ToSet(locks) \cup {entry}
<1>0. n \in Nat /\ DOMAIN locks = 1..n
    BY LocksAreListed DEF Sorted
<1>1. PICK with : with = WithAt(locks, n, place, entry)
    OBVIOUS
<1>2. /\ \A i \in 1..n : i < place => i \in 1..(n + 1) /\ with[i] = locks[i]
      /\ place \in 1..(n + 1) /\ with[place] = entry
      /\ \A i \in 1..n : i >= place => i + 1 \in 1..(n + 1) /\ with[i + 1] = locks[i]
      /\ DOMAIN with = 1..(n + 1)
    <2>1. with = [i \in 1..(n + 1) |-> IF i < place THEN locks[i] ELSE IF i = place THEN entry ELSE locks[i - 1]]
        BY <1>1 DEF WithAt
    <2>2. ASSUME NEW i \in 1..n, i >= place PROVE i + 1 \in 1..(n + 1) /\ with[i + 1] = locks[i]
        <3>1. i + 1 \in 1..(n + 1) /\ ~(i + 1 < place) /\ i + 1 # place /\ i + 1 - 1 = i
            BY <1>0, <2>2
        <3>2. QED BY <2>1, <3>1
    <2>3. QED BY <1>0, <2>1, <2>2
<1>3. ASSUME NEW e \in ToSet(with) PROVE e \in ToSet(locks) \cup {entry}
    <2>1. PICK i \in 1..(n + 1) : e = with[i]
        BY <1>2 DEF ToSet
    <2>2. CASE i = place
        BY <1>2, <2>1, <2>2
    <2>3. CASE i < place
        <3>1. i \in 1..n /\ e = locks[i]
            BY <1>0, <1>2, <2>1, <2>3
        <3>2. QED BY <1>0, <3>1 DEF ToSet
    <2>4. CASE i > place
        <3>1. PICK j : j = i - 1
            OBVIOUS
        <3>2. j \in 1..n /\ j >= place /\ j + 1 = i
            BY <1>0, <2>4, <3>1
        <3>3. e = locks[j]
            BY <1>2, <2>1, <3>2
        <3>4. QED BY <1>0, <3>2, <3>3 DEF ToSet
    <2>5. QED BY <1>0, <2>2, <2>3, <2>4
<1>4. ASSUME NEW e \in ToSet(locks) PROVE e \in ToSet(with)
    <2>1. PICK i \in 1..n : e = locks[i]
        BY <1>0 DEF ToSet
    <2>2. CASE i < place
        BY <1>2, <2>1, <2>2 DEF ToSet
    <2>3. CASE i >= place
        BY <1>2, <2>1, <2>3 DEF ToSet
    <2>4. QED BY <1>0, <2>2, <2>3
<1>5. entry \in ToSet(with)
    BY <1>2 DEF ToSet
<1>6. QED BY <1>1, <1>3, <1>4, <1>5

\* The tree with one more package, whose recipe is imported and locked.
OneMore(before, after, package, entry) ==
    /\ Names(after) = Names(before) \cup {package}
    /\ \A p \in Names(before) : after.recipes[p] = before.recipes[p]
    /\ after.recipes[package] = Recipe(package)
    /\ ToSet(after.locks) = ToSet(before.locks) \cup {entry}
    /\ Names(after) \subseteq after.packit
    /\ after.baseline = before.baseline /\ after.reviewOnly = before.reviewOnly

\* It is as valid as the tree was.
LEMMA OneMoreIsValid ==
    ASSUME NEW before, Validates(before), NEW after, NEW package \in Nat,
           package \notin Names(before), package \notin DOMAIN Inherited,
           OneMore(before, after, package, Entry(package, "upstream", "x")),
           NEW n, Sorted(after.locks, n)
    PROVE  Validates(after)
<1> DEFINE entry == Entry(package, "upstream", "x")
<1>0. entry.name = package /\ entry.host = "upstream" /\ entry.formed = TRUE
    BY DEF Entry
<1>1. /\ Recipe(package).specs = 1 /\ Recipe(package).manifest = "sha512"
      /\ Recipe(package).suppressed = NoneSuppressed
      /\ Recipe(package).provenance = Fedoras(package)
    BY DEF Recipe
<1>2. ProvenanceHolds(package, Fedoras(package))
    BY DEF ProvenanceHolds, Fedoras
<1>3. /\ Names(after) = Names(before) \cup {package}
      /\ \A p \in Names(before) : after.recipes[p] = before.recipes[p]
      /\ after.recipes[package] = Recipe(package)
      /\ ToSet(after.locks) = ToSet(before.locks) \cup {entry}
      /\ Names(after) \subseteq after.packit
      /\ after.baseline = before.baseline /\ after.reviewOnly = before.reviewOnly
    BY DEF OneMore
<1> HIDE DEF entry
<1>4. \A p \in Names(after) : ProvenanceHolds(p, after.recipes[p].provenance)
    <2>1. \A p \in Names(before) : ProvenanceHolds(p, before.recipes[p].provenance)
        BY DEF Validates
    <2>2. QED BY <1>1, <1>2, <1>3, <2>1
<1>5. SuppressesNothingNew(after)
    <2>1. SuppressesNothingNew(before)
        BY DEF Validates
    <2>2. QED BY <1>1, <1>3, <2>1 DEF SuppressesNothingNew
<1>6. RatchetHolds(after)
    <2>1. RatchetHolds(before)
        BY DEF Validates
    <2>2. FedoraPrimaries(after) = FedoraPrimaries(before)
        BY <1>0, <1>3 DEF FedoraPrimaries
    <2>3. QED BY <1>3, <2>1, <2>2 DEF RatchetHolds
<1>7. NothingPlaintext(after)
    BY <1>0, <1>3 DEF Validates, NothingPlaintext
<1>8. ManifestsHold(after)
    BY <1>1, <1>3 DEF Validates, ManifestsHold
<1>9. ReviewOnlyHolds(after)
    BY <1>3 DEF Validates, ReviewOnlyHolds, LockNames
<1>10. n \in Nat /\ Len(after.locks) = n /\ DOMAIN after.locks = 1..n
       /\ (\A i \in 1..n : after.locks[i].name \in Nat)
       /\ \A i, j \in 1..n : i < j => after.locks[i].name < after.locks[j].name
    BY LocksAreListed DEF Sorted
<1>11. InLockOrder(after.locks)
    <2>1. ASSUME NEW i \in 1..(n - 1) PROVE after.locks[i].name <= after.locks[i + 1].name
        <3>1. i \in 1..n /\ i + 1 \in 1..n /\ i < i + 1
            BY <1>10
        <3>2. QED BY <1>10, <3>1
    <2>2. QED BY <1>10, <2>1 DEF InLockOrder
<1>12. Accounted(after)
    <2>0. Accounted(before)
        BY DEF Validates
    <2>1. \A p \in Names(after) : after.recipes[p].specs = 1
        BY <1>1, <1>3, <2>0 DEF Accounted
    <2>2. \A i, j \in DOMAIN after.locks : after.locks[i].name = after.locks[j].name => i = j
        BY <1>10
    <2>3. \A i \in DOMAIN after.locks : after.locks[i].formed
        <3>1. \A e \in ToSet(before.locks) : e.formed
            BY <2>0 DEF Accounted, LocksLoad, ToSet
        <3>2. ASSUME NEW i \in DOMAIN after.locks PROVE after.locks[i].formed
            <4>1. PICK e : e = after.locks[i]
                OBVIOUS
            <4>2. e \in ToSet(before.locks) \cup {entry}
                BY <1>3, <4>1 DEF ToSet
            <4>3. e.formed
                BY <1>0, <3>1, <4>2
            <4>4. QED BY <4>1, <4>3
        <3>3. QED BY <3>2
    <2>4. Names(after) \subseteq LockNames(after)
        <3>1. Names(before) \subseteq LockNames(before)
            BY <2>0 DEF Accounted
        <3>2. LockNames(after) = LockNames(before) \cup {package}
            BY <1>0, <1>3 DEF LockNames
        <3>3. QED BY <1>3, <3>1, <3>2
    <2>5. QED BY <1>3, <2>1, <2>2, <2>3, <2>4 DEF Accounted, LocksLoad
<1>13. QED BY <1>4, <1>5, <1>6, <1>7, <1>8, <1>9, <1>11, <1>12 DEF Validates

\* What the bootstrap finds for a plain source.
LEMMA PlainCandidate ==
    ASSUME NEW package
    PROVE  Candidates(package, Recipe(package), Upstreams("x")) = {Entry(package, "upstream", "x")}
<1>1. PICK recipe, source : recipe = Recipe(package) /\ source = Upstreams("x")
    OBVIOUS
<1>2. recipe.specs = 1
    BY <1>1 DEF Recipe
<1>3. source.kind = "plain" /\ source.at = "upstream" /\ source.served[1] = "x" /\ source.pin = "none"
    BY <1>1 DEF Upstreams
<1>4. source.kind # "generated" /\ source.at \in {"upstream", "plain"} /\ source.served[1] # "down"
    BY <1>3
<1>5. PinHolds(source)
    BY <1>3 DEF PinHolds
<1>6. Candidates(package, recipe, source) = {Entry(package, source.at, source.served[1])}
    <2>1. Candidates(package, recipe, source) =
              IF source.at \in {"upstream", "plain"} /\ source.served[1] # "down" /\ PinHolds(source)
              THEN {Entry(package, source.at, source.served[1])} ELSE {}
        BY <1>2, <1>4, Zenon DEF Candidates
    <2>2. QED BY <1>4, <1>5, <2>1, Zenon
<1>7. QED BY <1>1, <1>3, <1>6, Zenon

\* A tree whose lock is n entries in order, and that is valid.
ValidTree(tree, n) == IsTree(tree) /\ Validates(tree) /\ Sorted(tree.locks, n)

\* The import of a package a valid tree does not know is proposed: it is the
\* tree with one more, its lock at the place of its name.
LEMMA PlainImportOpens ==
    ASSUME NEW n, NEW tree, ValidTree(tree, n), NEW package \in Nat,
           package \notin LockNames(tree), package \notin DOMAIN Inherited,
           NEW place, IsPlace(tree.locks, n, package, place),
           NEW is, is = ImportPackage(tree, package, Recipe(package), Upstreams("x"))
    PROVE  /\ is.opened
           /\ OneMore(tree, is.tree, package, Entry(package, "upstream", "x"))
           /\ is.tree.locks = WithAt(tree.locks, n, place, Entry(package, "upstream", "x"))
           /\ Validates(is.tree)
<1>0. PICK entry : entry = Entry(package, "upstream", "x")
    OBVIOUS
<1>1. entry = Entry(package, "upstream", "x") /\ entry.name = package
    BY <1>0 DEF Entry
<1>2. IsTree(tree) /\ Validates(tree) /\ Sorted(tree.locks, n)
    BY DEF ValidTree
<1>3. Names(tree) \subseteq LockNames(tree) \cap tree.packit
    BY <1>2 DEF Validates, Accounted
<1>4. package \notin Names(tree)
    BY <1>3
<1>5. PICK recipes : recipes = [p \in {package} |-> Recipe(package)]
    OBVIOUS
<1>6. PICK artifact : artifact = [shape |-> TRUE, recipes |-> recipes, candidates |-> <<entry>>, accepted |-> TRUE]
    OBVIOUS
<1>7. /\ artifact.shape = TRUE /\ artifact.accepted = TRUE
      /\ artifact.recipes = recipes /\ artifact.candidates = <<entry>>
    BY <1>6
<1>8. is = Proposal(tree, artifact, package)
    <2>1. Candidates(package, Recipe(package), Upstreams("x")) = {entry}
        BY <1>1, PlainCandidate
    <2>2. SetToSeq({entry}) = <<entry>>
        BY SequenceOfOne
    <2>3. {entry} # {}
        OBVIOUS
    <2>4. is = Proposal(tree, [shape |-> TRUE, recipes |-> [p \in {package} |-> Recipe(package)],
                               candidates |-> SetToSeq({entry}), accepted |-> TRUE], package)
        BY <1>4, <2>1, <2>3, Zenon DEF ImportPackage
    <2>5. QED BY <1>5, <1>6, <2>2, <2>4, Zenon
<1>9. PICK with : with = WithAt(tree.locks, n, place, entry)
    OBVIOUS
<1>10. \A i \in 1..n : tree.locks[i].name # entry.name
    <2>1. DOMAIN tree.locks = 1..n
        BY <1>2, LocksAreListed DEF Sorted
    <2>2. \A i \in 1..n : tree.locks[i].name \in LockNames(tree)
        BY <2>1 DEF LockNames, ToSet
    <2>3. QED BY <1>1, <2>2
<1>11. /\ LockOrdered(tree.locks \o <<entry>>) = with
       /\ Sorted(with, n + 1)
       /\ ToSet(with) = ToSet(tree.locks) \cup {entry}
    <2>1. PICK locks : locks = tree.locks
        OBVIOUS
    <2>2. Sorted(locks, n) /\ entry.name \in Nat /\ IsPlace(locks, n, entry.name, place)
        BY <1>1, <1>2, <2>1
    <2>3. \A i \in 1..n : locks[i].name # entry.name
        BY <1>10, <2>1
    <2>4. place \in 1..(n + 1)
        BY DEF IsPlace
    <2>5. LockOrdered(locks \o <<entry>>) = WithAt(locks, n, place, entry)
        BY <2>2, <2>3, OneIsInserted
    <2>6. Sorted(WithAt(locks, n, place, entry), n + 1)
        BY <2>2, <2>3, InOrderWithIt
    <2>7. ToSet(WithAt(locks, n, place, entry)) = ToSet(locks) \cup {entry}
        BY <2>2, <2>4, EntriesWithIt
    <2>8. QED BY <1>9, <2>1, <2>5, <2>6, <2>7
<1>12. PICK one : one = <<entry>>
    OBVIOUS
<1>13. one = <<entry>> /\ Len(one) = 1 /\ one[1] = entry /\ ToSet(one) = {entry}
    BY <1>12 DEF ToSet
<1>14. MergeCandidates(tree.locks, one).ok /\ MergeCandidates(tree.locks, one).locks = with
    <2>1. {e.name : e \in ToSet(one)} = {package}
        BY <1>1, <1>13
    <2>2. Cardinality({package}) = 1
        BY FS_Singleton
    <2>3. {e.name : e \in ToSet(tree.locks)} \cap {package} = {}
        BY DEF LockNames
    <2>4. MergeCandidates(tree.locks, one) =
              [ok |-> /\ {e.name : e \in ToSet(tree.locks)} \cap {e.name : e \in ToSet(one)} = {}
                      /\ Cardinality({e.name : e \in ToSet(one)}) = Len(one),
               locks |-> LockOrdered(tree.locks \o one)]
        BY DEF MergeCandidates
    <2>5. PICK fits : fits = (/\ {e.name : e \in ToSet(tree.locks)} \cap {e.name : e \in ToSet(one)} = {}
                              /\ Cardinality({e.name : e \in ToSet(one)}) = Len(one))
        OBVIOUS
    <2>6. fits
        <3>1. /\ {e.name : e \in ToSet(tree.locks)} \cap {e.name : e \in ToSet(one)} = {}
              /\ Cardinality({e.name : e \in ToSet(one)}) = Len(one)
            BY <1>12, <2>1, <2>2, <2>3
        <3>2. QED BY <2>5, <3>1, Zenon
    <2>7. LockOrdered(tree.locks \o one) = with
        BY <1>11, <1>12
    <2>8. PICK merge : merge = MergeCandidates(tree.locks, one)
        OBVIOUS
    <2>9. merge = [ok |-> fits, locks |-> with]
        BY <2>4, <2>5, <2>7, <2>8, Zenon
    <2>10. merge.ok = fits /\ merge.locks = with
        BY <2>9
    <2>11. merge.ok
        BY <2>6, <2>10, Zenon
    <2>12. QED BY <2>8, <2>10, <2>11, Zenon
<1>15. Restorable(tree, artifact, package)
    <2>1. DOMAIN recipes = {package} /\ recipes[package] = Recipe(package)
        BY <1>5
    <2>2. Recipe(package).specs = 1 /\ Recipe(package).provenance.package = package
        BY DEF Recipe, Fedoras
    <2>3. Len(artifact.candidates) = 1 /\ artifact.candidates[1].name = package
        BY <1>1, <1>7, <1>13
    <2>4. MergeCandidates(tree.locks, artifact.candidates).ok
        BY <1>7, <1>13, <1>14
    <2>5. QED BY <1>4, <1>7, <2>1, <2>2, <2>3, <2>4 DEF Restorable
<1>16. PICK r : r = [p \in Names(tree) \cup {package} |->
                        IF p = package THEN recipes[p] ELSE tree.recipes[p]]
    OBVIOUS
<1>17. PICK restored : restored = Restore(tree, artifact, package)
    OBVIOUS
<1>18. restored = [recipes |-> r, locks |-> with, packit |-> tree.packit,
                   baseline |-> tree.baseline, reviewOnly |-> tree.reviewOnly]
    <2>1. restored = [tree EXCEPT !.recipes = r, !.locks = with]
        BY <1>7, <1>13, <1>14, <1>16, <1>17 DEF Restore
    <2>2. tree = [recipes |-> tree.recipes, locks |-> tree.locks, packit |-> tree.packit,
                  baseline |-> tree.baseline, reviewOnly |-> tree.reviewOnly]
        BY <1>2 DEF IsTree
    <2>3. QED BY <2>1, <2>2
<1>19. PICK after : after = Render(restored)
    OBVIOUS
<1>20. Names(restored) = Names(tree) \cup {package}
    BY <1>16, <1>18 DEF Names
<1>21. after = [recipes |-> r, locks |-> with, packit |-> Names(tree) \cup {package},
                baseline |-> tree.baseline, reviewOnly |-> tree.reviewOnly]
    BY <1>18, <1>19, <1>20 DEF Render
<1>22. OneMore(tree, after, package, entry)
    <2>1. Names(after) = Names(tree) \cup {package}
        BY <1>16, <1>21 DEF Names
    <2>2. \A p \in Names(tree) : after.recipes[p] = tree.recipes[p]
        BY <1>4, <1>16, <1>21
    <2>3. after.recipes[package] = Recipe(package)
        BY <1>5, <1>16, <1>21
    <2>4. QED BY <1>11, <1>21, <2>1, <2>2, <2>3 DEF OneMore
<1>23. after.locks = with
    BY <1>21
<1>24. Validates(after)
    <2>1. Sorted(after.locks, n + 1) /\ OneMore(tree, after, package, Entry(package, "upstream", "x"))
        BY <1>1, <1>11, <1>22, <1>23
    <2>2. QED BY <1>2, <1>4, <2>1, OneMoreIsValid
<1>25. is = [opened |-> TRUE, tree |-> after]
    <2>1. Render(Restore(tree, artifact, package)) = after
        BY <1>17, <1>19
    <2>2. QED BY <1>8, <1>15, <1>24, <2>1, Zenon DEF Proposal
<1>26. is.opened = TRUE /\ is.tree = after
    BY <1>25
<1>27. QED BY <1>1, <1>9, <1>22, <1>23, <1>24, <1>26

\* Where a proposal puts its entry is where it finds it.
LEMMA InsertedIs ==
    ASSUME NEW n, NEW tree, ValidTree(tree, n), NEW entry, entry.name \in Nat,
           entry.name \notin LockNames(tree),
           NEW place, IsPlace(tree.locks, n, entry.name, place),
           NEW proposal, proposal.tree.locks = WithAt(tree.locks, n, place, entry)
    PROVE  Inserted(tree, proposal) = [place |-> place, entry |-> entry]
<1>1. PICK locks : locks = tree.locks
    OBVIOUS
<1>2. Sorted(locks, n) /\ Len(locks) = n /\ n \in Nat /\ place \in 1..(n + 1) /\ DOMAIN locks = 1..n
    BY <1>1, LocksAreListed DEF ValidTree, Sorted, IsPlace
<1>3. PICK with : with = WithAt(locks, n, place, entry)
    OBVIOUS
<1>4. ToSet(with) = ToSet(locks) \cup {entry} /\ proposal.tree.locks = with
    BY <1>1, <1>2, <1>3, EntriesWithIt
<1>5. PICK places : places = [place : 1..Len(locks) + 1, entry : ToSet(with)]
    OBVIOUS
<1>6. PICK there : there = [place |-> place, entry |-> entry]
    OBVIOUS
<1>7. there \in places
    BY <1>2, <1>4, <1>5, <1>6
<1>8. InsertAt(locks, place, entry) = with
    BY <1>2, <1>3, InsertionIs
<1>9. InsertAt(locks, there.place, there.entry) = with
    BY <1>6, <1>8
<1>10. ASSUME NEW at \in places, InsertAt(locks, at.place, at.entry) = with PROVE at = there
    <2>1. PICK k, e : k = at.place /\ e = at.entry /\ k \in 1..(n + 1) /\ e \in ToSet(locks) \cup {entry}
        BY <1>2, <1>4, <1>5
    <2>2. e.name \in Nat
        <3>1. \A i \in 1..n : locks[i].name \in Nat
            BY <1>2, LocksAreListed DEF Sorted
        <3>2. QED BY <1>2, <2>1, <3>1 DEF ToSet
    <2>3. with = WithAt(locks, n, k, e)
        BY <1>2, <1>10, <2>1, <2>2, InsertionIs
    <2>4. \A i \in 1..n : locks[i] # entry
        BY <1>1, <1>2 DEF LockNames, ToSet
    <2>5. with[place] = entry
        BY <1>2, <1>3 DEF WithAt
    <2>6. entry = IF place < k THEN locks[place] ELSE IF place = k THEN e ELSE locks[place - 1]
        BY <1>2, <2>3, <2>5 DEF WithAt
    <2>7. ~(place < k)
        <3>1. place < k => place \in 1..n
            BY <1>2, <2>1
        <3>2. QED BY <2>4, <2>6, <3>1
    <2>8. ~(place > k)
        <3>1. place > k => place - 1 \in 1..n /\ ~(place < k) /\ place # k
            BY <1>2, <2>1
        <3>2. QED BY <2>4, <2>6, <3>1
    <2>9. k = place /\ e = entry
        BY <1>2, <2>1, <2>6, <2>7, <2>8
    <2>10. at = [place |-> at.place, entry |-> at.entry]
        BY <1>5
    <2>11. QED BY <1>6, <2>1, <2>9, <2>10
<1>11. Inserted(tree, proposal) = CHOOSE at \in places : InsertAt(locks, at.place, at.entry) = with
    BY <1>1, <1>4, <1>5, Zenon DEF Inserted
<1>12. QED BY <1>6, <1>7, <1>9, <1>10, <1>11, Zenon

\* What the import of a package proposes, its lock being put at a place.
Proposed(tree, n, package, place, is) ==
    /\ is.opened
    /\ OneMore(tree, is.tree, package, Entry(package, "upstream", "x"))
    /\ is.tree.locks = WithAt(tree.locks, n, place, Entry(package, "upstream", "x"))
    /\ Validates(is.tree)
    /\ Inserted(tree, is) = [place |-> place, entry |-> Entry(package, "upstream", "x")]

\* The import of a package a valid tree does not know is proposed.
LEMMA PlainIsProposed ==
    ASSUME NEW n, NEW tree, ValidTree(tree, n), NEW package \in Nat,
           package \notin LockNames(tree), package \notin DOMAIN Inherited,
           NEW is, is = ImportPackage(tree, package, Recipe(package), Upstreams("x"))
    PROVE  \E place : IsPlace(tree.locks, n, package, place) /\ Proposed(tree, n, package, place, is)
<1>1. Sorted(tree.locks, n) /\ n \in Nat /\ DOMAIN tree.locks = 1..n
    BY LocksAreListed DEF ValidTree, Sorted
<1>2. \A i \in 1..n : tree.locks[i].name # package
    BY <1>1 DEF LockNames, ToSet
<1>3. PICK place : IsPlace(tree.locks, n, package, place)
    <2>1. PICK locks : locks = tree.locks
        OBVIOUS
    <2>2. Sorted(locks, n) /\ \A i \in 1..n : locks[i].name # package
        BY <1>1, <1>2, <2>1
    <2>3. \E place \in 1..(n + 1) : IsPlace(locks, n, package, place)
        BY <2>2, PlaceIsThere
    <2>4. QED BY <2>1, <2>3
<1>4. PICK entry : entry = Entry(package, "upstream", "x")
    OBVIOUS
<1>5. entry.name = package
    BY <1>4 DEF Entry
<1>6. /\ is.opened
      /\ OneMore(tree, is.tree, package, entry)
      /\ is.tree.locks = WithAt(tree.locks, n, place, entry)
      /\ Validates(is.tree)
    BY <1>3, <1>4, PlainImportOpens
<1>7. IsPlace(tree.locks, n, entry.name, place) /\ entry.name \in Nat /\ entry.name \notin LockNames(tree)
    BY <1>3, <1>5
<1>8. Inserted(tree, is) = [place |-> place, entry |-> entry]
    BY <1>6, <1>7, InsertedIs
<1>9. Proposed(tree, n, package, place, is)
    BY <1>4, <1>6, <1>8 DEF Proposed
<1>10. QED BY <1>3, <1>9

\* The place of a smaller name is no later, and with another name's entry put
\* in it is where it was.
LEMMA PlaceStays ==
    ASSUME NEW n, NEW locks, Sorted(locks, n), NEW p \in Nat, NEW q \in Nat, p < q,
           NEW early, IsPlace(locks, n, p, early), NEW late, IsPlace(locks, n, q, late),
           NEW entry, entry.name = q
    PROVE  /\ early <= late
           /\ early = late => \A i \in 1..n : ~(p < locks[i].name /\ locks[i].name < q)
           /\ IsPlace(WithAt(locks, n, late, entry), n + 1, p, early)
<1>1. n \in Nat /\ \A i \in 1..n : locks[i].name \in Nat
    BY LocksAreListed DEF Sorted
<1>2. /\ early \in 1..(n + 1) /\ late \in 1..(n + 1)
      /\ \A i \in 1..n : i < early <=> locks[i].name < p
      /\ \A i \in 1..n : i < late <=> locks[i].name < q
    BY DEF IsPlace
<1>3. early <= late
    <2>1. SUFFICES ASSUME late < early PROVE FALSE
        BY <1>1, <1>2
    <2>2. late \in 1..n /\ locks[late].name < p
        BY <1>1, <1>2, <2>1
    <2>3. locks[late].name < q
        BY <1>1, <2>2
    <2>4. QED BY <1>1, <1>2, <2>2, <2>3
<1>4. ASSUME early = late, NEW i \in 1..n, p < locks[i].name, locks[i].name < q PROVE FALSE
    <2>1. locks[i].name \in Nat
        BY <1>1
    <2>2. ~(locks[i].name < p)
        BY <1>4, <2>1
    <2>3. QED BY <1>2, <1>4, <2>2
<1>5. PICK with : with = WithAt(locks, n, late, entry)
    OBVIOUS
<1>6. ASSUME NEW i \in 1..(n + 1) PROVE i < early <=> with[i].name < p
    <2>1. with[i] = IF i < late THEN locks[i] ELSE IF i = late THEN entry ELSE locks[i - 1]
        BY <1>5 DEF WithAt
    <2>2. CASE i < late
        <3>1. i \in 1..n /\ with[i] = locks[i]
            BY <1>1, <1>2, <2>1, <2>2
        <3>2. QED BY <1>2, <3>1
    <2>3. CASE i = late
        <3>1. with[i].name = q /\ ~(i < early)
            BY <1>1, <1>2, <1>3, <2>1, <2>3
        <3>2. QED BY <3>1
    <2>4. CASE i > late
        <3>1. i - 1 \in 1..n /\ with[i] = locks[i - 1] /\ ~(i - 1 < early) /\ ~(i < early)
            BY <1>1, <1>2, <1>3, <2>1, <2>4
        <3>2. QED BY <1>2, <3>1
    <2>5. QED BY <1>1, <1>2, <2>2, <2>3, <2>4
<1>7. IsPlace(with, n + 1, p, early)
    <2>1. early \in 1..(n + 1 + 1)
        BY <1>1, <1>2
    <2>2. QED BY <1>6, <2>1 DEF IsPlace
<1>8. QED BY <1>3, <1>4, <1>5, <1>7

\* Two proposals of one commit conflict only next to each other, and merged are
\* a valid tree.
LEMMA TwoMerge ==
    ASSUME NEW n, NEW tree, ValidTree(tree, n), NEW p \in Nat, NEW q \in Nat, p < q,
           p \notin LockNames(tree), q \notin LockNames(tree), p \notin DOMAIN Inherited,
           NEW early, IsPlace(tree.locks, n, p, early), NEW late, IsPlace(tree.locks, n, q, late),
           NEW one, Proposed(tree, n, p, early, one), NEW other, Proposed(tree, n, q, late, other)
    PROVE  /\ Conflict(tree, one, other) => {e \in LockNames(tree) : p < e /\ e < q} = {}
           /\ ~Conflict(tree, one, other) => Validates(Merged(tree, one, other))
<1>1. PICK locks : locks = tree.locks
    OBVIOUS
<1>2. /\ Sorted(locks, n) /\ n \in Nat /\ DOMAIN locks = 1..n /\ IsTree(tree)
      /\ IsPlace(locks, n, p, early) /\ IsPlace(locks, n, q, late)
      /\ early \in 1..(n + 1) /\ late \in 1..(n + 1)
    BY <1>1, LocksAreListed DEF ValidTree, Sorted, IsPlace
<1>3. PICK mine : mine = Entry(p, "upstream", "x")
    OBVIOUS
<1>4. PICK theirs : theirs = Entry(q, "upstream", "x")
    OBVIOUS
<1>5. mine.name = p /\ theirs.name = q
    BY <1>3, <1>4 DEF Entry
<1>6. PICK a : a = [place |-> early, entry |-> mine]
    OBVIOUS
<1>7. PICK b : b = [place |-> late, entry |-> theirs]
    OBVIOUS
<1>8. Inserted(tree, one) = a /\ Inserted(tree, other) = b
    BY <1>3, <1>4, <1>6, <1>7 DEF Proposed
<1>9. a.place = early /\ a.entry = mine /\ b.place = late /\ b.entry = theirs
    BY <1>6, <1>7
<1>10. PICK with : with = WithAt(locks, n, late, theirs)
    OBVIOUS
<1>11. /\ early <= late
       /\ early = late => \A i \in 1..n : ~(p < locks[i].name /\ locks[i].name < q)
       /\ IsPlace(with, n + 1, p, early)
    BY <1>2, <1>5, <1>10, PlaceStays
<1>12. Conflict(tree, one, other) <=> early = late
    BY <1>8, <1>9 DEF Conflict
<1>13. ASSUME early = late PROVE {e \in LockNames(tree) : p < e /\ e < q} = {}
    <2>1. SUFFICES ASSUME NEW e \in LockNames(tree), p < e, e < q PROVE FALSE
        OBVIOUS
    <2>2. PICK i \in 1..n : e = locks[i].name
        BY <1>1, <1>2 DEF LockNames, ToSet
    <2>3. QED BY <1>11, <1>13, <2>1, <2>2
<1>14. ASSUME early # late PROVE Validates(Merged(tree, one, other))
    <2>1. PICK recipes : recipes = [x \in Names(one.tree) \cup Names(other.tree) |->
                                       IF x \in Names(one.tree) THEN one.tree.recipes[x] ELSE other.tree.recipes[x]]
        OBVIOUS
    <2>2. PICK packit : packit = one.tree.packit \cup other.tree.packit
        OBVIOUS
    <2>3. PICK both : both = InsertAt(InsertAt(locks, b.place, b.entry), a.place, a.entry)
        OBVIOUS
    <2>4. ~(a.place > b.place)
        BY <1>2, <1>9, <1>11
    <2>5. PICK merged : merged = Merged(tree, one, other)
        OBVIOUS
    <2>6. merged = [tree EXCEPT !.recipes = recipes, !.locks = both, !.packit = packit]
        BY <1>1, <1>8, <2>1, <2>2, <2>3, <2>4, <2>5, Zenon DEF Merged
    <2>7. merged = [recipes |-> recipes, locks |-> both, packit |-> packit,
                    baseline |-> tree.baseline, reviewOnly |-> tree.reviewOnly]
        <3>1. tree = [recipes |-> tree.recipes, locks |-> tree.locks, packit |-> tree.packit,
                      baseline |-> tree.baseline, reviewOnly |-> tree.reviewOnly]
            BY <1>2 DEF IsTree
        <3>2. QED BY <2>6, <3>1
    <2>8. \A i \in 1..n : locks[i].name # p /\ locks[i].name # q
        BY <1>1, <1>2 DEF LockNames, ToSet
    <2>9. Sorted(with, n + 1) /\ ToSet(with) = ToSet(locks) \cup {theirs}
        <3>1. Sorted(WithAt(locks, n, late, theirs), n + 1)
            BY <1>2, <1>5, <2>8, InOrderWithIt
        <3>2. ToSet(WithAt(locks, n, late, theirs)) = ToSet(locks) \cup {theirs}
            BY <1>2, EntriesWithIt
        <3>3. QED BY <1>10, <3>1, <3>2
    <2>10. both = WithAt(with, n + 1, early, mine)
        <3>1. InsertAt(locks, late, theirs) = with
            BY <1>2, <1>5, <1>10, InsertionIs
        <3>2. early \in 1..(n + 1 + 1)
            BY <1>2
        <3>3. mine.name \in Nat
            BY <1>5
        <3>4. InsertAt(with, early, mine) = WithAt(with, n + 1, early, mine)
            BY <2>9, <3>2, <3>3, InsertionIs
        <3>5. QED BY <1>9, <2>3, <3>1, <3>4
    <2>11. Sorted(both, n + 1 + 1) /\ ToSet(both) = ToSet(locks) \cup {theirs} \cup {mine}
        <3>1. PICK m : m = n + 1 /\ m \in Nat
            BY <1>2
        <3>2. Sorted(with, m) /\ IsPlace(with, m, mine.name, early) /\ mine.name \in Nat
            BY <1>5, <1>11, <2>9, <3>1
        <3>3. \A i \in 1..m : with[i].name # mine.name
            <4>1. DOMAIN with = 1..m
                BY <3>2, LocksAreListed DEF Sorted
            <4>2. ASSUME NEW i \in 1..m PROVE with[i] \in ToSet(locks) \cup {theirs}
                BY <2>9, <4>1 DEF ToSet
            <4>3. \A e \in ToSet(locks) : e.name # p
                BY <1>2, <2>8 DEF ToSet
            <4>4. QED BY <1>5, <4>2, <4>3
        <3>4. Sorted(WithAt(with, m, early, mine), m + 1)
            BY <3>2, <3>3, InOrderWithIt
        <3>5. early \in 1..(m + 1)
            BY <3>2 DEF IsPlace
        <3>6. ToSet(WithAt(with, m, early, mine)) = ToSet(with) \cup {mine}
            BY <3>2, <3>5, EntriesWithIt
        <3>7. QED BY <2>9, <2>10, <3>1, <3>4, <3>6
    <2>12. OneMore(tree, one.tree, p, mine) /\ OneMore(tree, other.tree, q, theirs)
        BY <1>3, <1>4 DEF Proposed
    <2>13. p \notin Names(tree) /\ q \notin Names(tree)
        BY DEF ValidTree, Validates, Accounted
    <2>14. OneMore(other.tree, merged, p, mine)
        <3>1. merged.recipes = recipes /\ merged.locks = both /\ merged.packit = packit
              /\ merged.baseline = tree.baseline /\ merged.reviewOnly = tree.reviewOnly
            BY <2>7
        <3>2. Names(one.tree) = Names(tree) \cup {p} /\ Names(other.tree) = Names(tree) \cup {q}
            BY <2>12 DEF OneMore
        <3>3. Names(merged) = Names(tree) \cup {p} \cup {q}
            BY <2>1, <3>1, <3>2 DEF Names
        <3>4. \A x \in Names(other.tree) : merged.recipes[x] = other.tree.recipes[x]
            <4>1. \A x \in Names(tree) : /\ one.tree.recipes[x] = tree.recipes[x]
                                         /\ other.tree.recipes[x] = tree.recipes[x]
                BY <2>12 DEF OneMore
            <4>2. q \notin Names(one.tree)
                BY <2>13, <3>2
            <4>3. QED BY <2>1, <3>1, <3>2, <4>1, <4>2
        <3>5. merged.recipes[p] = Recipe(p)
            <4>1. one.tree.recipes[p] = Recipe(p)
                BY <2>12 DEF OneMore
            <4>2. QED BY <2>1, <3>1, <3>2, <4>1
        <3>6. ToSet(merged.locks) = ToSet(other.tree.locks) \cup {mine}
            <4>1. ToSet(other.tree.locks) = ToSet(locks) \cup {theirs}
                BY <1>1, <2>12 DEF OneMore
            <4>2. QED BY <2>11, <3>1, <4>1
        <3>7. Names(merged) \subseteq merged.packit
            <4>1. Names(one.tree) \subseteq one.tree.packit /\ Names(other.tree) \subseteq other.tree.packit
                BY <2>12 DEF OneMore
            <4>2. QED BY <2>2, <3>1, <3>2, <3>3, <4>1
        <3>8. merged.baseline = other.tree.baseline /\ merged.reviewOnly = other.tree.reviewOnly
            BY <2>12, <3>1 DEF OneMore
        <3>9. QED BY <3>2, <3>3, <3>4, <3>5, <3>6, <3>7, <3>8 DEF OneMore
    <2>15. Validates(other.tree) /\ p \notin Names(other.tree)
        <3>1. Names(other.tree) = Names(tree) \cup {q}
            BY <2>12 DEF OneMore
        <3>2. QED BY <2>13, <3>1 DEF Proposed
    <2>16. Sorted(merged.locks, n + 1 + 1)
        BY <2>7, <2>11
    <2>17. Validates(merged)
        BY <1>3, <2>14, <2>15, <2>16, OneMoreIsValid
    <2>18. QED BY <2>5, <2>17, Zenon
<1>15. QED BY <1>12, <1>13, <1>14

\* A tree of two recipes is valid when its lock names them, in order.
LEMMA TreeIsValid ==
    ASSUME NEW n \in Nat, NEW names \in [1..n -> Nat], names \in Seq(Nat), Len(names) = n,
           \A i, j \in 1..n : i < j => names[i] < names[j],
           NEW two \in 1..n, names[two] = 2, NEW five \in 1..n, names[five] = 5
    PROVE  ValidTree(TreeWith(names), n)
<1> DEFINE suppressed(p) == IF p \in DOMAIN Inherited THEN Inherited[p] ELSE NoneSuppressed
           host(i) == IF names[i] = 5 THEN "fedora" ELSE "upstream"
<1>1. PICK recipes : recipes = [p \in {2, 5} |-> [Recipe(p) EXCEPT !.suppressed = suppressed(p)]]
    OBVIOUS
<1>2. PICK locks : locks = [i \in 1..n |-> Entry(names[i], host(i), "x")]
    OBVIOUS
<1>3. PICK tree : tree = TreeWith(names)
    OBVIOUS
<1>4. tree = [recipes |-> recipes, locks |-> locks, packit |-> {2, 5}, baseline |-> {5}, reviewOnly |-> {2}]
    <2>1. DOMAIN names = 1..n
        OBVIOUS
    <2>2. QED BY <1>1, <1>2, <1>3, <2>1, Zenon DEF TreeWith
<1>5. \A i \in 1..n : /\ locks[i].name = names[i] /\ locks[i].host = host(i) /\ locks[i].formed = TRUE
    BY <1>2 DEF Entry
<1>6. ASSUME NEW p \in {2, 5}
      PROVE  /\ recipes[p].specs = 1 /\ recipes[p].manifest = "sha512"
             /\ recipes[p].suppressed = suppressed(p) /\ recipes[p].provenance = Fedoras(p)
    <2>1. PICK s : s = suppressed(p)
        OBVIOUS
    <2>2. recipes[p] = [Recipe(p) EXCEPT !.suppressed = s]
        BY <1>1, <2>1
    <2>3. QED BY <2>1, <2>2 DEF Recipe
<1>7. tree.recipes = recipes /\ tree.locks = locks /\ tree.packit = {2, 5}
      /\ tree.baseline = {5} /\ tree.reviewOnly = {2} /\ Names(tree) = {2, 5}
    BY <1>1, <1>4 DEF Names
<1> HIDE DEF suppressed
<1>8. IsLocks(locks) /\ Len(locks) = n /\ DOMAIN locks = 1..n
    <2>1. locks = [i \in 1..n |-> locks[i]] /\ \A i \in 1..n : locks[i].name \in Nat
        BY <1>2, <1>5
    <2>2. IsLocks(locks) /\ Len(locks) = n
        BY <2>1, ListedAreLocks
    <2>3. QED BY <1>2, <2>2
<1>9. Sorted(locks, n)
    BY <1>5, <1>8 DEF Sorted
<1>10. IsTree(tree)
    BY <1>4, <1>7, <1>8 DEF IsTree
<1>11. ASSUME NEW e \in ToSet(locks)
       PROVE  \E i \in 1..n : /\ e = locks[i] /\ e.name = names[i] /\ e.formed = TRUE
                              /\ e.host = IF names[i] = 5 THEN "fedora" ELSE "upstream"
    BY <1>5, <1>8 DEF ToSet
<1>12. /\ locks[two] \in ToSet(locks) /\ locks[two].name = 2
       /\ locks[five] \in ToSet(locks) /\ locks[five].name = 5 /\ locks[five].host = "fedora"
    BY <1>5, <1>8 DEF ToSet
<1>13. \A p \in Names(tree) : ProvenanceHolds(p, tree.recipes[p].provenance)
    BY <1>6, <1>7 DEF ProvenanceHolds, Fedoras
<1>14. SuppressesNothingNew(tree)
    BY <1>6, <1>7 DEF SuppressesNothingNew, suppressed
<1>15. RatchetHolds(tree)
    <2>1. \A e \in ToSet(locks) : e.host = "fedora" <=> e.name = 5
        <3>1. "upstream" # "fedora"
            OBVIOUS
        <3>2. QED BY <1>11, <3>1
    <2>2. FedoraPrimaries(tree) = {5}
        BY <1>7, <1>12, <2>1 DEF FedoraPrimaries
    <2>3. QED BY <1>7, <2>2 DEF RatchetHolds
<1>16. NothingPlaintext(tree)
    BY <1>7, <1>11 DEF NothingPlaintext
<1>17. ManifestsHold(tree)
    BY <1>6, <1>7 DEF ManifestsHold
<1>18. 2 \in LockNames(tree) /\ 5 \in LockNames(tree)
    BY <1>7, <1>12 DEF LockNames
<1>19. ReviewOnlyHolds(tree)
    BY <1>7, <1>18 DEF ReviewOnlyHolds
<1>20. InLockOrder(tree.locks)
    <2>1. ASSUME NEW i \in 1..(n - 1) PROVE locks[i].name <= locks[i + 1].name
        <3>1. i \in 1..n /\ i + 1 \in 1..n /\ i < i + 1
            OBVIOUS
        <3>2. QED BY <1>5, <3>1
    <2>2. QED BY <1>7, <1>8, <2>1 DEF InLockOrder
<1>21. Accounted(tree)
    <2>1. \A p \in Names(tree) : tree.recipes[p].specs = 1
        BY <1>6, <1>7
    <2>2. LocksLoad(tree.locks)
        <3>1. ASSUME NEW i \in 1..n, NEW j \in 1..n, locks[i].name = locks[j].name
              PROVE  i = j
            <4>1. names[i] = names[j] /\ names[i] \in Nat /\ ~(i < j) /\ ~(j < i)
                BY <1>5, <3>1
            <4>2. QED BY <4>1
        <3>2. \A i \in 1..n : locks[i].formed
            BY <1>5
        <3>3. QED BY <1>7, <1>8, <3>1, <3>2 DEF LocksLoad
    <2>3. Names(tree) \subseteq LockNames(tree) \cap tree.packit
        BY <1>7, <1>18
    <2>4. QED BY <2>1, <2>2, <2>3 DEF Accounted
<1>22. Validates(tree)
    BY <1>13, <1>14, <1>15, <1>16, <1>17, <1>19, <1>20, <1>21 DEF Validates
<1>23. QED BY <1>3, <1>7, <1>9, <1>10, <1>22 DEF ValidTree

\* The trees that imports of two packages are called with are valid.
LEMMA GoodTreesAreValid == \A tree \in GoodTrees : \E n : ValidTree(tree, n)
<1>1. PICK names : names = <<2, 5>>
    OBVIOUS
<1>2. /\ names \in [1..2 -> Nat] /\ names \in Seq(Nat) /\ Len(names) = 2
      /\ names[1] = 2 /\ names[2] = 5
    BY <1>1
<1>3. \A i, j \in 1..2 : i < j => names[i] < names[j]
    BY <1>2
<1>4. 1 \in 1..2 /\ 2 \in 1..2
    OBVIOUS
<1>5. ValidTree(TreeWith(names), 2)
    BY <1>2, <1>3, <1>4, TreeIsValid
<1>6. PICK more : more = <<2, 4, 5>>
    OBVIOUS
<1>7. /\ more \in [1..3 -> Nat] /\ more \in Seq(Nat) /\ Len(more) = 3
      /\ more[1] = 2 /\ more[2] = 4 /\ more[3] = 5
    BY <1>6
<1>8. \A i, j \in 1..3 : i < j => more[i] < more[j]
    BY <1>7
<1>9. 1 \in 1..3 /\ 3 \in 1..3
    OBVIOUS
<1>10. ValidTree(TreeWith(more), 3)
    BY <1>7, <1>8, <1>9, TreeIsValid
<1>11. QED BY <1>1, <1>5, <1>6, <1>10 DEF GoodTrees

\* The import of a package of Fedora whose source is served as it should be.
PlainImport(p) == [package |-> p, recipe |-> Recipe(p), source |-> Upstreams("x")]

\* What imports are called with: one package, or two and a valid tree.
LEMMA PairCallShape ==
    ASSUME CallIsMade, call.tool = "imports"
    PROVE  \/ \E i : call.in.imports = <<i>>
           \/ \E p \in {1, 3, 4}, q \in {1, 3, 4, 6} :
                  call.in.imports = <<PlainImport(p), PlainImport(q)>> /\ call.in.tree \in GoodTrees
<1>1. call \in ImportsCalls
    BY CallTools DEF CallIsMade
<1>2. call.in \in ImportInputs
    BY <1>1 DEF ImportsCalls, Calls
<1> DEFINE trees == GoodTrees \cup BadTrees
           recipes == {<<i>> : i \in [package : {1, 4}, recipe : ImportRecipes, source : {Upstreams("x")}]}
           sources == {<<i>> : i \in [package : {4}, recipe : {Recipe(4)}, source : ImportSources]}
           pairs == PlainImports({1, 3, 4}) \X PlainImports({1, 3, 4, 6})
<1>3. call.in.imports \in recipes \cup sources \/ (call.in.imports \in pairs /\ call.in.tree \in GoodTrees)
    <2> HIDE DEF recipes, sources, pairs
    <2>1. call.in \in [tree : trees, imports : recipes] \cup [tree : trees, imports : sources]
                           \cup [tree : GoodTrees, imports : pairs]
        BY <1>2 DEF ImportInputs, recipes, sources, pairs
    <2>2. QED BY <2>1
<1>4. CASE call.in.imports \in recipes \cup sources
    BY <1>4
<1>5. CASE call.in.imports \in pairs /\ call.in.tree \in GoodTrees
    <2>1. PICK i \in PlainImports({1, 3, 4}), j \in PlainImports({1, 3, 4, 6}) :
              call.in.imports = <<i, j>>
        BY <1>5
    <2>2. PICK p \in {1, 3, 4} : i = PlainImport(p)
        BY DEF PlainImports, PlainImport
    <2>3. PICK q \in {1, 3, 4, 6} : j = PlainImport(q)
        BY DEF PlainImports, PlainImport
    <2>4. QED BY <1>5, <2>1, <2>2, <2>3
<1>6. QED BY <1>3, <1>4, <1>5

\* Both imports open, and merge unless they land next to each other.
MergeApart(tree, p, q, one, other) ==
    /\ one.opened /\ other.opened
    /\ Conflict(tree, one, other) => {e \in LockNames(tree) : p < e /\ e < q} = {}
    /\ ~Conflict(tree, one, other) => Validates(Merged(tree, one, other))

\* No package that is to be imported is one of those listed for the suppressed
\* tests they came with, which main already carries (check_suppressed_tests.py:
\* INHERITED and INHERITED_FALLBACKS): drifted would refuse its recipe for
\* suppressing none.
NoneInherited == \A p \in {1, 3, 4, 6} : p \notin DOMAIN Inherited

\* Two packages a valid tree does not know can be imported at the same time,
\* whatever else its lock names (bootstrap_upstream_sources.py: merge_candidates,
\* import_proposal.py, validate.py).
LEMMA TwoImports ==
    ASSUME NEW n, NEW tree, ValidTree(tree, n), NEW p \in Nat, NEW q \in Nat, p < q,
           {p, q} \cap LockNames(tree) = {}, {p, q} \cap DOMAIN Inherited = {},
           NEW one, one = ImportPackage(tree, p, Recipe(p), Upstreams("x")),
           NEW other, other = ImportPackage(tree, q, Recipe(q), Upstreams("x"))
    PROVE  MergeApart(tree, p, q, one, other)
<1>1. PICK early : IsPlace(tree.locks, n, p, early) /\ Proposed(tree, n, p, early, one)
    BY PlainIsProposed
<1>2. PICK late : IsPlace(tree.locks, n, q, late) /\ Proposed(tree, n, q, late, other)
    BY PlainIsProposed
<1>3. /\ Conflict(tree, one, other) => {e \in LockNames(tree) : p < e /\ e < q} = {}
      /\ ~Conflict(tree, one, other) => Validates(Merged(tree, one, other))
    BY <1>1, <1>2, TwoMerge
<1>4. one.opened /\ other.opened
    BY <1>1, <1>2 DEF Proposed
<1>5. QED BY <1>3, <1>4 DEF MergeApart

\* Two imports of one commit both open, conflict only next to each other, and
\* merge into a tree validate.py accepts, when the packages are new ones.
THEOREM ImportsMergeCorrect == NoneInherited => (Spec => []ImportsMergeApart)
<1> SUFFICES ASSUME NoneInherited PROVE Spec => []ImportsMergeApart
    OBVIOUS
<1>1. Init => ImportsMergeApart
    BY DEF Init, ImportsMergeApart, Answered
<1>2. CallIsMade /\ ImportsMergeApart /\ [Next]_toolVars => ImportsMergeApart'
    <2> SUFFICES ASSUME CallIsMade, ImportsMergeApart, [Next]_toolVars PROVE ImportsMergeApart'
        OBVIOUS
    <2>0. call' = call
        BY OneAnswer
    <2>1. CASE answer' = answer
        BY <2>0, <2>1, Zenon DEF ImportsMergeApart, Answered
    <2>2. CASE call.tool # "imports"
        <3>1. call'.tool # "imports"
            BY <2>0, <2>2
        <3>2. QED BY <3>1, Zenon DEF ImportsMergeApart, Answered
    <2>3. CASE answer' # answer /\ call.tool = "imports"
        <3>1. PICK is, tree, imports :
                  /\ tree = call.in.tree /\ imports = call.in.imports
                  /\ is = [i \in DOMAIN imports |-> ImportPackage(tree, imports[i].package, imports[i].recipe, imports[i].source)]
            OBVIOUS
        <3>2. answer'.is = is
            BY <2>3, <3>1, OneAnswer
        <3>3. ASSUME NEW i, imports = <<i>> PROVE Len(is) # 2
            <4>1. DOMAIN imports = 1..1
                BY <3>3
            <4>2. PICK only : only = ImportPackage(tree, imports[1].package, imports[1].recipe, imports[1].source)
                OBVIOUS
            <4>3. is = <<only>>
                BY <3>1, <4>1, <4>2
            <4>4. QED BY <4>3
        <3>4. ASSUME NEW p \in {1, 3, 4}, NEW q \in {1, 3, 4, 6}, tree \in GoodTrees,
                     imports = <<PlainImport(p), PlainImport(q)>>,
                     p < q, {p, q} \cap LockNames(tree) = {}
              PROVE  MergeApart(tree, p, q, is[1], is[2])
            <4>1. PICK a : a = PlainImport(p)
                OBVIOUS
            <4>2. PICK b : b = PlainImport(q)
                OBVIOUS
            <4>3. /\ a.package = p /\ a.recipe = Recipe(p) /\ a.source = Upstreams("x")
                  /\ b.package = q /\ b.recipe = Recipe(q) /\ b.source = Upstreams("x")
                BY <4>1, <4>2 DEF PlainImport
            <4>4. imports = <<a, b>>
                BY <3>4, <4>1, <4>2
            <4>5. 1 \in DOMAIN imports /\ 2 \in DOMAIN imports /\ imports[1] = a /\ imports[2] = b
                BY <4>4
            <4>6. /\ is[1] = ImportPackage(tree, a.package, a.recipe, a.source)
                  /\ is[2] = ImportPackage(tree, b.package, b.recipe, b.source)
                BY <3>1, <4>5
            <4>7. PICK one, other : one = is[1] /\ other = is[2]
                OBVIOUS
            <4>8. /\ one = ImportPackage(tree, p, Recipe(p), Upstreams("x"))
                  /\ other = ImportPackage(tree, q, Recipe(q), Upstreams("x"))
                BY <4>3, <4>6, <4>7
            <4>9. PICK n : ValidTree(tree, n)
                BY <3>4, GoodTreesAreValid
            <4>10. p \in Nat /\ q \in Nat /\ {p, q} \cap DOMAIN Inherited = {}
                BY DEF NoneInherited
            <4>11. MergeApart(tree, p, q, one, other)
                BY <3>4, <4>8, <4>9, <4>10, TwoImports
            <4>12. QED BY <4>7, <4>11
        <3>5. \/ \E i : imports = <<i>>
              \/ \E p \in {1, 3, 4}, q \in {1, 3, 4, 6} :
                     imports = <<PlainImport(p), PlainImport(q)>> /\ tree \in GoodTrees
            BY <2>3, <3>1, PairCallShape
        <3>6. ASSUME Len(is) = 2, imports[1].package < imports[2].package,
                     {imports[1].package, imports[2].package} \cap LockNames(tree) = {}
              PROVE  MergeApart(tree, imports[1].package, imports[2].package, is[1], is[2])
            <4>1. PICK p \in {1, 3, 4}, q \in {1, 3, 4, 6} :
                      imports = <<PlainImport(p), PlainImport(q)>> /\ tree \in GoodTrees
                BY <3>3, <3>5, <3>6
            <4>2. imports[1].package = p /\ imports[2].package = q
                BY <4>1 DEF PlainImport
            <4>3. p < q /\ {p, q} \cap LockNames(tree) = {}
                BY <3>6, <4>2
            <4>4. QED BY <3>4, <4>1, <4>2, <4>3
        <3>7. call'.in.tree = tree /\ call'.in.imports = imports
            BY <2>0, <3>1
        <3>8. QED BY <3>2, <3>6, <3>7, Zenon DEF ImportsMergeApart, MergeApart
    <2>4. QED BY <2>1, <2>2, <2>3
<1>3. QED BY <1>1, <1>2, CallsStay, PTL DEF Spec

-----------------------------------------------------------------------------
(* Tracking: the issues, over any number of runs.                           *)

\* Induction over the naturals, for a set.
LEMMA SetInduction ==
    ASSUME NEW S, 0 \in S, \A n \in Nat : n \in S => n + 1 \in S
    PROVE  Nat \subseteq S
<1> DEFINE Missing == Nat \ S
<1>1. SUFFICES ASSUME Missing # {} PROVE FALSE
    OBVIOUS
<1>2. Missing \in SUBSET Nat
    OBVIOUS
<1>3. PICK least \in Missing : \A n \in Missing : least <= n
    BY <1>1, <1>2, FirstOne
<1>4. least \in Nat /\ least # 0
    BY <1>3
<1>5. least - 1 \in Nat /\ (least - 1) + 1 = least /\ ~(least <= least - 1)
    BY <1>4
<1>6. least - 1 \in S
    BY <1>3, <1>5
<1>7. QED BY <1>3, <1>5, <1>6

\* Of some of the first n numbers there is a last.
LEMMA LastOne ==
    ASSUME NEW n \in Nat, NEW S \in SUBSET (1..n), S # {}
    PROVE  \E last \in S : \A i \in S : i <= last
<1> DEFINE Left == {n - i : i \in S}
<1>1. Left \in SUBSET Nat /\ Left # {}
    <2>1. \A i \in S : n - i \in Nat
        OBVIOUS
    <2>2. QED BY <2>1
<1>2. PICK least \in Left : \A k \in Left : least <= k
    BY <1>1, FirstOne
<1>3. PICK last \in S : least = n - last
    BY <1>2
<1>4. ASSUME NEW i \in S PROVE i <= last
    <2>1. n - last <= n - i
        BY <1>2, <1>3
    <2>2. QED BY <2>1
<1>5. QED BY <1>4

IsIssue(issue) ==
    /\ issue = [open |-> issue.open, marker |-> issue.marker, told |-> issue.told]
    /\ issue.open \in BOOLEAN

\* The followers of an open issue know what its body says.
IsTold(issue) == issue.open /\ issue.marker # <<>> => issue.told = issue.marker

\* One report.
LEMMA TrackedOnce ==
    ASSUME NEW issue, IsIssue(issue), NEW run
    PROVE  LET after == Tracked(issue, run)
               failed == FailuresFromArtifacts(run)
           IN  /\ IsIssue(after)
               /\ run.breaks # "comment" /\ IsTold(issue) => IsTold(after)
               /\ ~(Reports(run) /\ Production(run)) => after = issue
               /\ Reports(run) /\ Production(run) /\ run.breaks = "none" =>
                     /\ after.open <=> ~Healthy(run)
                     /\ after.open => after.marker = <<failed>>
                     /\ after.open /\ IsTold(issue) => after.told = <<failed>>
<1> DEFINE after == Tracked(issue, run)
           failed == FailuresFromArtifacts(run)
<1>1. IsIssue(NoIssue) /\ ~NoIssue.open
    BY DEF NoIssue, IsIssue
<1>2. CASE ~(Reports(run) /\ Production(run))
    BY <1>2 DEF Tracked
<1>3. CASE Reports(run) /\ Production(run) /\ Healthy(run)
    <2>1. after = IF issue.open /\ run.breaks # "close" THEN NoIssue ELSE issue
        BY <1>3 DEF Tracked, Closed
    <2>2. QED BY <1>1, <1>3, <2>1 DEF IsTold, IsIssue
<1>4. CASE Reports(run) /\ Production(run) /\ ~Healthy(run) /\ ~issue.open
    <2>1. CASE run.breaks = "create"
        <3>1. after = issue
            BY <1>4, <2>1 DEF Tracked, Opened
        <3>2. QED BY <1>4, <2>1, <3>1
    <2>2. CASE run.breaks # "create"
        <3>1. after = [open |-> TRUE, marker |-> <<failed>>, told |-> <<failed>>]
            BY <1>4, <2>2 DEF Tracked, Opened, Body
        <3>2. QED BY <1>4, <3>1 DEF IsTold, IsIssue
    <2>3. QED BY <2>1, <2>2
<1>5. CASE Reports(run) /\ Production(run) /\ ~Healthy(run) /\ issue.open
    <2>1. CASE run.breaks = "edit"
        <3>1. after = issue
            BY <1>5, <2>1 DEF Tracked, Edited
        <3>2. QED BY <1>5, <2>1, <3>1
    <2>2. CASE run.breaks # "edit"
        <3> DEFINE told == IF issue.marker = <<failed>> \/ run.breaks = "comment" THEN issue.told ELSE <<failed>>
        <3>1. after = [open |-> TRUE, marker |-> <<failed>>, told |-> told]
            <4>1. after = [issue EXCEPT !.marker = <<failed>>, !.told = told]
                BY <1>5, <2>2 DEF Tracked, Edited, Body
            <4>2. PICK marker, was : issue = [open |-> TRUE, marker |-> marker, told |-> was]
                BY <1>5 DEF IsIssue
            <4> HIDE DEF told
            <4>3. QED BY <4>1, <4>2
        <3>2. QED BY <1>5, <3>1 DEF IsTold, IsIssue
    <2>3. QED BY <2>1, <2>2
<1>6. QED BY <1>2, <1>3, <1>4, <1>5 DEF IsIssue

Hands == {"none", "close", "edit"}

\* What people do between two runs.
LEMMA HandledOnce ==
    ASSUME NEW issue, IsIssue(issue), NEW hand \in Hands
    PROVE  /\ IsIssue(Handled(issue, hand))
           /\ IsTold(issue) => IsTold(Handled(issue, hand))
           /\ hand = "none" => Handled(issue, hand) = issue
<1>1. CASE hand = "none"
    <2>1. Handled(issue, hand) = issue
        BY <1>1, Zenon DEF Handled
    <2>2. QED BY <2>1
<1>2. CASE hand = "close"
    <2>1. Handled(issue, hand) = NoIssue
        BY <1>2, Zenon DEF Handled
    <2>2. IsIssue(NoIssue) /\ IsTold(NoIssue) /\ hand # "none"
        BY <1>2 DEF NoIssue, IsIssue, IsTold
    <2>3. QED BY <2>1, <2>2, Zenon
<1>3. CASE hand = "edit"
    <2>1. Handled(issue, hand) = [issue EXCEPT !.marker = <<>>]
        BY <1>3, Zenon DEF Handled
    <2>2. PICK open, marker, told : issue = [open |-> open, marker |-> marker, told |-> told] /\ open \in BOOLEAN
        BY DEF IsIssue
    <2>3. Handled(issue, hand) = [open |-> open, marker |-> <<>>, told |-> told]
        BY <2>1, <2>2
    <2>4. PICK after : after = Handled(issue, hand)
        OBVIOUS
    <2>5. IsIssue(after) /\ IsTold(after)
        BY <2>2, <2>3, <2>4 DEF IsIssue, IsTold
    <2>6. IsIssue(Handled(issue, hand)) /\ IsTold(Handled(issue, hand))
        BY <2>4, <2>5, Zenon
    <2>7. hand # "none"
        BY <1>3
    <2>8. QED BY <2>6, <2>7, Zenon
<1>4. QED BY <1>1, <1>2, <1>3, Zenon DEF Hands

\* issue holds the tracking issue after each of the first n runs.
Tracks(runs, issue, n) ==
    issue = [i \in 0..n |->
                IF i = 0 THEN NoIssue ELSE Tracked(Handled(issue[i - 1], runs[i].hand), runs[i])]

\* There is such a history, for any number of runs.
LEMMA TracksExist ==
    ASSUME NEW runs, NEW n \in Nat
    PROVE  \E issue : Tracks(runs, issue, n)
<1> DEFINE S == {m \in Nat : \E issue : Tracks(runs, issue, m)}
<1>1. 0 \in S
    <2>1. Tracks(runs, [i \in 0..0 |-> NoIssue], 0)
        BY DEF Tracks
    <2>2. QED BY <2>1
<1>2. ASSUME NEW m \in Nat, m \in S
      PROVE  m + 1 \in S
    <2>1. PICK issue : Tracks(runs, issue, m)
        BY <1>2
    <2> DEFINE longer == [i \in 0..(m + 1) |->
                              IF i = m + 1 THEN Tracked(Handled(issue[m], runs[m + 1].hand), runs[m + 1])
                              ELSE issue[i]]
    <2>2. ASSUME NEW i \in 0..(m + 1)
          PROVE  longer[i] = IF i = 0 THEN NoIssue
                             ELSE Tracked(Handled(longer[i - 1], runs[i].hand), runs[i])
        <3>1. CASE i = m + 1
            BY <3>1
        <3>2. CASE i # m + 1
            <4>1. i \in 0..m
                BY <3>2
            <4>2. issue[i] = IF i = 0 THEN NoIssue
                             ELSE Tracked(Handled(issue[i - 1], runs[i].hand), runs[i])
                BY <2>1, <4>1 DEF Tracks
            <4>3. longer[i] = issue[i] /\ (i # 0 => longer[i - 1] = issue[i - 1])
                BY <4>1
            <4>4. QED BY <4>2, <4>3
        <3>3. QED BY <3>1, <3>2
    <2>3. longer = [i \in 0..(m + 1) |-> longer[i]]
        OBVIOUS
    <2> HIDE DEF longer
    <2>4. longer = [i \in 0..(m + 1) |-> IF i = 0 THEN NoIssue
                              ELSE Tracked(Handled(longer[i - 1], runs[i].hand), runs[i])]
        BY <2>2, <2>3
    <2>5. Tracks(runs, longer, m + 1)
        BY <2>4 DEF Tracks
    <2>6. QED BY <2>5
<1>3. Nat \subseteq S
    <2> HIDE DEF S
    <2>1. QED BY <1>1, <1>2, SetInduction
<1>4. QED BY <1>3

\* What the issue is after the last run, and after every one before.
LEMMA IssueIsTracked ==
    ASSUME NEW runs, Len(runs) \in Nat
    PROVE  \E issue : /\ IssueAfter(runs) = issue[Len(runs)]
                      /\ issue[0] = NoIssue
                      /\ \A i \in 1..Len(runs) :
                             issue[i] = Tracked(Handled(issue[i - 1], runs[i].hand), runs[i])
<1>1. IssueAfter(runs) = (CHOOSE issue : Tracks(runs, issue, Len(runs)))[Len(runs)]
    BY DEF IssueAfter, Tracks
<1>2. \E issue : Tracks(runs, issue, Len(runs))
    BY TracksExist
<1>3. Tracks(runs, CHOOSE issue : Tracks(runs, issue, Len(runs)), Len(runs))
    BY <1>2
<1>4. PICK issue : issue = CHOOSE other : Tracks(runs, other, Len(runs))
    OBVIOUS
<1>5. Tracks(runs, issue, Len(runs)) /\ IssueAfter(runs) = issue[Len(runs)]
    BY <1>1, <1>3, <1>4
<1>6. issue[0] = NoIssue
    BY <1>5 DEF Tracks
<1>7. ASSUME NEW i \in 1..Len(runs)
      PROVE  issue[i] = Tracked(Handled(issue[i - 1], runs[i].hand), runs[i])
    <2>1. i \in 0..Len(runs) /\ i # 0
        OBVIOUS
    <2>2. QED BY <1>5, <2>1 DEF Tracks
<1>8. QED BY <1>5, <1>6, <1>7

\* The last verdict is a run.
LEMMA LastVerdictIs ==
    ASSUME NEW runs, NEW n \in Nat, DOMAIN runs = 1..n, Verdicts(runs) # {}
    PROVE  /\ LastVerdict(runs) \in Verdicts(runs)
           /\ \A j \in Verdicts(runs) : j <= LastVerdict(runs)
<1>1. Verdicts(runs) \in SUBSET (1..n)
    BY DEF Verdicts
<1>2. \E i \in Verdicts(runs) : \A j \in Verdicts(runs) : j <= i
    BY <1>1, LastOne
<1>3. QED BY <1>2 DEF LastVerdict

\* The issue is that of the last verdict.
LEMMA IssueIsCurrent ==
    ASSUME NEW runs, NEW n \in Nat, DOMAIN runs = 1..n, Len(runs) = n,
           \A j \in 1..n : runs[j].hand \in Hands,
           NEW i \in Verdicts(runs), \A j \in Verdicts(runs) : j <= i,
           runs[i].breaks = "none", \A j \in i + 1..n : runs[j].hand = "none"
    PROVE  LET is == IssueAfter(runs)
               failed == FailuresFromArtifacts(runs[i])
           IN  /\ is.open <=> ~Healthy(runs[i])
               /\ is.open => is.marker = <<failed>>
               /\ is.open /\ (\A j \in 1..n : runs[j].breaks # "comment") => is.told = <<failed>>
<1> DEFINE failed == FailuresFromArtifacts(runs[i])
           quiet == \A j \in 1..n : runs[j].breaks # "comment"
<1>1. PICK issue : /\ IssueAfter(runs) = issue[n] /\ issue[0] = NoIssue
                   /\ \A k \in 1..n : issue[k] = Tracked(Handled(issue[k - 1], runs[k].hand), runs[k])
    BY IssueIsTracked
<1>2. \A k \in 0..n : IsIssue(issue[k]) /\ (quiet => IsTold(issue[k]))
    <2> DEFINE S == {k \in Nat : k <= n => IsIssue(issue[k]) /\ (quiet => IsTold(issue[k]))}
    <2>1. 0 \in S
        <3>1. IsIssue(NoIssue) /\ IsTold(NoIssue)
            BY DEF NoIssue, IsIssue, IsTold
        <3>2. IsIssue(issue[0]) /\ IsTold(issue[0])
            BY <1>1, <3>1, Zenon
        <3> HIDE DEF quiet
        <3>3. QED BY <3>2
    <2>2. ASSUME NEW k \in Nat, k \in S PROVE k + 1 \in S
        <3> SUFFICES ASSUME k + 1 <= n
                     PROVE  IsIssue(issue[k + 1]) /\ (quiet => IsTold(issue[k + 1]))
            OBVIOUS
        <3>1. k + 1 \in 1..n /\ (k + 1) - 1 = k /\ k <= n
            OBVIOUS
        <3>2. issue[k + 1] = Tracked(Handled(issue[k], runs[k + 1].hand), runs[k + 1])
            BY <1>1, <3>1
        <3>3. IsIssue(issue[k]) /\ (quiet => IsTold(issue[k]))
            BY <2>2, <3>1
        <3>4. PICK handled : handled = Handled(issue[k], runs[k + 1].hand)
            OBVIOUS
        <3>5. IsIssue(handled) /\ (quiet => IsTold(handled))
            BY <3>1, <3>3, <3>4, HandledOnce
        <3>6. quiet => runs[k + 1].breaks # "comment"
            BY <3>1
        <3> HIDE DEF quiet
        <3>7. QED BY <3>2, <3>4, <3>5, <3>6, TrackedOnce
    <2>3. Nat \subseteq S
        <3> HIDE DEF S
        <3>1. QED BY <2>1, <2>2, SetInduction
    <2>4. QED BY <2>3
<1>3. i \in 1..n /\ Reports(runs[i]) /\ Production(runs[i])
    BY DEF Verdicts, Reports, Production
<1>4. /\ issue[i].open <=> ~Healthy(runs[i])
      /\ issue[i].open => issue[i].marker = <<failed>>
      /\ issue[i].open /\ quiet => issue[i].told = <<failed>>
    <2>1. i - 1 \in 0..n /\ issue[i] = Tracked(Handled(issue[i - 1], runs[i].hand), runs[i])
        BY <1>1, <1>3
    <2>2. PICK handled : handled = Handled(issue[i - 1], runs[i].hand)
        OBVIOUS
    <2>3. IsIssue(issue[i - 1]) /\ (quiet => IsTold(issue[i - 1])) /\ runs[i].hand \in Hands
        BY <1>2, <1>3, <2>1
    <2> HIDE DEF quiet, failed
    <2>4. IsIssue(handled) /\ (quiet => IsTold(handled))
        BY <2>2, <2>3, HandledOnce
    <2>5. PICK run : run = runs[i]
        OBVIOUS
    <2>6. quiet => run.breaks # "comment"
        BY <1>3, <2>5 DEF quiet
    <2>7. PICK after : after = Tracked(handled, run)
        OBVIOUS
    <2>8. issue[i] = after
        BY <2>1, <2>2, <2>5, <2>7, Zenon
    <2>9. Reports(run) /\ Production(run) /\ run.breaks = "none"
        BY <1>3, <2>5
    <2>10. /\ after.open <=> ~Healthy(run)
           /\ after.open => after.marker = <<FailuresFromArtifacts(run)>>
           /\ after.open /\ IsTold(handled) => after.told = <<FailuresFromArtifacts(run)>>
        BY <2>4, <2>7, <2>9, TrackedOnce
    <2>11. QED BY <2>4, <2>5, <2>8, <2>10 DEF failed
<1>5. \A k \in i..n : issue[k] = issue[i]
    <2> DEFINE S == {d \in Nat : i + d <= n => issue[i + d] = issue[i]}
    <2>1. 0 \in S
        BY <1>3
    <2>2. ASSUME NEW d \in Nat, d \in S PROVE d + 1 \in S
        <3> SUFFICES ASSUME i + (d + 1) <= n PROVE issue[i + (d + 1)] = issue[i]
            OBVIOUS
        <3>1. PICK k \in 1..n : k = i + (d + 1)
            BY <1>3
        <3>2. k - 1 = i + d /\ k \in i + 1..n /\ k - 1 \in 0..n /\ k > i
            BY <1>3, <3>1
        <3>3. issue[k - 1] = issue[i]
            BY <1>3, <2>2, <3>1, <3>2
        <3>4. k \notin Verdicts(runs)
            BY <1>3, <3>2
        <3>5. ~(Reports(runs[k]) /\ Production(runs[k]))
            BY <3>4 DEF Verdicts, Reports, Production
        <3>6. IsIssue(issue[k - 1]) /\ runs[k].hand = "none"
            BY <1>2, <3>2
        <3>7. Handled(issue[k - 1], runs[k].hand) = issue[k - 1]
            BY <3>6, HandledOnce DEF Hands
        <3>8. issue[k] = Tracked(issue[k - 1], runs[k])
            BY <1>1, <3>7
        <3>9. issue[k] = issue[k - 1]
            BY <3>5, <3>6, <3>8, TrackedOnce
        <3>10. QED BY <3>1, <3>3, <3>9
    <2>3. Nat \subseteq S
        <3> HIDE DEF S
        <3>1. QED BY <2>1, <2>2, SetInduction
    <2>4. ASSUME NEW k \in i..n PROVE issue[k] = issue[i]
        <3>1. k - i \in Nat /\ i + (k - i) = k /\ k <= n
            BY <1>3
        <3>2. k - i \in S
            BY <2>3, <3>1
        <3>3. QED BY <3>1, <3>2
    <2>5. QED BY <2>4
<1>6. IssueAfter(runs) = issue[i]
    BY <1>1, <1>3, <1>5
<1>7. QED BY <1>4, <1>6

\* open holds the packages whose issue is open after each of the first n runs.
Opens(runs, open, n) ==
    open = [i \in 0..n |-> IF i = 0 THEN {} ELSE UtahTracked(open[i - 1], runs[i])]

\* There is such a history too.
LEMMA OpensExist ==
    ASSUME NEW runs, NEW n \in Nat
    PROVE  \E open : Opens(runs, open, n)
<1> DEFINE S == {m \in Nat : \E open : Opens(runs, open, m)}
<1>1. 0 \in S
    <2>1. Opens(runs, [i \in 0..0 |-> {}], 0)
        BY DEF Opens
    <2>2. QED BY <2>1
<1>2. ASSUME NEW m \in Nat, m \in S
      PROVE  m + 1 \in S
    <2>1. PICK open : Opens(runs, open, m)
        BY <1>2
    <2> DEFINE longer == [i \in 0..(m + 1) |->
                              IF i = m + 1 THEN UtahTracked(open[m], runs[m + 1]) ELSE open[i]]
    <2>2. ASSUME NEW i \in 0..(m + 1)
          PROVE  longer[i] = IF i = 0 THEN {} ELSE UtahTracked(longer[i - 1], runs[i])
        <3>1. CASE i = m + 1
            BY <3>1
        <3>2. CASE i # m + 1
            <4>1. i \in 0..m
                BY <3>2
            <4>2. open[i] = IF i = 0 THEN {} ELSE UtahTracked(open[i - 1], runs[i])
                BY <2>1, <4>1 DEF Opens
            <4>3. longer[i] = open[i] /\ (i # 0 => longer[i - 1] = open[i - 1])
                BY <4>1
            <4>4. QED BY <4>2, <4>3
        <3>3. QED BY <3>1, <3>2
    <2>3. longer = [i \in 0..(m + 1) |-> longer[i]]
        OBVIOUS
    <2> HIDE DEF longer
    <2>4. longer = [i \in 0..(m + 1) |-> IF i = 0 THEN {} ELSE UtahTracked(longer[i - 1], runs[i])]
        BY <2>2, <2>3
    <2>5. Opens(runs, longer, m + 1)
        BY <2>4 DEF Opens
    <2>6. QED BY <2>5
<1>3. Nat \subseteq S
    <2> HIDE DEF S
    <2>1. QED BY <1>1, <1>2, SetInduction
<1>4. QED BY <1>3

\* The issues after the last run of Utah's check, and after every one before.
LEMMA UtahIssuesAreTracked ==
    ASSUME NEW runs, Len(runs) \in Nat
    PROVE  \E open : /\ UtahIssuesAfter(runs) = open[Len(runs)]
                     /\ \A i \in 1..Len(runs) : open[i] = UtahTracked(open[i - 1], runs[i])
<1>1. UtahIssuesAfter(runs) = (CHOOSE open : Opens(runs, open, Len(runs)))[Len(runs)]
    BY DEF UtahIssuesAfter, Opens
<1>2. \E open : Opens(runs, open, Len(runs))
    BY OpensExist
<1>3. Opens(runs, CHOOSE open : Opens(runs, open, Len(runs)), Len(runs))
    BY <1>2
<1>4. PICK open : open = CHOOSE other : Opens(runs, other, Len(runs))
    OBVIOUS
<1>5. Opens(runs, open, Len(runs)) /\ UtahIssuesAfter(runs) = open[Len(runs)]
    BY <1>1, <1>3, <1>4
<1>6. ASSUME NEW i \in 1..Len(runs)
      PROVE  open[i] = UtahTracked(open[i - 1], runs[i])
    <2>1. i \in 0..Len(runs) /\ i # 0
        OBVIOUS
    <2>2. QED BY <1>5, <2>1 DEF Opens
<1>7. QED BY <1>5, <1>6

\* The runs with a check of Utah on main.
Checks(runs) == {i \in DOMAIN runs : runs[i].by = "main" /\ runs[i].checked}

\* After a check that went through the issues are its unresolved packages, and
\* the runs after it that do not check leave them.
LEMMA UtahIsCurrent ==
    ASSUME NEW runs, NEW n \in Nat, DOMAIN runs = 1..n, Len(runs) = n,
           \A j \in 1..n : Reports(runs[j]),
           NEW i \in Checks(runs), \A j \in Checks(runs) : j <= i,
           runs[i].breaks = "none"
    PROVE  UtahIssuesAfter(runs) = runs[i].unresolved
<1>1. PICK open : /\ UtahIssuesAfter(runs) = open[n]
                  /\ \A k \in 1..n : open[k] = UtahTracked(open[k - 1], runs[k])
    BY UtahIssuesAreTracked
<1>2. i \in 1..n /\ runs[i].checked /\ Production(runs[i]) /\ Reports(runs[i])
    BY DEF Checks, Production
<1>3. open[i] = runs[i].unresolved
    <2>1. PICK run : run = runs[i]
        OBVIOUS
    <2>2. Reports(run) /\ Production(run) /\ run.checked /\ run.breaks = "none"
        BY <1>2, <2>1
    <2>3. UtahTracked(open[i - 1], run) = run.unresolved
        BY <2>2, Zenon DEF UtahTracked
    <2>4. QED BY <1>1, <1>2, <2>1, <2>3
<1>4. ASSUME NEW k \in 1..n, k \notin Checks(runs)
      PROVE  open[k] = open[k - 1]
    <2>1. PICK run : run = runs[k]
        OBVIOUS
    <2>2. ~(Production(run) /\ run.checked)
        BY <1>4, <2>1 DEF Checks, Production
    <2>3. UtahTracked(open[k - 1], run) = open[k - 1]
        BY <2>2, Zenon DEF UtahTracked
    <2>4. QED BY <1>1, <2>1, <2>3
<1>5. \A k \in i..n : open[k] = open[i]
    <2> DEFINE S == {d \in Nat : i + d <= n => open[i + d] = open[i]}
    <2>1. 0 \in S
        BY <1>2
    <2>2. ASSUME NEW d \in Nat, d \in S PROVE d + 1 \in S
        <3> SUFFICES ASSUME i + (d + 1) <= n PROVE open[i + (d + 1)] = open[i]
            OBVIOUS
        <3>1. PICK k \in 1..n : k = i + (d + 1)
            BY <1>2
        <3>2. k - 1 = i + d /\ k > i /\ i + d <= n
            BY <1>2, <3>1
        <3>3. open[k - 1] = open[i]
            BY <2>2, <3>2
        <3>4. k \notin Checks(runs)
            BY <1>2, <3>2
        <3>5. QED BY <1>4, <3>1, <3>3, <3>4
    <2>3. Nat \subseteq S
        <3> HIDE DEF S
        <3>1. QED BY <2>1, <2>2, SetInduction
    <2>4. ASSUME NEW k \in i..n PROVE open[k] = open[i]
        <3>1. k - i \in Nat /\ i + (k - i) = k /\ k <= n
            BY <1>2
        <3>2. k - i \in S
            BY <2>3, <3>1
        <3>3. QED BY <3>1, <3>2
    <2>5. QED BY <2>4
<1>6. QED BY <1>1, <1>2, <1>3, <1>5

\* A hand between two runs is one of Hands.
LEMMA RunsAreHandled ==
    /\ \A run \in AnyRuns({"none"}) \cup BrokenRuns : run.hand = "none"
    /\ \A run \in AnyRuns(Hands) : run.hand \in Hands
<1>1. ASSUME NEW breaks, NEW hands, NEW run \in ProductionRuns(breaks, hands)
      PROVE  run.hand \in hands
    BY DEF ProductionRuns, RunOf
<1>2. ASSUME NEW hands, NEW run \in OtherRuns(hands)
      PROVE  run.hand \in hands
    BY DEF OtherRuns, RunOf
<1>3. QED BY <1>1, <1>2 DEF AnyRuns, BrokenRuns

\* What a call about the tracking issue passes.
LEMMA TrackingCallShape ==
    ASSUME CallIsMade, call.tool = "tracking"
    PROVE  /\ DOMAIN call.in = 1..3 /\ Len(call.in) = 3
           /\ \A j \in 1..3 : call.in[j].hand \in Hands
<1>1. call \in TrackingProgramCalls
    BY CallTools DEF CallIsMade
<1>2. call.in \in TrackingInputs
    BY <1>1 DEF TrackingProgramCalls, Calls
<1>3. PICK r \in AnyRuns({"none"}), s \in AnyRuns({"none"}) \cup BrokenRuns, t \in AnyRuns(Hands) :
          call.in = <<r, s, t>>
    <2>1. PICK hands : hands = {"none", "edit", "close"}
        OBVIOUS
    <2>2. hands = Hands
        BY <2>1 DEF Hands
    <2>3. call.in \in {<<r, s, t>> : r \in AnyRuns({"none"}), s \in AnyRuns({"none"}) \cup BrokenRuns,
                                     t \in AnyRuns(hands)}
        BY <1>2, <2>1 DEF TrackingInputs
    <2>4. QED BY <2>2, <2>3
<1>4. r.hand \in Hands /\ s.hand \in Hands /\ t.hand \in Hands
    BY <1>3, RunsAreHandled DEF Hands
<1>5. QED BY <1>3, <1>4

\* What a call about Utah's issues passes.
LEMMA UtahCallShape ==
    ASSUME CallIsMade, call.tool = "utah-issues"
    PROVE  /\ DOMAIN call.in = 1..3 /\ Len(call.in) = 3
           /\ \A j \in 1..3 : Reports(call.in[j])
<1>1. call \in TrackingProgramCalls
    BY CallTools DEF CallIsMade
<1>2. call.in \in UtahInputs
    BY <1>1 DEF TrackingProgramCalls, Calls
<1>3. PICK r \in UtahRuns, s \in UtahRuns, t \in UtahRuns : call.in = <<r, s, t>>
    BY <1>2 DEF UtahInputs
<1>4. ASSUME NEW run \in UtahRuns PROVE Reports(run)
    <2>1. ~run.cancelled /\ run.list # {}
        BY DEF UtahRuns, UtahRun
    <2>2. QED BY <2>1 DEF Reports
<1>5. Reports(r) /\ Reports(s) /\ Reports(t)
    BY <1>4
<1>6. QED BY <1>3, <1>5

\* The issues are those of the last verdict, whatever earlier reports and people
\* left (rebuild-rpms.yml: the report job).
THEOREM IssuesCorrect == Spec => []IssuesAreCurrent
<1>1. Init => IssuesAreCurrent
    BY DEF Init, IssuesAreCurrent, TrackerIsCurrent, UtahIssuesAreCurrent, Answered
<1>2. CallIsMade /\ IssuesAreCurrent /\ [Next]_toolVars => IssuesAreCurrent'
    <2> SUFFICES ASSUME CallIsMade, IssuesAreCurrent, [Next]_toolVars PROVE IssuesAreCurrent'
        OBVIOUS
    <2>1. CASE answer' = answer \/ call.tool \notin {"tracking", "utah-issues"}
        <3>1. CASE answer' = answer
            <4>1. call' = call
                BY OneAnswer
            <4>2. QED BY <3>1, <4>1, Zenon DEF IssuesAreCurrent, TrackerIsCurrent, UtahIssuesAreCurrent, Answered
        <3>2. CASE call.tool \notin {"tracking", "utah-issues"}
            <4>1. call'.tool # "tracking" /\ call'.tool # "utah-issues"
                BY <3>2, OneAnswer
            <4>2. QED BY <4>1, Zenon DEF IssuesAreCurrent, TrackerIsCurrent, UtahIssuesAreCurrent, Answered
        <3>3. QED BY <2>1, <3>1, <3>2
    <2>2. CASE answer' # answer /\ call.tool = "tracking"
        <3>1. PICK runs, is : runs = call.in /\ is = IssueAfter(runs)
            OBVIOUS
        <3>2. call' = call /\ answer'.is = is
            BY <2>2, <3>1, OneAnswer
        <3>3. /\ DOMAIN runs = 1..3 /\ Len(runs) = 3
              /\ \A j \in 1..3 : runs[j].hand \in Hands
            BY <2>2, <3>1, TrackingCallShape
        <3> DEFINE i == LastVerdict(runs)
                   run == runs[i]
                   failed == FailuresFromArtifacts(run)
        <3>4. ASSUME Verdicts(runs) # {}, run.breaks = "none",
                     \A j \in i + 1..3 : runs[j].hand = "none"
              PROVE  /\ is.open <=> ~Healthy(run)
                     /\ is.open => is.marker = <<failed>>
                     /\ is.open /\ (\A j \in 1..3 : runs[j].breaks # "comment") => is.told = <<failed>>
            <4>1. i \in Verdicts(runs) /\ \A j \in Verdicts(runs) : j <= i
                BY <3>3, <3>4, LastVerdictIs
            <4> HIDE DEF i
            <4>2. /\ IssueAfter(runs).open <=> ~Healthy(runs[i])
                  /\ IssueAfter(runs).open => IssueAfter(runs).marker = <<FailuresFromArtifacts(runs[i])>>
                  /\ IssueAfter(runs).open /\ (\A j \in 1..3 : runs[j].breaks # "comment") =>
                         IssueAfter(runs).told = <<FailuresFromArtifacts(runs[i])>>
                BY <3>3, <3>4, <4>1, IssueIsCurrent
            <4>3. QED BY <3>1, <4>2
        <3>5. {p \in run.list : p \notin run.artifacts \/ p \in run.losers} = failed
            BY DEF FailuresFromArtifacts
        <3>6. ~Healthy(run) <=> failed # {} \/ run.publish = "failure"
            BY DEF Healthy
        <3> HIDE DEF run, failed, i
        <3>7. TrackerIsCurrent'
            BY <3>1, <3>2, <3>3, <3>4, <3>5, <3>6 DEF TrackerIsCurrent, run, i
        <3>8. QED BY <2>2, <3>2, <3>7 DEF IssuesAreCurrent, UtahIssuesAreCurrent, Answered
    <2>3. CASE answer' # answer /\ call.tool = "utah-issues"
        <3>1. PICK runs, is : runs = call.in /\ is = UtahIssuesAfter(runs)
            OBVIOUS
        <3>2. call' = call /\ answer'.is = is
            BY <2>3, <3>1, OneAnswer
        <3>3. /\ DOMAIN runs = 1..3 /\ Len(runs) = 3
              /\ \A j \in 1..3 : Reports(runs[j])
            BY <2>3, <3>1, UtahCallShape
        <3> DEFINE last == CHOOSE i \in Checks(runs) : \A j \in Checks(runs) : j <= i
        <3>4. ASSUME Checks(runs) # {}, runs[last].breaks = "none"
              PROVE  is = runs[last].unresolved
            <4>1. Checks(runs) \in SUBSET (1..3)
                BY <3>3 DEF Checks
            <4>2. \E i \in Checks(runs) : \A j \in Checks(runs) : j <= i
                BY <3>4, <4>1, LastOne
            <4>3. last \in Checks(runs) /\ \A j \in Checks(runs) : j <= last
                BY <4>2
            <4> HIDE DEF last
            <4>4. QED BY <3>1, <3>3, <3>4, <4>3, UtahIsCurrent
        <3>5. UtahIssuesAreCurrent'
            BY <3>1, <3>2, <3>4, Zenon DEF UtahIssuesAreCurrent, Checks
        <3>6. QED BY <2>3, <3>2, <3>5 DEF IssuesAreCurrent, TrackerIsCurrent, Answered
    <2>4. QED BY <2>1, <2>2, <2>3
<1>3. QED BY <1>1, <1>2, CallsStay, PTL DEF Spec

-----------------------------------------------------------------------------
(* Upstream: the releases of a project, over any listing.                   *)

\* A version with its leading numbers, of which there is one at least.
IsVersion(v) ==
    /\ v.num \in Seq(Nat) /\ Len(v.num) >= 1
    /\ v.tag \in {"", "pre", "glued", "build"}

\* Where a tuple of m that is above one of n differs from it.
Beats(a, m, b, n, i) ==
    /\ i \in 1..m
    /\ \A j \in 1..i - 1 : j <= n /\ a[j] = b[j]
    /\ i = n + 1 \/ (i <= n /\ a[i] > b[i])

\* A tuple above another is longer or larger at the first place they differ.
LEMMA AboveBeats ==
    ASSUME NEW a \in Seq(Int), NEW b \in Seq(Int)
    PROVE  Above(a, b) <=> \E i : Beats(a, Len(a), b, Len(b), i)
<1>1. ASSUME Above(a, b) PROVE \E i : Beats(a, Len(a), b, Len(b), i)
    <2>1. CASE Len(a) > Len(b) /\ SubSeq(a, 1, Len(b)) = b
        <3>1. \A j \in 1..Len(b) : a[j] = SubSeq(a, 1, Len(b))[j]
            BY <2>1
        <3>2. \A j \in 1..Len(b) : a[j] = b[j]
            BY <2>1, <3>1
        <3>3. Beats(a, Len(a), b, Len(b), Len(b) + 1)
            BY <2>1, <3>2 DEF Beats
        <3>4. QED BY <3>3
    <2>2. CASE \E i \in DOMAIN a \cap DOMAIN b : a[i] > b[i] /\ \A j \in 1..i - 1 : a[j] = b[j]
        <3>1. PICK i \in DOMAIN a \cap DOMAIN b : a[i] > b[i] /\ \A j \in 1..i - 1 : a[j] = b[j]
            BY <2>2
        <3>2. i \in 1..Len(a) /\ i \in 1..Len(b)
            OBVIOUS
        <3>3. Beats(a, Len(a), b, Len(b), i)
            BY <3>1, <3>2 DEF Beats
        <3>4. QED BY <3>3
    <2>3. QED BY <1>1, <2>1, <2>2 DEF Above
<1>2. ASSUME NEW i, Beats(a, Len(a), b, Len(b), i) PROVE Above(a, b)
    <2>1. CASE i = Len(b) + 1
        <3>1. Len(a) > Len(b) /\ \A j \in 1..Len(b) : a[j] = b[j]
            BY <1>2, <2>1 DEF Beats
        <3>2. SubSeq(a, 1, Len(b)) = b
            BY <3>1
        <3>3. QED BY <3>1, <3>2 DEF Above
    <2>2. CASE i # Len(b) + 1
        <3>1. i \in DOMAIN a \cap DOMAIN b /\ a[i] > b[i] /\ \A j \in 1..i - 1 : a[j] = b[j]
            BY <1>2, <2>2 DEF Beats
        <3>2. QED BY <3>1 DEF Above
    <2>3. QED BY <2>1, <2>2
<1>3. QED BY <1>1, <1>2

\* Nothing is above itself.
LEMMA NotAboveItself ==
    ASSUME NEW a \in Seq(Int)
    PROVE  ~Above(a, a)
BY AboveBeats DEF Beats

\* Above what is above.
LEMMA AboveOn ==
    ASSUME NEW a \in Seq(Int), NEW b \in Seq(Int), NEW c \in Seq(Int), Above(a, b), Above(b, c)
    PROVE  Above(a, c)
<1>1. PICK i : Beats(a, Len(a), b, Len(b), i)
    BY AboveBeats
<1>2. PICK k : Beats(b, Len(b), c, Len(c), k)
    BY AboveBeats
<1>3. i \in Nat /\ k \in Nat
    BY <1>1, <1>2 DEF Beats
<1>4. CASE i <= k
    <2>1. ASSUME NEW j \in 1..i - 1 PROVE j <= Len(c) /\ a[j] = c[j]
        <3>1. a[j] = b[j] /\ j \in 1..k - 1
            BY <1>1, <1>3, <1>4 DEF Beats
        <3>2. j <= Len(c) /\ b[j] = c[j]
            BY <1>2, <3>1 DEF Beats
        <3>3. QED BY <3>1, <3>2
    <2>2. i \in 1..Len(a) /\ i <= Len(b)
        BY <1>1, <1>2, <1>3, <1>4 DEF Beats
    <2>3. a[i] > b[i]
        BY <1>1, <2>2 DEF Beats
    <2>4. i = Len(c) + 1 \/ (i <= Len(c) /\ a[i] > c[i])
        <3>1. CASE i = k /\ k # Len(c) + 1
            <4>1. i \in 1..Len(b) /\ i \in 1..Len(c) /\ b[i] > c[i]
                BY <1>2, <3>1 DEF Beats
            <4>2. a[i] \in Int /\ b[i] \in Int /\ c[i] \in Int
                BY <2>2, <4>1
            <4>3. QED BY <2>3, <4>1, <4>2
        <3>2. CASE i < k
            <4>1. i <= Len(c) /\ b[i] = c[i]
                BY <1>2, <1>3, <2>2, <3>2 DEF Beats
            <4>2. QED BY <2>3, <4>1
        <3>3. QED BY <1>3, <1>4, <3>1, <3>2
    <2>5. Beats(a, Len(a), c, Len(c), i)
        BY <2>1, <2>2, <2>4 DEF Beats
    <2>6. QED BY <2>5, AboveBeats
<1>5. CASE k < i
    <2>1. a[k] = b[k] /\ k \in 1..Len(a) /\ \A j \in 1..k - 1 : a[j] = b[j]
        <3>1. \A j \in 1..k : j \in 1..i - 1
            BY <1>3, <1>5
        <3>2. \A j \in 1..i - 1 : a[j] = b[j]
            BY <1>1 DEF Beats
        <3>3. k \in 1..k /\ k \in 1..Len(a) /\ \A j \in 1..k - 1 : j \in 1..k
            BY <1>1, <1>2, <1>3, <1>5 DEF Beats
        <3>4. QED BY <3>1, <3>2, <3>3, Zenon
    <2>2. /\ \A j \in 1..k - 1 : j <= Len(c) /\ b[j] = c[j]
          /\ k = Len(c) + 1 \/ (k <= Len(c) /\ b[k] > c[k])
        BY <1>2 DEF Beats
    <2>3. Beats(a, Len(a), c, Len(c), k)
        BY <2>1, <2>2 DEF Beats
    <2>4. QED BY <2>3, AboveBeats
<1>6. QED BY <1>3, <1>4, <1>5

\* Numbers are integers.
LEMMA NumbersAreIntegers ==
    ASSUME NEW s \in Seq(Nat)
    PROVE  s \in Seq(Int)
<1>1. \A i \in 1..Len(s) : s[i] \in Int
    OBVIOUS
<1>2. QED BY <1>1

\* What version_key compares is a tuple.
LEMMA KeyIsTuple ==
    ASSUME NEW v, IsVersion(v)
    PROVE  /\ VersionKey(v) \in Seq(Int)
           /\ v.tag = "" => VersionKey(v) = v.num
           /\ v.tag = "pre" => VersionKey(v) = Append(v.num, -1)
           /\ v.tag \notin {"", "pre"} => VersionKey(v) = Append(Front(v.num), -1)
<1>1. v.num \in Seq(Int) /\ Front(v.num) \in Seq(Int)
    <2>1. v.num \in Seq(Nat) /\ Len(v.num) \in Nat /\ Len(v.num) - 1 \in Nat
        <3>1. v.num \in Seq(Nat) /\ Len(v.num) >= 1
            BY DEF IsVersion
        <3>2. Len(v.num) \in Nat
            BY <3>1
        <3>3. QED BY <3>1, <3>2
    <2>2. \A i \in 1..Len(v.num) : v.num[i] \in Int
        BY <2>1
    <2>3. v.num \in Seq(Int)
        BY <2>1, <2>2
    <2>4. Front(v.num) = [i \in 1..(Len(v.num) - 1) |-> v.num[i]]
        BY <2>1 DEF Front
    <2>5. Front(v.num) \in Seq(Int)
        BY <2>1, <2>2, <2>4
    <2>6. QED BY <2>3, <2>5
<1>2. v.tag = "" => VersionKey(v) = v.num
    BY Zenon DEF VersionKey
<1>3. v.tag = "pre" => VersionKey(v) = Append(v.num, -1)
    BY Zenon DEF VersionKey
<1>4. v.tag \notin {"", "pre"} => VersionKey(v) = Append(Front(v.num), -1)
    BY Zenon DEF VersionKey
<1>5. -1 \in Int /\ Append(v.num, -1) \in Seq(Int) /\ Append(Front(v.num), -1) \in Seq(Int)
    BY <1>1
<1>6. VersionKey(v) \in Seq(Int)
    BY <1>1, <1>2, <1>3, <1>4, <1>5
<1>7. QED BY <1>2, <1>3, <1>4, <1>6

\* Of any finite listing there is a newest.
LEMMA NewestIs ==
    ASSUME NEW versions, IsFiniteSet(versions), \A v \in versions : IsVersion(v), NEW latest \in Newest(versions)
    PROVE  latest \in versions /\ \A w \in versions : ~Above(VersionKey(w), VersionKey(latest))
<1> DEFINE Top(T, v) == v \in T /\ \A w \in T : ~Above(VersionKey(w), VersionKey(v))
           S == {n \in Nat : \A T \in SUBSET versions :
                                Cardinality(T) = n /\ T # {} => \E v : Top(T, v)}
<1>1. 0 \in S
    <2>1. \A T \in SUBSET versions : Cardinality(T) = 0 => T = {}
        BY FS_Subset, FS_EmptySet
    <2>2. QED BY <2>1
<1>2. ASSUME NEW n \in Nat, n \in S
      PROVE  n + 1 \in S
    <2> SUFFICES ASSUME NEW T \in SUBSET versions, Cardinality(T) = n + 1, T # {}
                 PROVE  \E v : Top(T, v)
        OBVIOUS
    <2>1. PICK x \in T : TRUE
        OBVIOUS
    <2>2. Cardinality(T \ {x}) = n /\ T \ {x} \in SUBSET versions
        <3>1. IsFiniteSet(T)
            BY FS_Subset
        <3>2. Cardinality(T \ {x}) = Cardinality(T) - 1
            BY <3>1, FS_RemoveElement
        <3>3. QED BY <3>2
    <2>3. \A v \in T : VersionKey(v) \in Seq(Int)
        BY KeyIsTuple
    <2>4. ~Above(VersionKey(x), VersionKey(x))
        BY <2>3, NotAboveItself
    <2>5. CASE T \ {x} = {}
        <3>1. Top(T, x)
            BY <2>4, <2>5
        <3>2. QED BY <3>1
    <2>6. CASE T \ {x} # {}
        <3>1. PICK v : Top(T \ {x}, v)
            BY <1>2, <2>2, <2>6
        <3>2. CASE Above(VersionKey(x), VersionKey(v))
            <4>1. ASSUME NEW w \in T, Above(VersionKey(w), VersionKey(x)) PROVE FALSE
                <5>1. w \in T \ {x}
                    BY <2>4, <4>1
                <5>2. Above(VersionKey(w), VersionKey(v))
                    BY <2>3, <3>1, <3>2, <4>1, AboveOn
                <5>3. QED BY <3>1, <5>1, <5>2
            <4>2. Top(T, x)
                BY <4>1
            <4>3. QED BY <4>2
        <3>3. CASE ~Above(VersionKey(x), VersionKey(v))
            <4>1. Top(T, v)
                BY <3>1, <3>3
            <4>2. QED BY <4>1
        <3>4. QED BY <3>2, <3>3
    <2>7. QED BY <2>5, <2>6
<1>3. Nat \subseteq S
    <2> HIDE DEF S
    <2>1. QED BY <1>1, <1>2, SetInduction
<1>4. versions # {} /\ Newest(versions) = {CHOOSE v \in versions : \A w \in versions : ~Above(VersionKey(w), VersionKey(v))}
    BY DEF Newest
<1>5. Cardinality(versions) \in Nat
    BY FS_CardinalityType
<1>6. \E v \in versions : \A w \in versions : ~Above(VersionKey(w), VersionKey(v))
    BY <1>3, <1>4, <1>5
<1>7. QED BY <1>4, <1>6

\* Of the project's releases of a series, none is a prerelease.
LEMMA WrittenIs ==
    ASSUME NEW b, Written(b)
    PROVE  LET latest == Plan(b).latest
               target == IF b.cycle = <<>> THEN ReleaseCycle(b.entry.version) ELSE b.cycle
               stable == {v \in ForgeVersions(b.listing, b.endpoint) : v.num[1] = b.entry.version.num[1]}
           IN  /\ ~b.only => Plan(b).kind # "relock" /\ b.entry.primary \in {"gnome", "forge"}
               /\ \/ /\ b.module
                     /\ latest \in CycleFinal(b.listing.released, target)
                     /\ IsPrerelease(b.entry.version)
                            \/ Above(VersionKey(latest), VersionKey(b.entry.version))
                  \/ /\ b.entry.primary = "forge" \/ b.entry.feed \notin {"none", "anitya", "gnome"}
                     /\ latest \in NewestStable(stable)
                     /\ Newer(latest, b.entry.version)
<1> DEFINE feed == Feed(b.entry, b.only)
           available == ForgeVersions(b.listing, b.endpoint)
           found == ForgeProposal(b.entry, available)
           stable == {v \in available : v.num[1] = b.entry.version.num[1]}
           target == IF b.cycle = <<>> THEN ReleaseCycle(b.entry.version) ELSE b.cycle
           silent == feed.at = "none" \/ ~b.readable \/ (feed.at = "gnome" /\ ~b.module)
<1>1. Plan(b).kind \in {"final", "update", "relock"}
    BY DEF Written
<1>2. feed.relock => /\ b.only /\ b.entry.primary \notin {"gnome", "forge"}
                     /\ feed.at = "gnome" \/ (feed.at = b.entry.feed /\ b.entry.feed \notin {"none", "anitya"})
    <2>1. CASE b.entry.primary = "gnome"
        <3>1. feed = [at |-> "gnome", relock |-> FALSE]
            BY <2>1, Zenon DEF Feed
        <3>2. QED BY <3>1
    <2>2. CASE b.entry.primary # "gnome" /\ (b.entry.primary = "forge" \/ b.entry.mirror)
        <3>1. feed = [at |-> "forge", relock |-> FALSE]
            BY <2>2, Zenon DEF Feed
        <3>2. QED BY <3>1
    <2>3. CASE b.entry.primary \notin {"gnome", "forge"} /\ ~b.entry.mirror /\ b.entry.feed # "none"
        <3>1. feed = [at |-> b.entry.feed, relock |-> b.only /\ b.entry.feed # "anitya"]
            BY <2>3, Zenon DEF Feed
        <3> HIDE DEF feed
        <3>2. feed.at = b.entry.feed
            BY <3>1
        <3>3. feed.relock => b.only /\ b.entry.feed # "anitya"
            BY <3>1
        <3>4. QED BY <2>3, <3>2, <3>3
    <2>4. CASE b.entry.primary \notin {"gnome", "forge"} /\ ~b.entry.mirror /\ b.entry.feed = "none"
        <3>1. feed = [at |-> IF b.only THEN "gnome" ELSE "none", relock |-> b.only]
            BY <2>4, Zenon DEF Feed
        <3> HIDE DEF feed
        <3>2. feed.relock => b.only /\ feed.at = "gnome"
            BY <3>1
        <3>3. QED BY <2>4, <3>2
    <2>5. QED BY <2>1, <2>2, <2>3, <2>4, Zenon
<1>3. silent => Plan(b) = Nothing
    BY Zenon DEF Plan
<1>4. ~silent /\ feed.at = "gnome" =>
          Plan(b) = GnomeProposal(b.entry, feed, b.listing.released, b.cycle)
    BY Zenon DEF Plan
<1>5. ~silent /\ feed.at # "gnome" =>
          Plan(b) = IF found.kind = "update" /\ ~PrimaryTracksForge(b.entry)
                    THEN [found EXCEPT !.kind = IF feed.relock THEN "relock" ELSE "review"]
                    ELSE found
    BY Zenon DEF Plan
<1>6. ~silent
    BY <1>1, <1>3 DEF Nothing
<1>7. CASE feed.at = "gnome"
    <2> DEFINE above(v) == Above(VersionKey(v), VersionKey(b.entry.version))
               within == {v \in CycleFinal(b.listing.released, target) : IsPrerelease(b.entry.version) \/ above(v)}
               newest == {v \in NewestGnome(b.listing.released) : above(v)}
               kind == CASE b.entry.primary = "gnome" -> "final"
                         [] b.entry.primary # "gnome" /\ feed.relock -> "relock"
                         [] OTHER -> "review"
    <2>1. /\ within # {} => Plan(b) = Propose(kind, CHOOSE v \in within : TRUE)
          /\ within = {} /\ newest # {} => Plan(b) = Propose("review", CHOOSE v \in newest : TRUE)
          /\ within = {} /\ newest = {} => Plan(b) = Nothing
        BY <1>4, <1>6, <1>7, Zenon DEF GnomeProposal
    <2>2. within # {} /\ Plan(b) = Propose(kind, CHOOSE v \in within : TRUE)
        <3> HIDE DEF within, newest, kind
        <3>1. QED BY <1>1, <2>1 DEF Propose, Nothing
    <2>3. kind # "review" /\ Plan(b).kind = kind /\ Plan(b).latest \in within
        <3> HIDE DEF within, kind
        <3>1. QED BY <1>1, <2>2 DEF Propose
    <2>4. b.entry.primary = "gnome" \/ feed.relock
        <3>1. b.entry.primary # "gnome" /\ ~feed.relock => kind = "review"
            BY Zenon
        <3>2. QED BY <2>3, <3>1
    <2>5. b.entry.primary = "gnome" => kind = "final"
        BY Zenon
    <2>6. ~b.only => b.entry.primary = "gnome" /\ Plan(b).kind = "final"
        <3>1. feed.relock => b.only
            BY <1>2
        <3>2. QED BY <2>3, <2>4, <2>5, <3>1
    <2>7. b.module
        BY <1>6, <1>7
    <2>8. QED BY <2>3, <2>6, <2>7
<1>8. CASE feed.at # "gnome"
    <2> DEFINE newest == {v \in NewestStable(available) : Newer(v, b.entry.version)}
               within == {v \in NewestStable(stable) : Newer(v, b.entry.version)}
    <2>1. /\ newest = {} => found = Nothing
          /\ newest # {} /\ within # {} => found = Propose("update", CHOOSE v \in within : TRUE)
          /\ newest # {} /\ within = {} => found = Propose("review", CHOOSE v \in newest : TRUE)
        BY Zenon DEF ForgeProposal
    <2> HIDE DEF found, newest, within
    <2>2. found.kind \in {"nothing", "update", "review"}
        BY <2>1 DEF Propose, Nothing
    <2>3. found.kind = "update"
        BY <1>1, <1>5, <1>6, <1>8, <2>2
    <2>4. within # {} /\ found = Propose("update", CHOOSE v \in within : TRUE)
        BY <2>1, <2>3 DEF Propose, Nothing
    <2>5. found.latest \in within
        BY <2>4 DEF Propose
    <2>6. CASE b.entry.primary = "forge"
        <3>1. Plan(b) = found
            BY <1>5, <1>6, <1>8, <2>6 DEF PrimaryTracksForge
        <3>2. QED BY <2>3, <2>5, <2>6, <3>1 DEF within
    <2>7. CASE b.entry.primary # "forge"
        <3>1. Plan(b) = [found EXCEPT !.kind = IF feed.relock THEN "relock" ELSE "review"]
            BY <1>5, <1>6, <1>8, <2>3, <2>7 DEF PrimaryTracksForge
        <3>2. Plan(b).latest = found.latest /\ Plan(b).kind = IF feed.relock THEN "relock" ELSE "review"
            BY <2>4, <3>1 DEF Propose
        <3>3. feed.relock
            BY <1>1, <3>2
        <3>4. b.only /\ b.entry.feed \notin {"none", "anitya", "gnome"}
            BY <1>2, <1>8, <3>3
        <3>5. QED BY <2>5, <3>2, <3>4 DEF within
    <2>8. QED BY <2>6, <2>7
<1>9. QED BY <1>7, <1>8

\* Where a version stands in the order of releases.
LEMMA RankIs ==
    ASSUME NEW v, IsVersion(v)
    PROVE  /\ Rank(v) \in Seq(Int) /\ Len(Rank(v)) = Len(v.num) + 1
           /\ \A i \in 1..Len(v.num) : Rank(v)[i] = 2 * v.num[i]
           /\ v.tag = "" => Rank(v)[Len(v.num) + 1] = 0
           /\ v.tag \in {"pre", "glued"} => Rank(v)[Len(v.num) + 1] = -1
           /\ v.tag = "build" => Rank(v)[Len(v.num) + 1] = 1
<1> DEFINE last == CASE v.tag = "build" -> 1 [] v.tag \in {"pre", "glued"} -> -1 [] OTHER -> 0
           doubled == [i \in DOMAIN v.num |-> 2 * v.num[i]]
<1>1. /\ v.tag = "build" => last = 1
      /\ v.tag \in {"pre", "glued"} => last = -1
      /\ v.tag = "" => last = 0
    BY Zenon
<1>2. last \in Int
    <2> HIDE DEF last
    <2>1. v.tag \in {"", "pre", "glued", "build"}
        BY DEF IsVersion
    <2>2. last = 1 \/ last = -1 \/ last = 0
        BY <1>1, <2>1, Zenon
    <2>3. QED BY <2>2
<1>3. v.num \in Seq(Nat)
    BY DEF IsVersion
<1>4. Rank(v) = Append(doubled, last)
    BY DEF Rank
<1> HIDE DEF last
<1>5. doubled \in Seq(Int) /\ Len(doubled) = Len(v.num) /\ \A i \in 1..Len(v.num) : doubled[i] = 2 * v.num[i]
    <2>1. ASSUME NEW s \in Seq(Nat)
          PROVE  LET d == [i \in DOMAIN s |-> 2 * s[i]]
                 IN  d \in Seq(Int) /\ Len(d) = Len(s) /\ \A i \in 1..Len(s) : d[i] = 2 * s[i]
        OBVIOUS
    <2>2. QED BY <1>3, <2>1, Zenon
<1> HIDE DEF doubled
<1>6. Rank(v) \in Seq(Int) /\ Len(Rank(v)) = Len(v.num) + 1 /\ Rank(v)[Len(v.num) + 1] = last
    BY <1>2, <1>4, <1>5
<1>7. ASSUME NEW i \in 1..Len(v.num) PROVE Rank(v)[i] = 2 * v.num[i]
    BY <1>2, <1>4, <1>5
<1>8. QED BY <1>1, <1>6, <1>7

\* Tuples that end in a mark of their own are in the order of what they double.
LEMMA DoubledBeats ==
    ASSUME NEW m \in Nat, NEW n \in Nat, m >= 1, n >= 1,
           NEW a \in [1..m -> Nat], NEW b \in [1..n -> Nat],
           NEW ra, NEW rb, \A i \in 1..m : ra[i] = 2 * a[i], \A i \in 1..n : rb[i] = 2 * b[i],
           ra[m + 1] = 0
    PROVE  /\ a[1] > b[1] => \E i : Beats(ra, m + 1, rb, n + 1, i)
           /\ rb[n + 1] = 0 /\ (\E i : Beats(a, m, b, n, i)) => \E i : Beats(ra, m + 1, rb, n + 1, i)
           /\ rb[n + 1] = -1 /\ n <= m /\ (\A j \in 1..n : a[j] = b[j]) =>
                  \E i : Beats(ra, m + 1, rb, n + 1, i)
<1>1. /\ \A i \in 1..m : a[i] \in Nat /\ ra[i] \in Nat
      /\ \A i \in 1..n : b[i] \in Nat /\ rb[i] \in Nat
    <2>1. \A x \in Nat : 2 * x \in Nat
        OBVIOUS
    <2>2. (\A i \in 1..m : a[i] \in Nat) /\ \A i \in 1..n : b[i] \in Nat
        OBVIOUS
    <2>3. QED BY <2>1, <2>2, Zenon
<1>2. ASSUME a[1] > b[1] PROVE Beats(ra, m + 1, rb, n + 1, 1)
    <2>1. 1 \in 1..m /\ 1 \in 1..n /\ 1 \in 1..(m + 1) /\ 1 <= n + 1
        OBVIOUS
    <2>2. ra[1] > rb[1]
        BY <1>1, <1>2, <2>1
    <2>3. QED BY <2>1, <2>2 DEF Beats
<1>3. ASSUME rb[n + 1] = 0, NEW i, Beats(a, m, b, n, i)
      PROVE  \E k : Beats(ra, m + 1, rb, n + 1, k)
    <2>1. /\ i \in 1..m /\ \A j \in 1..i - 1 : j <= n /\ a[j] = b[j]
          /\ i = n + 1 \/ (i <= n /\ a[i] > b[i])
        BY <1>3 DEF Beats
    <2>2. \A j \in 1..i - 1 : j <= n + 1 /\ ra[j] = rb[j]
        <3>1. ASSUME NEW j \in 1..i - 1 PROVE j \in 1..m /\ j \in 1..n /\ a[j] = b[j]
            BY <2>1
        <3>2. QED BY <3>1
    <2>3. CASE i <= n
        <3>1. i \in 1..n /\ ra[i] > rb[i]
            BY <1>1, <2>1, <2>3
        <3>2. i \in 1..(m + 1) /\ i <= n + 1
            BY <2>1, <2>3
        <3>3. QED BY <2>2, <3>1, <3>2 DEF Beats
    <2>4. CASE i = n + 1 /\ a[i] > 0
        <3>1. ra[i] > rb[i]
            BY <1>1, <1>3, <2>1, <2>4
        <3>2. i \in 1..(m + 1) /\ i <= n + 1
            BY <2>1, <2>4
        <3>3. QED BY <2>2, <3>1, <3>2 DEF Beats
    <2>5. CASE i = n + 1 /\ a[i] = 0
        <3>1. ra[i] = rb[i]
            BY <1>3, <2>1, <2>5
        <3>2. i + 1 \in 1..(m + 1) /\ i + 1 = (n + 1) + 1 /\ (i + 1) - 1 = i
            BY <2>1, <2>5
        <3>3. \A j \in 1..i : j <= n + 1 /\ ra[j] = rb[j]
            <4>1. ASSUME NEW j \in 1..i PROVE j = i \/ j \in 1..i - 1
                BY <2>1
            <4>2. QED BY <2>2, <2>5, <3>1, <4>1
        <3>4. Beats(ra, m + 1, rb, n + 1, i + 1)
            BY <3>2, <3>3 DEF Beats
        <3>5. QED BY <3>4
    <2>6. a[i] \in Nat
        BY <1>1, <2>1
    <2>7. QED BY <2>1, <2>3, <2>4, <2>5, <2>6
<1>4. ASSUME rb[n + 1] = -1, n <= m, \A j \in 1..n : a[j] = b[j]
      PROVE  Beats(ra, m + 1, rb, n + 1, n + 1)
    <2>1. ASSUME NEW j \in 1..n PROVE ra[j] = rb[j]
        <3>1. j \in 1..m
            BY <1>4
        <3>2. ra[j] = 2 * a[j] /\ rb[j] = 2 * b[j] /\ a[j] = b[j]
            BY <1>4, <3>1
        <3>3. QED BY <3>2
    <2>2. ra[n + 1] > rb[n + 1]
        <3>1. CASE n = m
            BY <1>4, <3>1
        <3>2. CASE n < m
            <4>1. n + 1 \in 1..m
                BY <3>2
            <4>2. QED BY <1>1, <1>4, <4>1
        <3>3. QED BY <1>4, <3>1, <3>2
    <2>3. n + 1 \in 1..(m + 1) /\ n + 1 <= n + 1 /\ (n + 1) - 1 = n /\ \A j \in 1..n : j <= n + 1
        BY <1>4
    <2>4. QED BY <2>1, <2>2, <2>3 DEF Beats
<1>5. QED BY <1>2, <1>3, <1>4

\* So it is with their order.
LEMMA DoubledAbove ==
    ASSUME NEW a \in Seq(Nat), NEW b \in Seq(Nat), Len(a) >= 1, Len(b) >= 1,
           NEW ra \in Seq(Int), Len(ra) = Len(a) + 1, \A i \in 1..Len(a) : ra[i] = 2 * a[i],
           ra[Len(a) + 1] = 0,
           NEW rb \in Seq(Int), Len(rb) = Len(b) + 1, \A i \in 1..Len(b) : rb[i] = 2 * b[i]
    PROVE  /\ a[1] > b[1] => Above(ra, rb)
           /\ rb[Len(b) + 1] = 0 /\ Above(a, b) => Above(ra, rb)
           /\ rb[Len(b) + 1] = -1 /\ Len(b) <= Len(a) /\ (\A j \in 1..Len(b) : a[j] = b[j]) =>
                  Above(ra, rb)
<1> DEFINE m == Len(a)
           n == Len(b)
<1>1. m \in Nat /\ n \in Nat /\ a \in [1..m -> Nat] /\ b \in [1..n -> Nat]
    OBVIOUS
<1>2. a \in Seq(Int) /\ b \in Seq(Int)
    BY NumbersAreIntegers, Zenon
<1>3. Above(a, b) => \E i : Beats(a, m, b, n, i)
    BY <1>2, AboveBeats
<1>4. (\E i : Beats(ra, m + 1, rb, n + 1, i)) => Above(ra, rb)
    BY AboveBeats
<1>5. /\ m >= 1 /\ n >= 1 /\ ra[m + 1] = 0
      /\ \A i \in 1..m : ra[i] = 2 * a[i]
      /\ \A i \in 1..n : rb[i] = 2 * b[i]
    OBVIOUS
<1> HIDE DEF m, n
<1>6. /\ a[1] > b[1] => \E i : Beats(ra, m + 1, rb, n + 1, i)
      /\ rb[n + 1] = 0 /\ (\E i : Beats(a, m, b, n, i)) => \E i : Beats(ra, m + 1, rb, n + 1, i)
      /\ rb[n + 1] = -1 /\ n <= m /\ (\A j \in 1..n : a[j] = b[j]) =>
             \E i : Beats(ra, m + 1, rb, n + 1, i)
    BY <1>1, <1>5, DoubledBeats
<1>7. QED BY <1>3, <1>4, <1>6 DEF m, n

\* A release is above another of the same numbers or of larger ones, and above
\* a prerelease of any of those it begins with.
LEMMA RankFollows ==
    ASSUME NEW v, NEW w, IsVersion(v), IsVersion(w), v.tag = "", w.tag \in {"", "pre"},
           \/ v.num[1] > w.num[1]
           \/ w.tag = "" /\ Above(v.num, w.num)
           \/ w.tag = "pre" /\ Len(w.num) <= Len(v.num) /\ \A j \in 1..Len(w.num) : v.num[j] = w.num[j]
    PROVE  Above(Rank(v), Rank(w))
<1>1. v.num \in Seq(Nat) /\ Len(v.num) >= 1 /\ w.num \in Seq(Nat) /\ Len(w.num) >= 1
    BY DEF IsVersion
<1>2. /\ Rank(v) \in Seq(Int) /\ Len(Rank(v)) = Len(v.num) + 1
      /\ \A i \in 1..Len(v.num) : Rank(v)[i] = 2 * v.num[i]
      /\ Rank(v)[Len(v.num) + 1] = 0
    BY RankIs
<1>3. /\ Rank(w) \in Seq(Int) /\ Len(Rank(w)) = Len(w.num) + 1
      /\ \A i \in 1..Len(w.num) : Rank(w)[i] = 2 * w.num[i]
      /\ w.tag = "" => Rank(w)[Len(w.num) + 1] = 0
      /\ w.tag = "pre" => Rank(w)[Len(w.num) + 1] = -1
    BY RankIs
<1>4. /\ v.num[1] > w.num[1] => Above(Rank(v), Rank(w))
      /\ Rank(w)[Len(w.num) + 1] = 0 /\ Above(v.num, w.num) => Above(Rank(v), Rank(w))
      /\ Rank(w)[Len(w.num) + 1] = -1 /\ Len(w.num) <= Len(v.num)
              /\ (\A j \in 1..Len(w.num) : v.num[j] = w.num[j]) => Above(Rank(v), Rank(w))
    BY <1>1, <1>2, <1>3, DoubledAbove
<1>5. QED BY <1>3, <1>4

\* The cycle of a release is what its numbers begin with.
LEMMA CycleIs ==
    ASSUME NEW v, IsVersion(v)
    PROVE  /\ v.tag = "pre" => ReleaseCycle(v) = v.num
           /\ v.tag = "" =>
                 /\ Len(v.num) >= 3 /\ v.num[1] < 40 => ReleaseCycle(v) = <<v.num[1], v.num[2]>>
                 /\ Len(v.num) < 3 \/ v.num[1] >= 40 => ReleaseCycle(v) = <<v.num[1]>>
                 /\ Len(ReleaseCycle(v)) <= Len(v.num)
                 /\ \A j \in 1..Len(ReleaseCycle(v)) : ReleaseCycle(v)[j] = v.num[j]
<1>1. v.tag = "pre" => ReleaseCycle(v) = v.num
    BY Zenon DEF ReleaseCycle, IsPrerelease
<1>2. CASE v.tag = ""
    <2>1. v.num \in Seq(Nat) /\ Len(v.num) >= 1 /\ v.num[1] \in Nat
        <3>1. v.num \in Seq(Nat) /\ Len(v.num) >= 1
            BY DEF IsVersion
        <3>2. QED BY <3>1
    <2>2. ReleaseCycle(v) = CASE Len(v.num) >= 3 /\ v.num[1] >= 40 -> <<v.num[1]>>
                              [] Len(v.num) >= 3 /\ v.num[1] < 40 -> SubSeq(v.num, 1, 2)
                              [] OTHER -> <<v.num[1]>>
        BY <1>2, Zenon DEF ReleaseCycle, IsPrerelease
    <2> DEFINE long == Len(v.num) >= 3
               new == v.num[1] >= 40
               old == v.num[1] < 40
    <2>3. /\ long /\ new => ReleaseCycle(v) = <<v.num[1]>>
          /\ long /\ old /\ ~new => ReleaseCycle(v) = SubSeq(v.num, 1, 2)
          /\ ~long => ReleaseCycle(v) = <<v.num[1]>>
        <3>1. ASSUME long, new PROVE ReleaseCycle(v) = <<v.num[1]>>
            <4>1. CASE old
                <5>1. FALSE
                    BY <2>1, <3>1, <4>1
                <5>2. QED BY <5>1
            <4>2. CASE ~old
                BY <2>2, <3>1, <4>2, Zenon
            <4>3. QED BY <4>1, <4>2
        <3>2. ASSUME long, old, ~new PROVE ReleaseCycle(v) = SubSeq(v.num, 1, 2)
            BY <2>2, <3>2, Zenon
        <3>3. ASSUME ~long PROVE ReleaseCycle(v) = <<v.num[1]>>
            BY <2>2, <3>3, Zenon
        <3>4. QED BY <3>1, <3>2, <3>3
    <2>4. new <=> ~old
        BY <2>1
    <2>5. long => SubSeq(v.num, 1, 2) = <<v.num[1], v.num[2]>>
        <3>1. PICK num \in Seq(Nat) : num = v.num
            BY <2>1
        <3>2. ASSUME Len(num) >= 3 PROVE SubSeq(num, 1, 2) = <<num[1], num[2]>>
            <4>1. PICK s : s = SubSeq(num, 1, 2)
                OBVIOUS
            <4>2. s \in Seq(Nat) /\ Len(s) = 2 /\ s[1] = num[1] /\ s[2] = num[2]
                BY <3>2, <4>1
            <4>3. s = <<s[1], s[2]>>
                BY <4>2
            <4>4. QED BY <4>1, <4>2, <4>3
        <3>3. QED BY <3>1, <3>2
    <2>6. ReleaseCycle(v) = IF long /\ old THEN <<v.num[1], v.num[2]>> ELSE <<v.num[1]>>
        BY <2>3, <2>4, <2>5
    <2>7. /\ Len(v.num) >= 3 /\ v.num[1] < 40 => ReleaseCycle(v) = <<v.num[1], v.num[2]>>
          /\ Len(v.num) < 3 \/ v.num[1] >= 40 => ReleaseCycle(v) = <<v.num[1]>>
        <3>1. Len(v.num) \in Nat
            BY <2>1
        <3>2. QED BY <2>1, <2>6, <3>1
    <2>8. Len(ReleaseCycle(v)) <= Len(v.num) /\ \A j \in 1..Len(ReleaseCycle(v)) : ReleaseCycle(v)[j] = v.num[j]
        <3>1. CASE long /\ old
            <4>1. ReleaseCycle(v) = <<v.num[1], v.num[2]>>
                BY <2>6, <3>1
            <4>2. QED BY <3>1, <4>1
        <3>2. CASE ~(long /\ old)
            <4>1. ReleaseCycle(v) = <<v.num[1]>>
                BY <2>6, <3>2
            <4>2. QED BY <2>1, <4>1
        <3>3. QED BY <3>1, <3>2
    <2>9. QED BY <1>2, <2>7, <2>8
<1>3. QED BY <1>1, <1>2

\* A GNOME release of the cycle a lock is of is above the lock.
LEMMA GnomeFollows ==
    ASSUME NEW v, NEW w, IsVersion(v), IsVersion(w), v.tag \in {"", "pre"}, w.tag \in {"", "pre"},
           ~IsGnomePrerelease(v), ReleaseCycle(v) = ReleaseCycle(w),
           IsPrerelease(w) \/ Above(VersionKey(v), VersionKey(w))
    PROVE  v.tag = "" /\ Above(Rank(v), Rank(w))
<1>1. v.tag = ""
    BY DEF IsGnomePrerelease, IsPrerelease
<1>2. CASE w.tag = ""
    <2>1. Above(v.num, w.num)
        BY <1>1, <1>2, KeyIsTuple DEF IsPrerelease
    <2>2. QED BY <1>1, <1>2, <2>1, RankFollows
<1>3. CASE w.tag = "pre"
    <2>1. ReleaseCycle(v) = w.num
        BY <1>3, CycleIs
    <2>2. Len(w.num) <= Len(v.num) /\ \A j \in 1..Len(w.num) : v.num[j] = w.num[j]
        BY <1>1, <2>1, CycleIs
    <2>3. QED BY <1>1, <1>3, <2>2, RankFollows
<1>4. QED BY <1>2, <1>3

\* Small sets are finite.
LEMMA FewAreFinite ==
    ASSUME NEW a, NEW b, NEW c, NEW d, NEW e, NEW f,
           NEW S \in SUBSET {a, b, c, d, e, f}
    PROVE  IsFiniteSet(S)
<1>1. IsFiniteSet({a})
    BY FS_Singleton
<1>2. IsFiniteSet({a} \cup {b})
    BY <1>1, FS_AddElement
<1>3. IsFiniteSet(({a} \cup {b}) \cup {c})
    BY <1>2, FS_AddElement
<1>4. IsFiniteSet((({a} \cup {b}) \cup {c}) \cup {d})
    BY <1>3, FS_AddElement
<1>5. IsFiniteSet(((({a} \cup {b}) \cup {c}) \cup {d}) \cup {e})
    BY <1>4, FS_AddElement
<1>6. IsFiniteSet((((({a} \cup {b}) \cup {c}) \cup {d}) \cup {e}) \cup {f})
    BY <1>5, FS_AddElement
<1>7. (((({a} \cup {b}) \cup {c}) \cup {d}) \cup {e}) \cup {f} = {a, b, c, d, e, f}
    OBVIOUS
<1>8. QED BY <1>6, <1>7, FS_Subset

\* A version has the numbers and the tag it is given.
LEMMA VerIs ==
    ASSUME NEW num, NEW tag
    PROVE  Ver(num, tag).num = num /\ Ver(num, tag).tag = tag
BY DEF Ver

\* Tuples of one, two or three numbers.
LEMMA NumbersAre ==
    ASSUME NEW a \in Nat, NEW b \in Nat, NEW c \in Nat
    PROVE  /\ <<a>> \in Seq(Nat) /\ Len(<<a>>) >= 1 /\ Len(<<a>>) < 3 /\ <<a>>[1] = a
           /\ <<a, b>> \in Seq(Nat) /\ Len(<<a, b>>) >= 1 /\ Len(<<a, b>>) < 3 /\ <<a, b>>[1] = a
           /\ <<a, b, c>> \in Seq(Nat) /\ Len(<<a, b, c>>) >= 1 /\ Len(<<a, b, c>>) >= 3
           /\ <<a, b, c>>[1] = a /\ <<a, b, c>>[2] = b
<1>1. <<a>> \in Seq(Nat)
    OBVIOUS
<1>2. Len(<<a>>) >= 1
    OBVIOUS
<1>3. Len(<<a>>) < 3
    OBVIOUS
<1>4. <<a>>[1] = a
    OBVIOUS
<1>5. <<a, b>> \in Seq(Nat)
    OBVIOUS
<1>6. Len(<<a, b>>) >= 1
    OBVIOUS
<1>7. Len(<<a, b>>) < 3
    OBVIOUS
<1>8. <<a, b>>[1] = a
    OBVIOUS
<1>9. <<a, b, c>> \in Seq(Nat)
    OBVIOUS
<1>10. Len(<<a, b, c>>) >= 1
    OBVIOUS
<1>11. Len(<<a, b, c>>) >= 3
    OBVIOUS
<1>12. <<a, b, c>>[1] = a
    OBVIOUS
<1>13. <<a, b, c>>[2] = b
    OBVIOUS
<1>14. QED
    BY <1>1, <1>2, <1>3, <1>4, <1>5, <1>6, <1>7, <1>8, <1>9, <1>10, <1>11, <1>12, <1>13, Zenon

\* What a version of any numbers is.
LEMMA VersionIs ==
    ASSUME NEW num \in Seq(Nat), Len(num) >= 1, NEW tag \in {"", "pre", "glued", "build"}
    PROVE  /\ Ver(num, tag).num = num /\ Ver(num, tag).tag = tag /\ IsVersion(Ver(num, tag))
           /\ tag = "pre" => ReleaseCycle(Ver(num, tag)) = num
           /\ tag = "" /\ (Len(num) < 3 \/ num[1] >= 40) => ReleaseCycle(Ver(num, tag)) = <<num[1]>>
           /\ tag = "" /\ Len(num) >= 3 /\ num[1] < 40 => ReleaseCycle(Ver(num, tag)) = <<num[1], num[2]>>
<1>1. PICK v : v = Ver(num, tag)
    OBVIOUS
<1>2. v.num = num /\ v.tag = tag
    BY <1>1, VerIs
<1>3. IsVersion(v)
    BY <1>2 DEF IsVersion
<1>4. /\ tag = "pre" => ReleaseCycle(v) = num
      /\ tag = "" /\ (Len(num) < 3 \/ num[1] >= 40) => ReleaseCycle(v) = <<num[1]>>
      /\ tag = "" /\ Len(num) >= 3 /\ num[1] < 40 => ReleaseCycle(v) = <<num[1], num[2]>>
    BY <1>2, <1>3, CycleIs
<1>5. QED BY <1>1, <1>2, <1>3, <1>4

\* And of one, two or three numbers.
LEMMA OneNumber ==
    ASSUME NEW a \in Nat
    PROVE  /\ Ver(<<a>>, "pre").num = <<a>> /\ Ver(<<a>>, "pre").num[1] = a
           /\ Ver(<<a>>, "pre").tag = "pre" /\ IsVersion(Ver(<<a>>, "pre"))
           /\ ReleaseCycle(Ver(<<a>>, "pre")) = <<a>>
<1>1. "pre" \in {"", "pre", "glued", "build"}
    OBVIOUS
<1>2. <<a>> \in Seq(Nat) /\ Len(<<a>>) >= 1 /\ <<a>>[1] = a
    BY NumbersAre, Zenon
<1>3. QED BY <1>1, <1>2, VersionIs, Zenon

\* Two of them may have any tag.
LEMMA TwoNumbers ==
    ASSUME NEW a \in Nat, NEW b \in Nat
    PROVE  /\ Ver(<<a, b>>, "").num = <<a, b>> /\ Ver(<<a, b>>, "").num[1] = a
           /\ Ver(<<a, b>>, "").tag = "" /\ IsVersion(Ver(<<a, b>>, ""))
           /\ Ver(<<a, b>>, "pre").num = <<a, b>> /\ Ver(<<a, b>>, "pre").num[1] = a
           /\ Ver(<<a, b>>, "pre").tag = "pre" /\ IsVersion(Ver(<<a, b>>, "pre"))
           /\ Ver(<<a, b>>, "build").num = <<a, b>> /\ Ver(<<a, b>>, "build").num[1] = a
           /\ Ver(<<a, b>>, "build").tag = "build" /\ IsVersion(Ver(<<a, b>>, "build"))
           /\ ReleaseCycle(Ver(<<a, b>>, "")) = <<a>> /\ ReleaseCycle(Ver(<<a, b>>, "pre")) = <<a, b>>
<1>1. "" \in {"", "pre", "glued", "build"} /\ "pre" \in {"", "pre", "glued", "build"}
      /\ "build" \in {"", "pre", "glued", "build"}
    OBVIOUS
<1>2. <<a, b>> \in Seq(Nat) /\ Len(<<a, b>>) >= 1 /\ Len(<<a, b>>) < 3 /\ <<a, b>>[1] = a
    BY NumbersAre, Zenon
<1>3. QED BY <1>1, <1>2, VersionIs, Zenon

\* Three are of a cycle of one number, or before 40 of two.
LEMMA ThreeNumbers ==
    ASSUME NEW a \in Nat, NEW b \in Nat, NEW c \in Nat
    PROVE  /\ Ver(<<a, b, c>>, "").num = <<a, b, c>> /\ Ver(<<a, b, c>>, "").num[1] = a
           /\ Ver(<<a, b, c>>, "").tag = "" /\ IsVersion(Ver(<<a, b, c>>, ""))
           /\ a >= 40 => ReleaseCycle(Ver(<<a, b, c>>, "")) = <<a>>
           /\ a < 40 => ReleaseCycle(Ver(<<a, b, c>>, "")) = <<a, b>>
<1>1. "" \in {"", "pre", "glued", "build"}
    OBVIOUS
<1>2. /\ <<a, b, c>> \in Seq(Nat) /\ Len(<<a, b, c>>) >= 1 /\ Len(<<a, b, c>>) >= 3
      /\ <<a, b, c>>[1] = a /\ <<a, b, c>>[2] = b
    BY NumbersAre, Zenon
<1>3. QED BY <1>1, <1>2, VersionIs, Zenon

\* The releases of a cycle of GNOME's, in the numbering since 40.
LEMMA GnomeReleases ==
    ASSUME NEW a \in Nat, NEW b \in Nat, NEW c \in Nat, a >= 40
    PROVE  \A v \in {Ver(<<a>>, "pre"), Ver(<<a, b>>, ""), Ver(<<a, b, c>>, "")} :
               v.tag \in {"", "pre"} /\ IsVersion(v) /\ v.num[1] = a /\ ReleaseCycle(v) = <<a>>
<1> TAKE v \in {Ver(<<a>>, "pre"), Ver(<<a, b>>, ""), Ver(<<a, b, c>>, "")}
<1>1. CASE v = Ver(<<a>>, "pre")
    <2>1. v.tag = "pre" /\ IsVersion(v) /\ v.num[1] = a /\ ReleaseCycle(v) = <<a>>
        BY <1>1, OneNumber, ZenonT(40)
    <2>2. QED BY <2>1
<1>2. CASE v = Ver(<<a, b>>, "")
    <2>1. v.tag = "" /\ IsVersion(v) /\ v.num[1] = a /\ ReleaseCycle(v) = <<a>>
        BY <1>2, TwoNumbers, ZenonT(40)
    <2>2. QED BY <2>1
<1>3. CASE v = Ver(<<a, b, c>>, "")
    <2>1. v.tag = ""
        BY <1>3, ThreeNumbers, ZenonT(40)
    <2>2. IsVersion(v)
        BY <1>3, ThreeNumbers, ZenonT(40)
    <2>3. v.num[1] = a
        BY <1>3, ThreeNumbers, ZenonT(40)
    <2>4. ReleaseCycle(v) = <<a>>
        BY <1>3, ThreeNumbers, ZenonT(40)
    <2>5. QED BY <2>1, <2>2, <2>3, <2>4
<1>4. QED BY <1>1, <1>2, <1>3

\* The series of four projects, of GNOME in both its numberings and of two forges.
Fiftyone == {Ver(<<51>>, "pre"), Ver(<<51, 0>>, ""), Ver(<<51, 0, 1>>, "")}
Fiftytwo == {Ver(<<52>>, "pre"), Ver(<<52, 0>>, "")}

\* In the first project each series is a cycle.
LEMMA GnomeNew ==
    /\ Projects[1].series = <<Fiftyone, Fiftytwo>>
    /\ AllOf(Projects[1]) = Fiftyone \cup Fiftytwo /\ IsFiniteSet(AllOf(Projects[1]))
    /\ \A v \in Fiftyone : IsVersion(v) /\ v.tag \in {"", "pre"} /\ v.num[1] = 51 /\ ReleaseCycle(v) = <<51>>
    /\ \A v \in Fiftytwo : IsVersion(v) /\ v.tag \in {"", "pre"} /\ v.num[1] = 52 /\ ReleaseCycle(v) = <<52>>
<1>1. Projects[1].series = <<Fiftyone, Fiftytwo>>
    BY DEF Projects, Fiftyone, Fiftytwo
<1>2. AllOf(Projects[1]) = Fiftyone \cup Fiftytwo
    BY <1>1 DEF AllOf, ToSet
<1>3. IsFiniteSet(Fiftyone \cup Fiftytwo)
    <2>1. ASSUME NEW a, NEW b, NEW c, NEW d, NEW e PROVE IsFiniteSet({a, b, c} \cup {d, e})
        <3>1. PICK S : S = {a, b, c} \cup {d, e}
            OBVIOUS
        <3>2. S \in SUBSET {a, b, c, d, e, e}
            BY <3>1
        <3>3. IsFiniteSet(S)
            BY <3>2, FewAreFinite, Zenon
        <3>4. QED BY <3>1, <3>3
    <2>2. QED BY <2>1, Zenon DEF Fiftyone, Fiftytwo
<1>4. \A v \in Fiftyone : v.tag \in {"", "pre"} /\ IsVersion(v) /\ v.num[1] = 51 /\ ReleaseCycle(v) = <<51>>
    <2>1. 51 \in Nat /\ 0 \in Nat /\ 1 \in Nat /\ 51 >= 40
        OBVIOUS
    <2>2. PICK a \in Nat, b \in Nat, c \in Nat : a = 51 /\ b = 0 /\ c = 1
        BY <2>1
    <2>3. a >= 40
        BY <2>2
    <2>4. \A v \in {Ver(<<a>>, "pre"), Ver(<<a, b>>, ""), Ver(<<a, b, c>>, "")} :
              v.tag \in {"", "pre"} /\ IsVersion(v) /\ v.num[1] = a /\ ReleaseCycle(v) = <<a>>
        BY <2>3, GnomeReleases, Zenon
    <2>5. Fiftyone \subseteq {Ver(<<a>>, "pre"), Ver(<<a, b>>, ""), Ver(<<a, b, c>>, "")}
        BY <2>2 DEF Fiftyone
    <2>6. QED BY <2>2, <2>4, <2>5
<1>5. \A v \in Fiftytwo : v.tag \in {"", "pre"} /\ IsVersion(v) /\ v.num[1] = 52 /\ ReleaseCycle(v) = <<52>>
    <2>1. 52 \in Nat /\ 0 \in Nat /\ 1 \in Nat /\ 52 >= 40
        OBVIOUS
    <2>2. PICK a \in Nat, b \in Nat, c \in Nat : a = 52 /\ b = 0 /\ c = 1
        BY <2>1
    <2>3. a >= 40
        BY <2>2
    <2>4. \A v \in {Ver(<<a>>, "pre"), Ver(<<a, b>>, ""), Ver(<<a, b, c>>, "")} :
              v.tag \in {"", "pre"} /\ IsVersion(v) /\ v.num[1] = a /\ ReleaseCycle(v) = <<a>>
        BY <2>3, GnomeReleases, Zenon
    <2>5. Fiftytwo \subseteq {Ver(<<a>>, "pre"), Ver(<<a, b>>, ""), Ver(<<a, b, c>>, "")}
        BY <2>2 DEF Fiftytwo
    <2>6. QED BY <2>2, <2>4, <2>5
<1>6. QED BY <1>1, <1>2, <1>3, <1>4, <1>5

\* The releases of a cycle in the numbering before, and the beta of one.
LEMMA OldReleases ==
    ASSUME NEW a \in Nat, NEW b \in Nat, NEW c \in Nat, a < 40
    PROVE  \A v \in {Ver(<<a, b>>, "pre"), Ver(<<a, b, c>>, "")} :
               v.tag \in {"", "pre"} /\ IsVersion(v) /\ ReleaseCycle(v) = <<a, b>>
<1> TAKE v \in {Ver(<<a, b>>, "pre"), Ver(<<a, b, c>>, "")}
<1>1. CASE v = Ver(<<a, b>>, "pre")
    <2>1. v.tag = "pre" /\ IsVersion(v) /\ ReleaseCycle(v) = <<a, b>>
        BY <1>1, TwoNumbers, ZenonT(40)
    <2>2. QED BY <2>1
<1>2. CASE v = Ver(<<a, b, c>>, "")
    <2>1. v.tag = ""
        BY <1>2, ThreeNumbers, ZenonT(40)
    <2>2. IsVersion(v)
        BY <1>2, ThreeNumbers, ZenonT(40)
    <2>3. ReleaseCycle(v) = <<a, b>>
        BY <1>2, ThreeNumbers, ZenonT(40)
    <2>4. QED BY <2>1, <2>2, <2>3
<1>3. QED BY <1>1, <1>2

\* Of the second project: two stable series and one in development between.
Fiftyeight == {Ver(<<1, 58, 1>>, ""), Ver(<<1, 58, 2>>, "")}
Ninety == {Ver(<<1, 89, 90>>, ""), Ver(<<1, 90, 0>>, "")}
Sixty == {Ver(<<1, 60>>, "pre"), Ver(<<1, 60, 0>>, "")}

\* In the second too, but for a development series of two.
LEMMA GnomeOld ==
    /\ Projects[2].series = <<Fiftyeight, Ninety, Sixty>>
    /\ AllOf(Projects[2]) = Fiftyeight \cup Ninety \cup Sixty /\ IsFiniteSet(AllOf(Projects[2]))
    /\ \A v \in AllOf(Projects[2]) : IsVersion(v) /\ v.tag \in {"", "pre"}
    /\ \A v \in Fiftyeight \cup Ninety : v.tag = ""
    /\ \A v \in Fiftyeight : ReleaseCycle(v) = <<1, 58>>
    /\ \A v \in Ninety : \E n \in {89, 90} : ReleaseCycle(v) = <<1, n>>
    /\ \A v \in Sixty : ReleaseCycle(v) = <<1, 60>>
<1>1. Projects[2].series = <<Fiftyeight, Ninety, Sixty>>
    BY DEF Projects, Fiftyeight, Ninety, Sixty
<1>2. AllOf(Projects[2]) = Fiftyeight \cup Ninety \cup Sixty
    BY <1>1 DEF AllOf, ToSet
<1>3. IsFiniteSet(Fiftyeight \cup Ninety \cup Sixty)
    <2>1. ASSUME NEW a, NEW b PROVE IsFiniteSet({a, b})
        <3>1. IsFiniteSet({a} \cup {b})
            BY FS_Singleton, FS_AddElement
        <3>2. {a} \cup {b} = {a, b}
            OBVIOUS
        <3>3. QED BY <3>1, <3>2
    <2>2. IsFiniteSet(Fiftyeight) /\ IsFiniteSet(Ninety) /\ IsFiniteSet(Sixty)
        BY <2>1, Zenon DEF Fiftyeight, Ninety, Sixty
    <2>3. IsFiniteSet(Fiftyeight \cup Ninety)
        BY <2>2, FS_Union
    <2>4. QED BY <2>2, <2>3, FS_Union
<1>4. ASSUME NEW n \in Nat, NEW m \in Nat
      PROVE  \A v \in {Ver(<<1, n>>, "pre"), Ver(<<1, n, m>>, "")} :
                 v.tag \in {"", "pre"} /\ IsVersion(v) /\ ReleaseCycle(v) = <<1, n>>
    <2>1. PICK a \in Nat : a = 1
        OBVIOUS
    <2>2. a < 40
        BY <2>1
    <2>3. \A w \in {Ver(<<a, n>>, "pre"), Ver(<<a, n, m>>, "")} :
              w.tag \in {"", "pre"} /\ IsVersion(w) /\ ReleaseCycle(w) = <<a, n>>
        BY <2>2, OldReleases, Zenon
    <2>4. QED BY <2>1, <2>3
<1>5. \A v \in Fiftyeight : v.tag \in {"", "pre"} /\ IsVersion(v) /\ ReleaseCycle(v) = <<1, 58>>
    BY <1>4 DEF Fiftyeight
<1>6. \A v \in Ninety : v.tag \in {"", "pre"} /\ IsVersion(v) /\ \E n \in {89, 90} : ReleaseCycle(v) = <<1, n>>
    <2>1. ASSUME NEW v, v = Ver(<<1, 89, 90>>, "")
          PROVE  v.tag \in {"", "pre"} /\ IsVersion(v) /\ ReleaseCycle(v) = <<1, 89>>
        BY <1>4, <2>1
    <2>2. ASSUME NEW v, v = Ver(<<1, 90, 0>>, "")
          PROVE  v.tag \in {"", "pre"} /\ IsVersion(v) /\ ReleaseCycle(v) = <<1, 90>>
        BY <1>4, <2>2
    <2>3. QED BY <2>1, <2>2 DEF Ninety
<1>7. \A v \in Sixty : v.tag \in {"", "pre"} /\ IsVersion(v) /\ ReleaseCycle(v) = <<1, 60>>
    BY <1>4 DEF Sixty
<1>8. \A v \in Fiftyeight \cup Ninety : v.tag = ""
    <2>1. \A num : Ver(num, "").tag = ""
        BY VerIs, Zenon
    <2>2. \A v \in Fiftyeight \cup Ninety : \E num : v = Ver(num, "")
        BY DEF Fiftyeight, Ninety
    <2>3. QED BY <2>1, <2>2, Zenon
<1>9. QED BY <1>1, <1>2, <1>3, <1>5, <1>6, <1>7, <1>8

\* Of two tuples of two numbers.
LEMMA PairAbove ==
    ASSUME NEW p \in Seq(Int), NEW q \in Seq(Int), Len(p) = 2, Len(q) = 2
    PROVE  Above(p, q) <=> p[1] > q[1] \/ (p[1] = q[1] /\ p[2] > q[2])
<1>1. ASSUME Above(p, q) PROVE p[1] > q[1] \/ (p[1] = q[1] /\ p[2] > q[2])
    <2>1. PICK i : Beats(p, 2, q, 2, i)
        BY <1>1, AboveBeats
    <2>2. i = 1 \/ i = 2
        BY <2>1 DEF Beats
    <2>3. QED BY <2>1, <2>2 DEF Beats
<1>2. p[1] > q[1] => Beats(p, 2, q, 2, 1)
    BY DEF Beats
<1>3. p[1] = q[1] /\ p[2] > q[2] => Beats(p, 2, q, 2, 2)
    BY DEF Beats
<1>4. QED BY <1>1, <1>2, <1>3, AboveBeats

\* Two numbers; the same first; and the second hidden.
Pair(p) == p \in Seq(Int) /\ Len(p) = 2 /\ p[1] \in Nat /\ p[2] \in Nat

Alike(p, q) == p[1] = q[1]

Hides(r, p) == r \in Seq(Int) /\ Len(r) = 2 /\ r[1] = p[1] /\ r[2] = -1

\* Two pairs that begin alike are in the order of their second numbers, and one
\* whose second is hidden is below both.
LEMMA PairsCompare ==
    ASSUME NEW p, NEW q, NEW r, Pair(p), Pair(q), Alike(p, q), Hides(r, p)
    PROVE  /\ ~Above(r, q) /\ Above(q, r)
           /\ Above(p, q) <=> p[2] > q[2]
           /\ Above(q, p) <=> q[2] > p[2]
<1>1. ~Above(r, q) /\ Above(q, r)
    BY PairAbove DEF Pair, Alike, Hides
<1>2. Above(p, q) <=> p[2] > q[2]
    BY PairAbove DEF Pair, Alike
<1>3. Above(q, p) <=> q[2] > p[2]
    BY PairAbove DEF Pair, Alike
<1>4. QED BY <1>1, <1>2, <1>3

\* What doubles a pair, with a mark of its own.
Doubles(rp, p) == rp \in Seq(Int) /\ Len(rp) = Len(p) + 1 /\ \A i \in 1..Len(p) : rp[i] = 2 * p[i]

\* It keeps the order, and is in that of the marks when the pairs are the same.
LEMMA PairsDoubled ==
    ASSUME NEW p, NEW q, Pair(p), Pair(q), Alike(p, q),
           NEW rp, Doubles(rp, p), rp[Len(p) + 1] = 0, NEW rq, Doubles(rq, q)
    PROVE  /\ p[2] > q[2] => Above(rp, rq)
           /\ rq[Len(q) + 1] = -1 /\ ~(q[2] > p[2]) => Above(rp, rq)
<1>1. 1 \in 1..2 /\ 2 \in 1..2
    OBVIOUS
<1>2. rp \in Seq(Int) /\ Len(rp) = 3 /\ rp[1] = 2 * p[1] /\ rp[2] = 2 * p[2] /\ rp[3] = 0
    BY <1>1 DEF Pair, Doubles
<1>3. rq \in Seq(Int) /\ Len(rq) = 3 /\ rq[1] = 2 * q[1] /\ rq[2] = 2 * q[2]
    BY <1>1 DEF Pair, Doubles
<1>4. p[2] > q[2] => Beats(rp, 3, rq, 3, 2)
    BY <1>2, <1>3 DEF Beats, Pair, Alike
<1>5. rq[3] = -1 /\ p[2] = q[2] => Beats(rp, 3, rq, 3, 3)
    BY <1>2, <1>3 DEF Beats, Pair, Alike
<1>6. (\E i : Beats(rp, 3, rq, 3, i)) => Above(rp, rq)
    BY <1>2, <1>3, AboveBeats
<1>7. ~(q[2] > p[2]) => p[2] > q[2] \/ p[2] = q[2]
    BY DEF Pair
<1>8. Len(q) + 1 = 3
    BY DEF Pair
<1>9. QED BY <1>4, <1>5, <1>6, <1>7, <1>8

\* A version with two leading numbers.
IsPair(v) == IsVersion(v) /\ Len(v.num) = 2

\* Its numbers are a pair, and a suffix hides the last of them.
LEMMA PairIs ==
    ASSUME NEW v, IsPair(v)
    PROVE  IsVersion(v) /\ Pair(v.num) /\ Hides(Append(Front(v.num), -1), v.num)
<1>1. ASSUME NEW f \in Seq(Int), Len(f) = 1
      PROVE  \E r \in Seq(Int) : r = Append(f, -1) /\ Len(r) = 2 /\ r[1] = f[1] /\ r[2] = -1
    <2>1. ASSUME NEW last \in Int
          PROVE  /\ Append(f, last) \in Seq(Int) /\ Len(Append(f, last)) = 2
                 /\ Append(f, last)[1] = f[1] /\ Append(f, last)[2] = last
        <3>1. Append(f, last) \in Seq(Int) /\ Len(Append(f, last)) = 2
            BY <1>1
        <3>2. Append(f, last)[1] = f[1]
            BY <1>1
        <3>3. Append(f, last)[Len(f) + 1] = last
            OBVIOUS
        <3>4. Len(f) + 1 = 2
            BY <1>1
        <3>5. QED BY <3>1, <3>2, <3>3, <3>4, Zenon
    <2>2. -1 \in Int
        OBVIOUS
    <2>3. QED BY <2>1, <2>2, Zenon
<1>2. ASSUME NEW s \in Seq(Nat), Len(s) = 2
      PROVE  Pair(s) /\ Hides(Append(Front(s), -1), s)
    <2>1. s \in [1..2 -> Nat]
        BY <1>2
    <2>2. \A i \in 1..2 : s[i] \in Int
        BY <2>1
    <2>3. s \in Seq(Int) /\ s[1] \in Nat /\ s[2] \in Nat
        BY <1>2, <2>1, <2>2
    <2>4. PICK f : f = [i \in 1..1 |-> s[i]]
        OBVIOUS
    <2>5. f \in Seq(Int) /\ Len(f) = 1 /\ f[1] = s[1]
        BY <2>2, <2>4
    <2>6. f = Front(s)
        BY <1>2, <2>4 DEF Front
    <2>7. PICK r \in Seq(Int) : r = Append(f, -1) /\ Len(r) = 2 /\ r[1] = f[1] /\ r[2] = -1
        BY <1>1, <2>5
    <2>8. Hides(r, s)
        BY <2>5, <2>7 DEF Hides
    <2>9. Pair(s)
        BY <1>2, <2>3 DEF Pair
    <2>10. QED BY <2>6, <2>7, <2>8, <2>9, Zenon
<1>3. PICK s \in Seq(Nat) : s = v.num /\ Len(s) = 2
    BY DEF IsPair, IsVersion
<1>4. QED BY <1>2, <1>3, Zenon DEF IsPair

\* Of a forge's releases with two numbers and the same first.
LEMMA ForgeFollows ==
    ASSUME NEW v, NEW w, IsPair(v), IsPair(w), Alike(v.num, w.num), v.tag \in {"", "build"},
           w.tag \in {"", "pre", "build"}, Newer(v, w)
    PROVE  v.tag = "" /\ Above(Rank(v), Rank(w))
<1>1. IsVersion(v) /\ IsVersion(w) /\ Pair(v.num) /\ Pair(w.num)
    BY PairIs, Zenon
<1>2. PICK p, r : p = v.num /\ Pair(p) /\ r = Append(Front(v.num), -1) /\ Hides(r, p)
    BY PairIs, Zenon
<1>3. PICK q : q = w.num /\ Pair(q)
    BY PairIs, Zenon
<1>4. Alike(p, q)
    BY <1>2, <1>3, Zenon
<1>5. /\ ~Above(r, q) /\ Above(q, r)
      /\ Above(p, q) <=> p[2] > q[2]
      /\ Above(q, p) <=> q[2] > p[2]
    BY <1>2, <1>3, <1>4, PairsCompare, ZenonT(40)
<1>6. /\ w.tag = "" => VersionKey(w) = q
      /\ v.tag = "" => VersionKey(v) = p
      /\ v.tag = "build" => VersionKey(v) = r
    BY <1>1, <1>2, <1>3, KeyIsTuple, Zenon
<1>7. /\ w.tag = "" => Above(VersionKey(v), q)
      /\ w.tag = "pre" => ~Above(q, VersionKey(v))
      /\ w.tag = "build" => Above(VersionKey(v), q)
    BY <1>3, <1>6, Zenon DEF Newer
<1>8. v.tag = ""
    BY <1>5, <1>6, <1>7, Zenon
<1>9. /\ w.tag \in {"", "build"} => p[2] > q[2]
      /\ w.tag = "pre" => ~(q[2] > p[2])
    BY <1>5, <1>6, <1>7, <1>8, Zenon
<1>10. Doubles(Rank(v), p) /\ Rank(v)[Len(p) + 1] = 0
    BY <1>1, <1>2, <1>8, RankIs, Zenon DEF Doubles
<1>11. Doubles(Rank(w), q) /\ (w.tag = "pre" => Rank(w)[Len(q) + 1] = -1)
    BY <1>1, <1>3, RankIs, Zenon DEF Doubles
<1>12. /\ p[2] > q[2] => Above(Rank(v), Rank(w))
       /\ Rank(w)[Len(q) + 1] = -1 /\ ~(q[2] > p[2]) => Above(Rank(v), Rank(w))
    BY <1>2, <1>3, <1>4, <1>10, <1>11, PairsDoubled, Zenon
<1>13. QED BY <1>8, <1>9, <1>11, <1>12, Zenon

\* Of two tuples of three numbers.
LEMMA TripleAbove ==
    ASSUME NEW p \in Seq(Int), NEW q \in Seq(Int), Len(p) = 3, Len(q) = 3
    PROVE  Above(p, q) <=> \/ p[1] > q[1]
                           \/ p[1] = q[1] /\ p[2] > q[2]
                           \/ p[1] = q[1] /\ p[2] = q[2] /\ p[3] > q[3]
<1>1. ASSUME NEW i, Beats(p, 3, q, 3, i)
      PROVE  \/ p[1] > q[1]
             \/ p[1] = q[1] /\ p[2] > q[2]
             \/ p[1] = q[1] /\ p[2] = q[2] /\ p[3] > q[3]
    <2>1. i = 1 \/ i = 2 \/ i = 3
        BY <1>1 DEF Beats
    <2>2. QED BY <1>1, <2>1 DEF Beats
<1>2. p[1] > q[1] => Beats(p, 3, q, 3, 1)
    BY DEF Beats
<1>3. p[1] = q[1] /\ p[2] > q[2] => Beats(p, 3, q, 3, 2)
    BY DEF Beats
<1>4. p[1] = q[1] /\ p[2] = q[2] /\ p[3] > q[3] => Beats(p, 3, q, 3, 3)
    BY DEF Beats
<1>5. Above(p, q) <=> \E i : Beats(p, 3, q, 3, i)
    BY AboveBeats
<1>6. QED BY <1>1, <1>2, <1>3, <1>4, <1>5

\* Three numbers, and the last of them hidden.
Triple(p) == p \in Seq(Int) /\ Len(p) = 3 /\ p[1] \in Nat /\ p[2] \in Nat /\ p[3] \in Nat

HidesThird(r, p) == r \in Seq(Int) /\ Len(r) = 3 /\ r[1] = p[1] /\ r[2] = p[2] /\ r[3] = -1

\* Of two triples that begin alike the one is above the other by the second
\* number or the third; with its third hidden, by the second alone.
LEMMA TriplesCompare ==
    ASSUME NEW p, NEW q, NEW r, Triple(p), Triple(q), Alike(p, q), HidesThird(r, p)
    PROVE  /\ Above(p, q) => p[2] > q[2] \/ (p[2] = q[2] /\ p[3] > q[3])
           /\ ~Above(q, p) => p[2] > q[2] \/ (p[2] = q[2] /\ (p[3] > q[3] \/ p[3] = q[3]))
           /\ Above(r, q) => p[2] > q[2]
           /\ ~Above(q, r) => p[2] > q[2]
<1>1. Above(p, q) => p[2] > q[2] \/ (p[2] = q[2] /\ p[3] > q[3])
    BY TripleAbove DEF Triple, Alike
<1>2. ~Above(q, p) => p[2] > q[2] \/ (p[2] = q[2] /\ (p[3] > q[3] \/ p[3] = q[3]))
    BY TripleAbove DEF Triple, Alike
<1>3. /\ r \in Seq(Int) /\ Len(r) = 3 /\ q \in Seq(Int) /\ Len(q) = 3
      /\ r[1] = q[1] /\ r[2] = p[2] /\ r[3] = -1
    BY DEF Triple, Alike, HidesThird
<1>4. p[2] \in Int /\ q[1] \in Int /\ q[2] \in Int /\ q[3] \in Nat
    BY DEF Triple
<1>5. /\ Above(r, q) <=> r[1] > q[1] \/ (r[1] = q[1] /\ r[2] > q[2])
                         \/ (r[1] = q[1] /\ r[2] = q[2] /\ r[3] > q[3])
      /\ Above(q, r) <=> q[1] > r[1] \/ (q[1] = r[1] /\ q[2] > r[2])
                         \/ (q[1] = r[1] /\ q[2] = r[2] /\ q[3] > r[3])
    BY <1>3, TripleAbove
<1>6. Above(r, q) => p[2] > q[2]
    BY <1>3, <1>4, <1>5
<1>7. ~Above(q, r) => p[2] > q[2]
    BY <1>3, <1>4, <1>5
<1>8. QED BY <1>1, <1>2, <1>6, <1>7

\* What doubles two triples keeps their order, and their marks decide the rest.
LEMMA TriplesDoubled ==
    ASSUME NEW p, NEW q, Triple(p), Triple(q), Alike(p, q),
           NEW rp, Doubles(rp, p), NEW rq, Doubles(rq, q)
    PROVE  /\ p[2] > q[2] => Above(rp, rq)
           /\ p[2] = q[2] /\ p[3] > q[3] => Above(rp, rq)
           /\ p[2] = q[2] /\ p[3] = q[3] /\ rp[Len(p) + 1] = 0 /\ rq[Len(q) + 1] = -1 => Above(rp, rq)
<1>1. 1 \in 1..3 /\ 2 \in 1..3 /\ 3 \in 1..3
    OBVIOUS
<1>2. rp \in Seq(Int) /\ Len(rp) = 4 /\ rp[1] = 2 * p[1] /\ rp[2] = 2 * p[2] /\ rp[3] = 2 * p[3]
    BY <1>1 DEF Triple, Doubles
<1>3. rq \in Seq(Int) /\ Len(rq) = 4 /\ rq[1] = 2 * q[1] /\ rq[2] = 2 * q[2] /\ rq[3] = 2 * q[3]
    BY <1>1 DEF Triple, Doubles
<1>4. p[2] > q[2] => Beats(rp, 4, rq, 4, 2)
    BY <1>2, <1>3 DEF Beats, Triple, Alike
<1>5. p[2] = q[2] /\ p[3] > q[3] => Beats(rp, 4, rq, 4, 3)
    BY <1>2, <1>3 DEF Beats, Triple, Alike
<1>6. p[2] = q[2] /\ p[3] = q[3] /\ rp[4] = 0 /\ rq[4] = -1 => Beats(rp, 4, rq, 4, 4)
    BY <1>2, <1>3 DEF Beats, Triple, Alike
<1>7. (\E i : Beats(rp, 4, rq, 4, i)) => Above(rp, rq)
    BY <1>2, <1>3, AboveBeats
<1>8. Len(p) + 1 = 4 /\ Len(q) + 1 = 4
    BY DEF Triple
<1>9. QED BY <1>4, <1>5, <1>6, <1>7, <1>8

\* A version with three leading numbers.
IsTriple(v) == IsVersion(v) /\ Len(v.num) = 3

\* Its numbers are a triple, and a suffix hides the last of them.
LEMMA TripleIs ==
    ASSUME NEW v, IsTriple(v)
    PROVE  IsVersion(v) /\ Triple(v.num) /\ HidesThird(Append(Front(v.num), -1), v.num)
<1>1. ASSUME NEW f \in Seq(Int), Len(f) = 2
      PROVE  \E r \in Seq(Int) : r = Append(f, -1) /\ Len(r) = 3 /\ r[1] = f[1] /\ r[2] = f[2] /\ r[3] = -1
    <2>1. ASSUME NEW last \in Int
          PROVE  /\ Append(f, last) \in Seq(Int) /\ Len(Append(f, last)) = 3
                 /\ Append(f, last)[1] = f[1] /\ Append(f, last)[2] = f[2] /\ Append(f, last)[3] = last
        <3>1. Append(f, last) \in Seq(Int) /\ Len(Append(f, last)) = 3
            <4>1. Append(f, last) \in Seq(Int)
                OBVIOUS
            <4>2. Len(Append(f, last)) = Len(f) + 1
                OBVIOUS
            <4>3. QED BY <1>1, <4>1, <4>2
        <3>2. Append(f, last)[1] = f[1] /\ Append(f, last)[2] = f[2]
            <4>1. \A i \in 1..Len(f) : Append(f, last)[i] = f[i]
                OBVIOUS
            <4>2. 1 \in 1..Len(f) /\ 2 \in 1..Len(f)
                BY <1>1
            <4>3. QED BY <4>1, <4>2, Zenon
        <3>3. Append(f, last)[Len(f) + 1] = last
            OBVIOUS
        <3>4. Len(f) + 1 = 3
            BY <1>1
        <3>5. QED BY <3>1, <3>2, <3>3, <3>4, Zenon
    <2>2. -1 \in Int
        OBVIOUS
    <2>3. QED BY <2>1, <2>2, Zenon
<1>2. ASSUME NEW s \in Seq(Nat), Len(s) = 3
      PROVE  Triple(s) /\ HidesThird(Append(Front(s), -1), s)
    <2>1. \A i \in 1..3 : s[i] \in Nat
        <3>1. \A i \in 1..Len(s) : s[i] \in Nat
            OBVIOUS
        <3>2. QED BY <1>2, <3>1
    <2>2. \A i \in 1..3 : s[i] \in Int
        BY <2>1
    <2>3. s \in Seq(Int) /\ s[1] \in Nat /\ s[2] \in Nat /\ s[3] \in Nat
        BY <1>2, <2>1, <2>2
    <2>4. PICK f : f = [i \in 1..2 |-> s[i]]
        OBVIOUS
    <2>5. f \in Seq(Int) /\ Len(f) = 2 /\ f[1] = s[1] /\ f[2] = s[2]
        BY <2>2, <2>4
    <2>6. f = Front(s)
        BY <1>2, <2>4 DEF Front
    <2>7. PICK r \in Seq(Int) : r = Append(f, -1) /\ Len(r) = 3 /\ r[1] = f[1] /\ r[2] = f[2] /\ r[3] = -1
        BY <1>1, <2>5
    <2>8. HidesThird(r, s)
        BY <2>5, <2>7 DEF HidesThird
    <2>9. Triple(s)
        BY <1>2, <2>3 DEF Triple
    <2>10. QED BY <2>6, <2>7, <2>8, <2>9, Zenon
<1>3. PICK s \in Seq(Nat) : s = v.num /\ Len(s) = 3
    BY DEF IsTriple, IsVersion
<1>4. QED BY <1>2, <1>3, Zenon DEF IsTriple

\* Of a forge's releases with three numbers and the same first, with prereleases
\* that are taken for releases among them.
LEMMA GluedFollows ==
    ASSUME NEW v, NEW w, IsTriple(v), IsTriple(w), Alike(v.num, w.num), v.tag \in {"", "glued"},
           w.tag \in {"", "glued"}, Newer(v, w)
    PROVE  Above(Rank(v), Rank(w))
<1>1. IsVersion(v) /\ IsVersion(w) /\ Triple(v.num) /\ Triple(w.num)
    BY TripleIs, Zenon
<1>2. PICK p, r : p = v.num /\ Triple(p) /\ r = Append(Front(v.num), -1) /\ HidesThird(r, p)
    BY TripleIs, Zenon
<1>3. PICK q : q = w.num /\ Triple(q)
    BY TripleIs, Zenon
<1>4. Alike(p, q)
    BY <1>2, <1>3, Zenon
<1>5. /\ Above(p, q) => p[2] > q[2] \/ (p[2] = q[2] /\ p[3] > q[3])
      /\ ~Above(q, p) => p[2] > q[2] \/ (p[2] = q[2] /\ (p[3] > q[3] \/ p[3] = q[3]))
      /\ Above(r, q) => p[2] > q[2]
      /\ ~Above(q, r) => p[2] > q[2]
    BY <1>2, <1>3, <1>4, TriplesCompare, ZenonT(40)
<1>6. /\ w.tag = "" => VersionKey(w) = q
      /\ v.tag = "" => VersionKey(v) = p
      /\ v.tag = "glued" => VersionKey(v) = r
    BY <1>1, <1>2, <1>3, KeyIsTuple, Zenon
<1>7. /\ w.tag = "" => Above(VersionKey(v), q)
      /\ w.tag = "glued" => ~Above(q, VersionKey(v))
    BY <1>3, <1>6, Zenon DEF Newer
<1>8. PICK rp, rq : rp = Rank(v) /\ rq = Rank(w)
    OBVIOUS
<1>9. /\ Doubles(rp, p) /\ Doubles(rq, q)
      /\ v.tag = "" => rp[Len(p) + 1] = 0
      /\ w.tag = "glued" => rq[Len(q) + 1] = -1
    BY <1>1, <1>2, <1>3, <1>8, RankIs, Zenon DEF Doubles
<1>10. /\ p[2] > q[2] => Above(rp, rq)
       /\ p[2] = q[2] /\ p[3] > q[3] => Above(rp, rq)
       /\ p[2] = q[2] /\ p[3] = q[3] /\ rp[Len(p) + 1] = 0 /\ rq[Len(q) + 1] = -1 => Above(rp, rq)
    BY <1>2, <1>3, <1>4, <1>9, TriplesDoubled, Zenon
<1>11. CASE p[2] > q[2]
    BY <1>8, <1>10, <1>11, Zenon
<1>12. CASE ~(p[2] > q[2])
    <2>1. v.tag = ""
        BY <1>5, <1>6, <1>7, <1>12, Zenon
    <2>2. w.tag = "" => p[2] = q[2] /\ p[3] > q[3]
        BY <1>5, <1>6, <1>7, <1>12, <2>1, Zenon
    <2>3. w.tag = "glued" => p[2] = q[2] /\ (p[3] > q[3] \/ p[3] = q[3])
        BY <1>5, <1>6, <1>7, <1>12, <2>1, Zenon
    <2>4. QED BY <1>8, <1>9, <1>10, <2>1, <2>2, <2>3, Zenon
<1>13. QED BY <1>11, <1>12

\* Two releases that can only be of one and the same series are of the same one.
LEMMA SameSeries ==
    ASSUME NEW b, NEW v, NEW w,
           \E i \in DOMAIN b.series : v \in b.series[i],
           \E i \in DOMAIN b.series : w \in b.series[i],
           \A i, j \in DOMAIN b.series : v \in b.series[i] /\ w \in b.series[j] => i = j
    PROVE  SeriesOf(b, v) = SeriesOf(b, w)
<1>1. PICK k \in DOMAIN b.series : v \in b.series[k]
    OBVIOUS
<1>2. \A i \in DOMAIN b.series : w \in b.series[i] <=> i = k
    BY <1>1
<1>3. \A i \in DOMAIN b.series : v \in b.series[i] <=> i = k
    BY <1>1, <1>2
<1>4. SeriesOf(b, v) = k
    BY <1>3 DEF SeriesOf
<1>5. SeriesOf(b, w) = k
    BY <1>2 DEF SeriesOf
<1>6. QED BY <1>4, <1>5

\* What is written of a GNOME module is a release of the cycle asked for.
LEMMA GnomeWritten ==
    ASSUME NEW b, Written(b), b.entry.primary # "forge", b.entry.feed \in {"none", "anitya", "gnome"},
           NEW all, IsFiniteSet(all), \A v \in all : IsVersion(v),
           b.listing.released \subseteq all
    PROVE  LET latest == Plan(b).latest
           IN  /\ latest \in all /\ ~IsGnomePrerelease(latest)
               /\ ReleaseCycle(latest) = IF b.cycle = <<>> THEN ReleaseCycle(b.entry.version) ELSE b.cycle
               /\ IsPrerelease(b.entry.version) \/ Above(VersionKey(latest), VersionKey(b.entry.version))
<1> DEFINE latest == Plan(b).latest
           target == IF b.cycle = <<>> THEN ReleaseCycle(b.entry.version) ELSE b.cycle
           finals == {v \in b.listing.released : ~IsGnomePrerelease(v) /\ ReleaseCycle(v) = target}
<1>1. /\ latest \in CycleFinal(b.listing.released, target)
      /\ IsPrerelease(b.entry.version) \/ Above(VersionKey(latest), VersionKey(b.entry.version))
    BY WrittenIs, Zenon
<1>2. CycleFinal(b.listing.released, target) = Newest(finals)
    BY Zenon DEF CycleFinal
<1>3. finals \in SUBSET all /\ IsFiniteSet(finals) /\ \A v \in finals : IsVersion(v)
    <2>1. finals \in SUBSET all
        OBVIOUS
    <2>2. QED BY <2>1, FS_Subset
<1> HIDE DEF latest, target
<1>4. latest \in finals
    BY <1>1, <1>2, <1>3, NewestIs, Zenon
<1>5. QED BY <1>1, <1>3, <1>4, Zenon DEF latest, target

\* A GNOME lock moves forward, to a release of its own cycle.
LEMMA GnomeStays ==
    ASSUME NEW b, Written(b), b.entry.primary # "forge", b.entry.feed \in {"none", "anitya", "gnome"},
           NEW all, IsFiniteSet(all), \A v \in all : IsVersion(v) /\ v.tag \in {"", "pre"},
           b.listing.released \subseteq all, b.entry.version \in all, b.cycle = <<>>
    PROVE  LET latest == Plan(b).latest
           IN  /\ latest \in all /\ latest.tag = "" /\ Above(Rank(latest), Rank(b.entry.version))
               /\ ReleaseCycle(latest) = ReleaseCycle(b.entry.version)
<1>1. PICK latest : latest = Plan(b).latest
    OBVIOUS
<1>2. /\ latest \in all /\ ~IsGnomePrerelease(latest)
      /\ ReleaseCycle(latest) = ReleaseCycle(b.entry.version)
      /\ IsPrerelease(b.entry.version) \/ Above(VersionKey(latest), VersionKey(b.entry.version))
    BY <1>1, GnomeWritten, Zenon
<1>3. latest.tag = "" /\ Above(Rank(latest), Rank(b.entry.version))
    BY <1>2, GnomeFollows, Zenon
<1>4. QED BY <1>1, <1>2, <1>3, Zenon

\* Or of the cycle the run names: forward, unless the lock is a prerelease of a
\* cycle that does not come before.
LEMMA GnomeMoves ==
    ASSUME NEW b, Written(b), b.entry.primary # "forge", b.entry.feed \in {"none", "anitya", "gnome"},
           NEW all, IsFiniteSet(all), \A v \in all : IsVersion(v) /\ v.tag \in {"", "pre"},
           b.listing.released \subseteq all, b.entry.version \in all, b.cycle # <<>>
    PROVE  LET latest == Plan(b).latest
           IN  /\ latest \in all /\ latest.tag = "" /\ ReleaseCycle(latest) = b.cycle
               /\ \/ Above(Rank(latest), Rank(b.entry.version))
                  \/ /\ IsPrerelease(b.entry.version) /\ ReleaseCycle(b.entry.version) # b.cycle
                     /\ ~(latest.num[1] > b.entry.version.num[1])
<1>1. PICK latest, current : latest = Plan(b).latest /\ current = b.entry.version
    OBVIOUS
<1>2. /\ latest \in all /\ ~IsGnomePrerelease(latest) /\ ReleaseCycle(latest) = b.cycle
      /\ IsPrerelease(current) \/ Above(VersionKey(latest), VersionKey(current))
    BY <1>1, GnomeWritten, Zenon
<1>3. latest.tag = ""
    BY <1>2, Zenon DEF IsGnomePrerelease, IsPrerelease
<1>4. /\ IsVersion(latest) /\ IsVersion(current) /\ current.tag \in {"", "pre"}
    BY <1>1, <1>2, Zenon
<1>5. ASSUME ReleaseCycle(current) = b.cycle PROVE Above(Rank(latest), Rank(current))
    BY <1>2, <1>4, <1>5, GnomeFollows, Zenon
<1>6. ASSUME latest.num[1] > current.num[1] PROVE Above(Rank(latest), Rank(current))
    BY <1>3, <1>4, <1>6, RankFollows, Zenon
<1>7. ASSUME ~IsPrerelease(current) PROVE Above(Rank(latest), Rank(current))
    <2>1. current.tag = ""
        BY <1>4, <1>7, Zenon DEF IsPrerelease
    <2>2. Above(latest.num, current.num)
        BY <1>2, <1>3, <1>4, <1>7, <2>1, KeyIsTuple, Zenon
    <2>3. QED BY <1>3, <1>4, <2>1, <2>2, RankFollows, Zenon
<1>8. QED BY <1>1, <1>2, <1>3, <1>5, <1>6, <1>7, Zenon

\* What a forge lists that may be proposed is of what it ever released.
LEMMA ForgeLists ==
    ASSUME NEW listing, NEW endpoint, NEW all, listing.released \subseteq all, listing.tagged \subseteq all
    PROVE  ForgeVersions(listing, endpoint) \subseteq all
BY DEF ForgeVersions

\* A lock of a forge moves to what it takes for a release, of its own major
\* version.
LEMMA ForgeWritten ==
    ASSUME NEW b, Written(b), ~b.module,
           NEW all, IsFiniteSet(all), \A v \in all : IsVersion(v),
           b.listing.released \subseteq all, b.listing.tagged \subseteq all
    PROVE  LET latest == Plan(b).latest
           IN  /\ latest \in all /\ latest.tag # "pre" /\ Newer(latest, b.entry.version)
               /\ latest.num[1] = b.entry.version.num[1]
<1> DEFINE available == ForgeVersions(b.listing, b.endpoint)
           stable == {v \in available : v.num[1] = b.entry.version.num[1]}
           finals == {v \in stable : ~IsPrerelease(v)}
<1>1. PICK latest : latest = Plan(b).latest
    OBVIOUS
<1>2. latest \in NewestStable(stable) /\ Newer(latest, b.entry.version)
    BY <1>1, WrittenIs, Zenon
<1>3. NewestStable(stable) = Newest(finals)
    BY Zenon DEF NewestStable
<1>4. available \subseteq all
    BY ForgeLists, Zenon
<1> HIDE DEF available
<1>5. finals \in SUBSET all
    BY <1>4
<1>6. IsFiniteSet(finals)
    BY <1>5, FS_Subset
<1>7. \A v \in finals : IsVersion(v)
    BY <1>5
<1> HIDE DEF finals
<1>8. latest \in finals
    BY <1>2, <1>3, <1>6, <1>7, NewestIs, Zenon
<1>9. latest \in all /\ latest.num[1] = b.entry.version.num[1] /\ latest.tag # "pre"
    BY <1>5, <1>8, Zenon DEF finals, IsPrerelease
<1>10. QED BY <1>1, <1>2, <1>9, Zenon

\* Where versions have two numbers that is a release, and forward.
LEMMA ForgeStays ==
    ASSUME NEW b, Written(b), ~b.module,
           NEW all, IsFiniteSet(all), \A v \in all : IsPair(v) /\ v.tag \in {"", "pre", "build"},
           b.listing.released \subseteq all, b.listing.tagged \subseteq all, b.entry.version \in all
    PROVE  LET latest == Plan(b).latest
           IN  /\ latest \in all /\ latest.tag = "" /\ Above(Rank(latest), Rank(b.entry.version))
               /\ latest.num[1] = b.entry.version.num[1]
<1>1. PICK latest, current : latest = Plan(b).latest /\ current = b.entry.version
    OBVIOUS
<1>2. \A v \in all : IsVersion(v)
    BY DEF IsPair
<1>3. latest \in all /\ latest.tag # "pre" /\ Newer(latest, current) /\ latest.num[1] = current.num[1]
    BY <1>1, <1>2, ForgeWritten, Zenon
<1>4. /\ IsPair(latest) /\ IsPair(current) /\ Alike(latest.num, current.num)
      /\ latest.tag \in {"", "build"} /\ current.tag \in {"", "pre", "build"}
    BY <1>1, <1>3, Zenon DEF Alike
<1>5. latest.tag = "" /\ Above(Rank(latest), Rank(current))
    BY <1>3, <1>4, ForgeFollows, Zenon
<1>6. QED BY <1>1, <1>3, <1>5, Zenon

\* Where they have three, and markers without a separator, it is forward too.
LEMMA GluedStays ==
    ASSUME NEW b, Written(b), ~b.module,
           NEW all, IsFiniteSet(all), \A v \in all : IsTriple(v) /\ v.tag \in {"", "glued"},
           b.listing.released \subseteq all, b.listing.tagged \subseteq all, b.entry.version \in all
    PROVE  LET latest == Plan(b).latest
           IN  /\ latest \in all /\ latest.tag \in {"", "glued"} /\ Above(Rank(latest), Rank(b.entry.version))
               /\ latest.num[1] = b.entry.version.num[1]
<1>1. PICK latest, current : latest = Plan(b).latest /\ current = b.entry.version
    OBVIOUS
<1>2. \A v \in all : IsVersion(v)
    BY DEF IsTriple
<1>3. latest \in all /\ Newer(latest, current) /\ latest.num[1] = current.num[1]
    BY <1>1, <1>2, ForgeWritten, Zenon
<1>4. /\ IsTriple(latest) /\ IsTriple(current) /\ Alike(latest.num, current.num)
      /\ latest.tag \in {"", "glued"} /\ current.tag \in {"", "glued"}
    BY <1>1, <1>3, Zenon DEF Alike
<1>5. Above(Rank(latest), Rank(current))
    BY <1>3, <1>4, GluedFollows, Zenon
<1>6. QED BY <1>1, <1>3, <1>4, <1>5, Zenon

\* What is written stays in the series of its lock, or goes to the cycle named.
StaysInSeries(b, latest) ==
    /\ latest.tag = "" \/ (latest.tag = "glued" /\ ~b.module)
    /\ Above(Rank(latest), Rank(b.entry.version)) \/ NamesEarlierCycle(b)
    /\ IF b.cycle = <<>>
       THEN SeriesOf(b, latest) = SeriesOf(b, b.entry.version)
       ELSE \A i \in DOMAIN b.cycle : latest.num[i] = b.cycle[i]

\* A call about one lock of a project.
OfProject(b, project) ==
    /\ b.series = project.series /\ b.cycle \in project.cycles
    /\ b.entry.version \in AllOf(project)
    /\ b.listing.released \subseteq AllOf(project) /\ b.listing.tagged \subseteq AllOf(project)

\* It is so of every call that is made.
LEMMA PlanCallShape ==
    ASSUME NEW project, NEW b \in PlanCallsOf(project)
    PROVE  /\ OfProject(b, project)
           /\ b.module <=> "gnome" \in project.primaries
           /\ b.entry.primary \in project.primaries
           /\ "gnome" \in project.primaries => b.entry.feed \in {"none", "anitya", "gnome"}
<1> DEFINE versions == AllOf(project)
           other == IF "gnome" \in project.primaries THEN "gnome" ELSE "forge"
<1>1. b.entry \in [version : versions, primary : project.primaries, mirror : BOOLEAN,
                   feed : {"none", "anitya", other}]
    BY DEF PlanCallsOf
<1>2. b.listing \in [released : SUBSET versions, flagged : {{}, versions}, tagged : {{}, versions}]
    BY DEF PlanCallsOf
<1>3. b.module \in {"gnome" \in project.primaries} /\ b.cycle \in project.cycles /\ b.series \in {project.series}
    BY DEF PlanCallsOf
<1> HIDE DEF versions, other
<1>4. b.entry.version \in versions /\ b.entry.primary \in project.primaries /\ b.entry.feed \in {"none", "anitya", other}
    BY <1>1
<1>5. b.listing.released \subseteq versions /\ b.listing.tagged \subseteq versions
    BY <1>2
<1>6. OfProject(b, project)
    BY <1>3, <1>4, <1>5, Zenon DEF OfProject, versions
<1>7. QED BY <1>3, <1>4, <1>6, Zenon DEF other

\* And of those over the lists.
LEMMA ListCallShape ==
    ASSUME NEW b \in PlanCallsOfLists
    PROVE  ~b.module /\ OfProject(b, Projects[3]) /\ b.entry.primary \in {"forge", "lookaside"}
<1> DEFINE all == AllOf(Projects[3])
<1>1. /\ b.entry \in [version : all, primary : {"forge", "lookaside"}, mirror : {FALSE}, feed : {"forge"}]
      /\ b.listing \in {[released |-> all, flagged |-> {}, tagged |-> {}]}
      /\ b.module \in {FALSE} /\ b.cycle \in {<<>>} /\ b.series \in {Projects[3].series}
    BY DEF PlanCallsOfLists
<1>2. Projects[3].cycles = {<<>>}
    BY DEF Projects
<1> HIDE DEF all
<1>3. b.entry.version \in all /\ b.entry.primary \in {"forge", "lookaside"}
    BY <1>1
<1>4. b.listing.released \subseteq all /\ b.listing.tagged \subseteq all
    BY <1>1
<1>5. QED BY <1>1, <1>2, <1>3, <1>4, Zenon DEF OfProject, all

\* The series of the third project, a forge's.
Two == {Ver(<<2, 12>>, ""), Ver(<<2, 13>>, ""), Ver(<<2, 13>>, "build"), Ver(<<2, 14>>, "pre"), Ver(<<2, 14>>, "")}

Three == {Ver(<<3, 0>>, "")}

\* A release of two numbers, in each of the forms a forge has.
LEMMA ForgeReleases ==
    ASSUME NEW a \in Nat, NEW b \in Nat
    PROVE  \A v \in {Ver(<<a, b>>, ""), Ver(<<a, b>>, "pre"), Ver(<<a, b>>, "build")} :
               IsPair(v) /\ v.tag \in {"", "pre", "build"} /\ v.num[1] = a
<1> TAKE v \in {Ver(<<a, b>>, ""), Ver(<<a, b>>, "pre"), Ver(<<a, b>>, "build")}
<1>1. Len(<<a, b>>) = 2
    OBVIOUS
<1>2. CASE v = Ver(<<a, b>>, "")
    <2>1. v.tag = "" /\ IsVersion(v) /\ v.num = <<a, b>> /\ v.num[1] = a
        BY <1>2, TwoNumbers, Zenon
    <2>2. QED BY <1>1, <2>1, Zenon DEF IsPair
<1>3. CASE v = Ver(<<a, b>>, "pre")
    <2>1. v.tag = "pre" /\ IsVersion(v) /\ v.num = <<a, b>> /\ v.num[1] = a
        BY <1>3, TwoNumbers, Zenon
    <2>2. QED BY <1>1, <2>1, Zenon DEF IsPair
<1>4. CASE v = Ver(<<a, b>>, "build")
    <2>1. v.tag = "build" /\ IsVersion(v) /\ v.num = <<a, b>> /\ v.num[1] = a
        BY <1>4, TwoNumbers, Zenon
    <2>2. QED BY <1>1, <2>1, Zenon DEF IsPair
<1>5. QED BY <1>2, <1>3, <1>4, Zenon

\* They are pairs, with the number of their series first.
LEMMA Forge ==
    /\ Projects[3].series = <<Two, Three>>
    /\ AllOf(Projects[3]) = Two \cup Three /\ IsFiniteSet(AllOf(Projects[3]))
    /\ \A v \in Two : IsPair(v) /\ v.tag \in {"", "pre", "build"} /\ v.num[1] = 2
    /\ \A v \in Three : IsPair(v) /\ v.tag \in {"", "pre", "build"} /\ v.num[1] = 3
<1>1. Projects[3].series = <<Two, Three>>
    BY DEF Projects, Two, Three
<1>2. AllOf(Projects[3]) = Two \cup Three
    BY <1>1 DEF AllOf, ToSet
<1>3. IsFiniteSet(Two \cup Three)
    <2>1. ASSUME NEW a, NEW b, NEW c, NEW d, NEW e, NEW f PROVE IsFiniteSet({a, b, c, d, e} \cup {f})
        <3>1. PICK S : S = {a, b, c, d, e} \cup {f}
            OBVIOUS
        <3>2. S \in SUBSET {a, b, c, d, e, f}
            BY <3>1
        <3>3. IsFiniteSet(S)
            BY <3>2, FewAreFinite, Zenon
        <3>4. QED BY <3>1, <3>3
    <2>2. QED BY <2>1, Zenon DEF Two, Three
<1>4. ASSUME NEW a \in Nat, NEW b \in Nat
      PROVE  \A v \in {Ver(<<a, b>>, ""), Ver(<<a, b>>, "pre"), Ver(<<a, b>>, "build")} :
                 IsPair(v) /\ v.tag \in {"", "pre", "build"} /\ v.num[1] = a
    BY ForgeReleases
<1>5. \A v \in Two : IsPair(v) /\ v.tag \in {"", "pre", "build"} /\ v.num[1] = 2
    <2>1. 2 \in Nat /\ 12 \in Nat /\ 13 \in Nat /\ 14 \in Nat
        OBVIOUS
    <2>2. \A v \in Two : \E n \in Nat :
              v \in {Ver(<<2, n>>, ""), Ver(<<2, n>>, "pre"), Ver(<<2, n>>, "build")}
        BY <2>1, Zenon DEF Two
    <2>3. 2 \in Nat
        OBVIOUS
    <2>4. \A n \in Nat : \A v \in {Ver(<<2, n>>, ""), Ver(<<2, n>>, "pre"), Ver(<<2, n>>, "build")} :
              IsPair(v) /\ v.tag \in {"", "pre", "build"} /\ v.num[1] = 2
        BY <1>4, <2>3, Zenon
    <2>5. QED BY <2>2, <2>4, Zenon
<1>6. \A v \in Three : IsPair(v) /\ v.tag \in {"", "pre", "build"} /\ v.num[1] = 3
    <2>1. 3 \in Nat /\ 0 \in Nat
        OBVIOUS
    <2>2. \A v \in Three : \E n \in Nat :
              v \in {Ver(<<3, n>>, ""), Ver(<<3, n>>, "pre"), Ver(<<3, n>>, "build")}
        BY <2>1, Zenon DEF Three
    <2>3. QED BY <1>4, <2>1, <2>2, Zenon
<1>7. QED BY <1>1, <1>2, <1>3, <1>5, <1>6

\* The calls about the third project.
LEMMA ForgeCallStays ==
    ASSUME NEW b, Written(b), ~b.module, OfProject(b, Projects[3])
    PROVE  StaysInSeries(b, Plan(b).latest)
<1>1. PICK all : all = AllOf(Projects[3]) /\ all = Two \cup Three
    BY Forge, Zenon
<1>2. IsFiniteSet(all) /\ \A v \in all : IsPair(v) /\ v.tag \in {"", "pre", "build"}
    BY <1>1, Forge, Zenon
<1>3. /\ b.listing.released \subseteq all /\ b.listing.tagged \subseteq all /\ b.entry.version \in all
      /\ b.series = <<Two, Three>>
    BY <1>1, Forge, Zenon DEF OfProject
<1>4. b.cycle = <<>>
    BY DEF OfProject, Projects
<1>5. PICK latest, current : latest = Plan(b).latest /\ current = b.entry.version
    OBVIOUS
<1>6. latest \in all /\ latest.tag = "" /\ Above(Rank(latest), Rank(current)) /\ latest.num[1] = current.num[1]
    BY <1>2, <1>3, <1>5, ForgeStays, Zenon
<1>7. \A v \in Two : v.num[1] = 2
    BY Forge, Zenon
<1>8. \A v \in Three : v.num[1] = 3
    BY Forge, Zenon
<1>9. DOMAIN b.series = 1..2 /\ b.series[1] = Two /\ b.series[2] = Three
    BY <1>3
<1>10. /\ \E i \in DOMAIN b.series : latest \in b.series[i]
       /\ \E i \in DOMAIN b.series : current \in b.series[i]
    <2>1. latest \in all /\ current \in all
        BY <1>3, <1>5, <1>6, Zenon
    <2>2. 1 \in DOMAIN b.series /\ 2 \in DOMAIN b.series
        BY <1>9
    <2>3. QED BY <1>1, <1>9, <2>1, <2>2, Zenon
<1>11. \A i, j \in DOMAIN b.series : latest \in b.series[i] /\ current \in b.series[j] => i = j
    <2>1. latest.num[1] = current.num[1]
        BY <1>6, Zenon
    <2>2. QED BY <1>7, <1>8, <1>9, <2>1
<1>12. SeriesOf(b, latest) = SeriesOf(b, current)
    BY <1>10, <1>11, SameSeries, Zenon
<1>13. QED BY <1>4, <1>5, <1>6, <1>12, Zenon DEF StaysInSeries

\* The calls about the first project, GNOME's since 40.
LEMMA GnomeNewStays ==
    ASSUME NEW b, Written(b), b.entry.primary # "forge", b.entry.feed \in {"none", "anitya", "gnome"},
           OfProject(b, Projects[1])
    PROVE  StaysInSeries(b, Plan(b).latest)
<1>1. PICK all : all = AllOf(Projects[1]) /\ all = Fiftyone \cup Fiftytwo
    BY GnomeNew, Zenon
<1>2. IsFiniteSet(all) /\ \A v \in all : IsVersion(v) /\ v.tag \in {"", "pre"}
    BY <1>1, GnomeNew, Zenon
<1>3. b.listing.released \subseteq all /\ b.entry.version \in all /\ b.series = <<Fiftyone, Fiftytwo>>
    BY <1>1, GnomeNew, Zenon DEF OfProject
<1>4. b.cycle \in {<<>>, <<51>>, <<52>>}
    BY DEF OfProject, Projects
<1>5. PICK latest, current : latest = Plan(b).latest /\ current = b.entry.version
    OBVIOUS
<1>6. \A v \in Fiftyone : v.num[1] = 51 /\ ReleaseCycle(v) = <<51>>
    BY GnomeNew, Zenon
<1>7. \A v \in Fiftytwo : v.num[1] = 52 /\ ReleaseCycle(v) = <<52>>
    BY GnomeNew, Zenon
<1>8. CASE b.cycle = <<>>
    <2>1. /\ latest \in all /\ latest.tag = "" /\ Above(Rank(latest), Rank(current))
          /\ ReleaseCycle(latest) = ReleaseCycle(current)
        BY <1>2, <1>3, <1>5, <1>8, GnomeStays, Zenon
    <2>2. DOMAIN b.series = 1..2 /\ b.series[1] = Fiftyone /\ b.series[2] = Fiftytwo
        BY <1>3
    <2>3. /\ \E i \in DOMAIN b.series : latest \in b.series[i]
          /\ \E i \in DOMAIN b.series : current \in b.series[i]
        <3>1. latest \in all /\ current \in all
            BY <1>3, <1>5, <2>1, Zenon
        <3>2. 1 \in DOMAIN b.series /\ 2 \in DOMAIN b.series
            BY <2>2
        <3>3. QED BY <1>1, <2>2, <3>1, <3>2, Zenon
    <2>4. \A i, j \in DOMAIN b.series : latest \in b.series[i] /\ current \in b.series[j] => i = j
        <3>1. ReleaseCycle(latest) = ReleaseCycle(current)
            BY <2>1, Zenon
        <3>2. <<51>> # <<52>>
            OBVIOUS
        <3>3. QED BY <1>6, <1>7, <2>2, <3>1, <3>2
    <2>5. SeriesOf(b, latest) = SeriesOf(b, current)
        BY <2>3, <2>4, SameSeries, Zenon
    <2>6. QED BY <1>5, <1>8, <2>1, <2>5, Zenon DEF StaysInSeries
<1>9. CASE b.cycle \in {<<51>>, <<52>>}
    <2>1. b.cycle # <<>> /\ DOMAIN b.cycle = {1} /\ (b.cycle[1] = 51 \/ b.cycle[1] = 52)
        BY <1>9
    <2>2. /\ latest \in all /\ latest.tag = "" /\ ReleaseCycle(latest) = b.cycle
          /\ \/ Above(Rank(latest), Rank(current))
             \/ /\ IsPrerelease(current) /\ ReleaseCycle(current) # b.cycle
                /\ ~(latest.num[1] > current.num[1])
        BY <1>2, <1>3, <1>5, <2>1, GnomeMoves, Zenon
    <2>3. \A v \in all : v.num[1] = ReleaseCycle(v)[1]
        <3>1. \A v \in Fiftyone : v.num[1] = ReleaseCycle(v)[1]
            BY <1>6
        <3>2. \A v \in Fiftytwo : v.num[1] = ReleaseCycle(v)[1]
            BY <1>7
        <3>3. QED BY <1>1, <3>1, <3>2
    <2>4. latest.num[1] = b.cycle[1]
        BY <2>2, <2>3, Zenon
    <2>5. \A i \in DOMAIN b.cycle : latest.num[i] = b.cycle[i]
        BY <2>1, <2>4
    <2>6. Above(Rank(latest), Rank(current)) \/ NamesEarlierCycle(b)
        <3>1. SUFFICES ASSUME IsPrerelease(current), ReleaseCycle(current) # b.cycle,
                              ~(latest.num[1] > current.num[1])
                       PROVE  NamesEarlierCycle(b)
            BY <2>2
        <3>2. current \in all /\ IsVersion(current) /\ current.tag = "pre"
            BY <1>2, <1>3, <1>5, <3>1, Zenon DEF IsPrerelease
        <3>3. ReleaseCycle(current) = current.num
            BY <3>2, CycleIs, Zenon
        <3>4. current.num = <<51>> \/ current.num = <<52>>
            BY <1>1, <1>6, <1>7, <3>2, <3>3, Zenon
        <3>5. current.num = <<52>> /\ b.cycle = <<51>>
            BY <1>9, <2>4, <3>1, <3>3, <3>4
        <3>6. Above(<<52>>, <<51>>)
            BY DEF Above
        <3>7. QED BY <1>5, <2>1, <3>1, <3>5, <3>6, Zenon DEF NamesEarlierCycle
    <2>7. QED BY <1>5, <2>1, <2>2, <2>5, <2>6, Zenon DEF StaysInSeries
<1>10. QED BY <1>4, <1>8, <1>9

\* And about the second, GNOME's before.
LEMMA GnomeOldStays ==
    ASSUME NEW b, Written(b), b.entry.primary # "forge", b.entry.feed \in {"none", "anitya", "gnome"},
           OfProject(b, Projects[2])
    PROVE  StaysInSeries(b, Plan(b).latest)
<1>1. PICK all : all = AllOf(Projects[2]) /\ all = Fiftyeight \cup Ninety \cup Sixty
    BY GnomeOld, Zenon
<1>2. IsFiniteSet(all) /\ \A v \in all : IsVersion(v) /\ v.tag \in {"", "pre"}
    BY <1>1, GnomeOld, Zenon
<1>3. b.listing.released \subseteq all /\ b.entry.version \in all /\ b.series = <<Fiftyeight, Ninety, Sixty>>
    BY <1>1, GnomeOld, Zenon DEF OfProject
<1>4. b.cycle \in {<<>>, <<52>>, <<1, 60>>}
    BY DEF OfProject, Projects
<1>5. PICK latest, current : latest = Plan(b).latest /\ current = b.entry.version
    OBVIOUS
<1>6. /\ \A v \in Fiftyeight : ReleaseCycle(v) = <<1, 58>>
      /\ \A v \in Ninety : ReleaseCycle(v) = <<1, 89>> \/ ReleaseCycle(v) = <<1, 90>>
      /\ \A v \in Sixty : ReleaseCycle(v) = <<1, 60>>
    <2>1. \A v \in Ninety : \E n \in {89, 90} : ReleaseCycle(v) = <<1, n>>
        BY GnomeOld, Zenon
    <2>2. \A v \in Ninety : ReleaseCycle(v) = <<1, 89>> \/ ReleaseCycle(v) = <<1, 90>>
        BY <2>1
    <2>3. \A v \in Fiftyeight : ReleaseCycle(v) = <<1, 58>>
        BY GnomeOld, Zenon
    <2>4. \A v \in Sixty : ReleaseCycle(v) = <<1, 60>>
        BY GnomeOld, Zenon
    <2>5. QED BY <2>2, <2>3, <2>4
<1>7. CASE b.cycle = <<>>
    <2>1. /\ latest \in all /\ latest.tag = "" /\ Above(Rank(latest), Rank(current))
          /\ ReleaseCycle(latest) = ReleaseCycle(current)
        BY <1>2, <1>3, <1>5, <1>7, GnomeStays, Zenon
    <2>2. DOMAIN b.series = 1..3 /\ b.series[1] = Fiftyeight /\ b.series[2] = Ninety /\ b.series[3] = Sixty
        BY <1>3
    <2>3. /\ \E i \in DOMAIN b.series : latest \in b.series[i]
          /\ \E i \in DOMAIN b.series : current \in b.series[i]
        <3>1. latest \in all /\ current \in all
            BY <1>3, <1>5, <2>1, Zenon
        <3>2. 1 \in DOMAIN b.series /\ 2 \in DOMAIN b.series /\ 3 \in DOMAIN b.series
            BY <2>2
        <3>3. QED BY <1>1, <2>2, <3>1, <3>2, Zenon
    <2>4. \A i, j \in DOMAIN b.series : latest \in b.series[i] /\ current \in b.series[j] => i = j
        <3>1. ReleaseCycle(latest) = ReleaseCycle(current)
            BY <2>1, Zenon
        <3>2. /\ <<1, 58>> # <<1, 89>> /\ <<1, 58>> # <<1, 90>> /\ <<1, 58>> # <<1, 60>>
              /\ <<1, 60>> # <<1, 89>> /\ <<1, 60>> # <<1, 90>>
            OBVIOUS
        <3>3. QED BY <1>6, <2>2, <3>1, <3>2
    <2>5. SeriesOf(b, latest) = SeriesOf(b, current)
        BY <2>3, <2>4, SameSeries, Zenon
    <2>6. QED BY <1>5, <1>7, <2>1, <2>5, Zenon DEF StaysInSeries
<1>8. CASE b.cycle \in {<<52>>, <<1, 60>>}
    <2>1. b.cycle # <<>>
        BY <1>8
    <2>2. /\ latest \in all /\ latest.tag = "" /\ ReleaseCycle(latest) = b.cycle
          /\ \/ Above(Rank(latest), Rank(current))
             \/ IsPrerelease(current) /\ ReleaseCycle(current) # b.cycle
        BY <1>2, <1>3, <1>5, <2>1, GnomeMoves, Zenon
    <2>3. b.cycle = <<1, 60>>
        <3>1. /\ <<1, 58>> # <<52>> /\ <<1, 89>> # <<52>> /\ <<1, 90>> # <<52>> /\ <<1, 60>> # <<52>>
            OBVIOUS
        <3>2. ReleaseCycle(latest) # <<52>>
            BY <1>1, <1>6, <2>2, <3>1
        <3>3. QED BY <1>8, <2>2, <3>2
    <2>4. Above(Rank(latest), Rank(current))
        <3>1. SUFFICES ASSUME IsPrerelease(current) PROVE ReleaseCycle(current) = b.cycle
            BY <2>2
        <3>2. \A v \in Fiftyeight \cup Ninety : v.tag = ""
            BY GnomeOld, Zenon
        <3>3. "" # "pre" /\ current \in all
            BY <1>3, <1>5, Zenon
        <3>4. current \in Sixty
            BY <1>1, <3>1, <3>2, <3>3, Zenon DEF IsPrerelease
        <3>5. QED BY <1>6, <2>3, <3>4, Zenon
    <2>5. \A i \in DOMAIN b.cycle : latest.num[i] = b.cycle[i]
        <3>1. \A j \in 1..Len(ReleaseCycle(latest)) : ReleaseCycle(latest)[j] = latest.num[j]
            BY <1>2, <2>2, CycleIs, Zenon
        <3>2. DOMAIN <<1, 60>> = 1..Len(<<1, 60>>)
            OBVIOUS
        <3>3. QED BY <2>2, <2>3, <3>1, <3>2, Zenon
    <2>6. QED BY <1>5, <2>1, <2>2, <2>4, <2>5, Zenon DEF StaysInSeries
<1>9. QED BY <1>4, <1>7, <1>8

\* The series of the fourth project, a forge's with markers of both kinds.
Four == {Ver(<<4, 24, 1>>, ""), Ver(<<4, 25, 0>>, "glued"), Ver(<<4, 25, 0>>, "")}

Five == {Ver(<<5, 0, 0>>, "glued"), Ver(<<5, 0, 0>>, "")}

\* Three numbers, a release or a prerelease that is taken for one.
OrGlued(a, b, c) ==
    \A v \in {Ver(<<a, b, c>>, ""), Ver(<<a, b, c>>, "glued")} :
        IsTriple(v) /\ v.tag \in {"", "glued"} /\ v.num[1] = a

LEMMA GluedReleases ==
    ASSUME NEW a \in Nat, NEW b \in Nat, NEW c \in Nat
    PROVE  OrGlued(a, b, c)
<1> USE DEF OrGlued
<1> TAKE v \in {Ver(<<a, b, c>>, ""), Ver(<<a, b, c>>, "glued")}
<1>1. Len(<<a, b, c>>) = 3
    OBVIOUS
<1>2. <<a, b, c>> \in Seq(Nat) /\ Len(<<a, b, c>>) >= 1 /\ <<a, b, c>>[1] = a
    BY NumbersAre, Zenon
<1>3. "" \in {"", "pre", "glued", "build"} /\ "glued" \in {"", "pre", "glued", "build"}
    OBVIOUS
<1>4. CASE v = Ver(<<a, b, c>>, "")
    <2>1. v.tag = "" /\ v.num = <<a, b, c>> /\ IsVersion(v)
        BY <1>2, <1>3, <1>4, VersionIs, ZenonT(40)
    <2>2. QED BY <1>1, <1>2, <2>1, Zenon DEF IsTriple
<1>5. CASE v = Ver(<<a, b, c>>, "glued")
    <2>1. v.tag = "glued" /\ v.num = <<a, b, c>> /\ IsVersion(v)
        BY <1>2, <1>3, <1>5, VersionIs, ZenonT(40)
    <2>2. QED BY <1>1, <1>2, <2>1, Zenon DEF IsTriple
<1>6. QED BY <1>4, <1>5, Zenon

\* They are triples, with the number of their series first.
LEMMA ForgeGlued ==
    /\ Projects[4].series = <<Four, Five>>
    /\ AllOf(Projects[4]) = Four \cup Five /\ IsFiniteSet(AllOf(Projects[4]))
    /\ \A v \in Four : IsTriple(v) /\ v.tag \in {"", "glued"} /\ v.num[1] = 4
    /\ \A v \in Five : IsTriple(v) /\ v.tag \in {"", "glued"} /\ v.num[1] = 5
<1>1. Projects[4].series = <<Four, Five>>
    BY DEF Projects, Four, Five
<1>2. AllOf(Projects[4]) = Four \cup Five
    BY <1>1 DEF AllOf, ToSet
<1>3. IsFiniteSet(Four \cup Five)
    <2>1. ASSUME NEW a, NEW b, NEW c, NEW d, NEW e PROVE IsFiniteSet({a, b, c} \cup {d, e})
        <3>1. PICK S : S = {a, b, c} \cup {d, e}
            OBVIOUS
        <3>2. S \in SUBSET {a, b, c, d, e, e}
            BY <3>1
        <3>3. IsFiniteSet(S)
            BY <3>2, FewAreFinite, Zenon
        <3>4. QED BY <3>1, <3>3
    <2>2. QED BY <2>1, Zenon DEF Four, Five
<1>4. \A n, m \in Nat : OrGlued(4, n, m) /\ OrGlued(5, n, m)
    BY GluedReleases
<1>5. 4 \in Nat /\ 24 \in Nat /\ 1 \in Nat /\ 25 \in Nat /\ 0 \in Nat /\ 5 \in Nat
    OBVIOUS
<1>6. \A v \in Four : IsTriple(v) /\ v.tag \in {"", "glued"} /\ v.num[1] = 4
    <2>1. \A v \in Four : \E n \in Nat, m \in Nat :
              v \in {Ver(<<4, n, m>>, ""), Ver(<<4, n, m>>, "glued")}
        BY <1>5, Zenon DEF Four
    <2>2. \A n \in Nat, m \in Nat : \A v \in {Ver(<<4, n, m>>, ""), Ver(<<4, n, m>>, "glued")} :
              IsTriple(v) /\ v.tag \in {"", "glued"} /\ v.num[1] = 4
        BY <1>4, Zenon DEF OrGlued
    <2>3. QED BY <2>1, <2>2, Zenon
<1>7. \A v \in Five : IsTriple(v) /\ v.tag \in {"", "glued"} /\ v.num[1] = 5
    <2>1. \A v \in Five : \E n \in Nat, m \in Nat :
              v \in {Ver(<<5, n, m>>, ""), Ver(<<5, n, m>>, "glued")}
        BY <1>5, Zenon DEF Five
    <2>2. \A n \in Nat, m \in Nat : \A v \in {Ver(<<5, n, m>>, ""), Ver(<<5, n, m>>, "glued")} :
              IsTriple(v) /\ v.tag \in {"", "glued"} /\ v.num[1] = 5
        BY <1>4, Zenon DEF OrGlued
    <2>3. QED BY <2>1, <2>2, Zenon
<1>8. QED BY <1>1, <1>2, <1>3, <1>6, <1>7

\* The calls about the fourth project.
LEMMA GluedCallStays ==
    ASSUME NEW b, Written(b), ~b.module, OfProject(b, Projects[4])
    PROVE  StaysInSeries(b, Plan(b).latest)
<1>1. PICK all : all = AllOf(Projects[4]) /\ all = Four \cup Five
    BY ForgeGlued, Zenon
<1>2. IsFiniteSet(all) /\ \A v \in all : IsTriple(v) /\ v.tag \in {"", "glued"}
    BY <1>1, ForgeGlued, Zenon
<1>3. /\ b.listing.released \subseteq all /\ b.listing.tagged \subseteq all /\ b.entry.version \in all
      /\ b.series = <<Four, Five>>
    BY <1>1, ForgeGlued, Zenon DEF OfProject
<1>4. b.cycle = <<>>
    BY DEF OfProject, Projects
<1>5. PICK latest, current : latest = Plan(b).latest /\ current = b.entry.version
    OBVIOUS
<1>6. /\ latest \in all /\ latest.tag \in {"", "glued"} /\ Above(Rank(latest), Rank(current))
      /\ latest.num[1] = current.num[1]
    BY <1>2, <1>3, <1>5, GluedStays, Zenon
<1>7. \A v \in Four : v.num[1] = 4
    BY ForgeGlued, Zenon
<1>8. \A v \in Five : v.num[1] = 5
    BY ForgeGlued, Zenon
<1>9. DOMAIN b.series = 1..2 /\ b.series[1] = Four /\ b.series[2] = Five
    BY <1>3
<1>10. /\ \E i \in DOMAIN b.series : latest \in b.series[i]
       /\ \E i \in DOMAIN b.series : current \in b.series[i]
    <2>1. latest \in all /\ current \in all
        BY <1>3, <1>5, <1>6, Zenon
    <2>2. 1 \in DOMAIN b.series /\ 2 \in DOMAIN b.series
        BY <1>9
    <2>3. QED BY <1>1, <1>9, <2>1, <2>2, Zenon
<1>11. \A i, j \in DOMAIN b.series : latest \in b.series[i] /\ current \in b.series[j] => i = j
    <2>1. latest.num[1] = current.num[1]
        BY <1>6, Zenon
    <2>2. QED BY <1>7, <1>8, <1>9, <2>1
<1>12. SeriesOf(b, latest) = SeriesOf(b, current)
    BY <1>10, <1>11, SameSeries, Zenon
<1>13. QED BY <1>4, <1>5, <1>6, <1>12, Zenon DEF StaysInSeries

\* So it is for whatever call is made about a lock.
LEMMA PlanStays ==
    ASSUME NEW b \in (UNION {PlanCallsOf(p) : p \in ToSet(Projects)}) \cup PlanCallsOfLists, Written(b)
    PROVE  /\ StaysInSeries(b, Plan(b).latest)
           /\ ~b.only => Plan(b).kind # "relock" /\ b.entry.primary \in {"gnome", "forge"}
<1>1. ~b.only => Plan(b).kind # "relock" /\ b.entry.primary \in {"gnome", "forge"}
    BY WrittenIs, Zenon
<1>2. ASSUME b \in PlanCallsOfLists PROVE StaysInSeries(b, Plan(b).latest)
    BY <1>2, ListCallShape, ForgeCallStays, Zenon
<1>3. ASSUME b \in PlanCallsOf(Projects[1]) PROVE StaysInSeries(b, Plan(b).latest)
    <2>1. Projects[1].primaries = {"gnome", "lookaside"}
        BY DEF Projects
    <2>2. /\ OfProject(b, Projects[1]) /\ b.entry.primary \in {"gnome", "lookaside"}
          /\ b.entry.feed \in {"none", "anitya", "gnome"}
        BY <1>3, <2>1, PlanCallShape, Zenon
    <2>3. b.entry.primary # "forge"
        BY <2>2
    <2>4. QED BY <2>2, <2>3, GnomeNewStays, Zenon
<1>4. ASSUME b \in PlanCallsOf(Projects[2]) PROVE StaysInSeries(b, Plan(b).latest)
    <2>1. Projects[2].primaries = {"gnome", "lookaside"}
        BY DEF Projects
    <2>2. /\ OfProject(b, Projects[2]) /\ b.entry.primary \in {"gnome", "lookaside"}
          /\ b.entry.feed \in {"none", "anitya", "gnome"}
        BY <1>4, <2>1, PlanCallShape, Zenon
    <2>3. b.entry.primary # "forge"
        BY <2>2
    <2>4. QED BY <2>2, <2>3, GnomeOldStays, Zenon
<1>5. ASSUME b \in PlanCallsOf(Projects[3]) PROVE StaysInSeries(b, Plan(b).latest)
    <2>1. "gnome" \notin Projects[3].primaries
        BY DEF Projects
    <2>2. OfProject(b, Projects[3]) /\ ~b.module
        BY <1>5, <2>1, PlanCallShape, Zenon
    <2>3. QED BY <2>2, ForgeCallStays, Zenon
<1>6. ToSet(Projects) = {Projects[1], Projects[2], Projects[3], Projects[4]}
    <2>1. ASSUME NEW x, NEW y, NEW z, NEW u PROVE DOMAIN <<x, y, z, u>> = 1..4
        OBVIOUS
    <2>2. DOMAIN Projects = 1..4
        BY <2>1, Zenon DEF Projects
    <2>3. QED BY <2>2 DEF ToSet
<1>7. b \in PlanCallsOfLists
          \/ \E p \in {Projects[1], Projects[2], Projects[3], Projects[4]} : b \in PlanCallsOf(p)
    BY <1>6, Zenon
<1>8. ASSUME b \in PlanCallsOf(Projects[4]) PROVE StaysInSeries(b, Plan(b).latest)
    <2>1. "gnome" \notin Projects[4].primaries
        BY DEF Projects
    <2>2. OfProject(b, Projects[4]) /\ ~b.module
        BY <1>8, <2>1, PlanCallShape, Zenon
    <2>3. QED BY <2>2, GluedCallStays, Zenon
<1>9. QED BY <1>1, <1>2, <1>3, <1>4, <1>5, <1>7, <1>8, Zenon

-----------------------------------------------------------------------------
(* Upstream: the macros of a spec, over any number of definitions.          *)

\* What one more step along the pairs of R reaches.
After(R, names) == names \cup {y \in {e[2] : e \in R} : \E x \in names : <<x, y>> \in R}

\* near holds what up to k steps reach, for every k up to the last.
Spreads(R, names, near, last) ==
    near = [k \in 0..last |-> IF k = 0 THEN names ELSE After(R, near[k - 1])]

\* k steps along R from x to y, some of which may stand still.
Walk(R, k, x, y) ==
    \E p : /\ p = [i \in 0..k |-> p[i]]
           /\ p[0] = x /\ p[k] = y
           /\ \A i \in 1..k : p[i] = p[i - 1] \/ <<p[i - 1], p[i]>> \in R

Backwards(R) == {<<e[2], e[1]>> : e \in R}

\* One step more is a walk that is one longer.
LEMMA WalkOn ==
    ASSUME NEW R, NEW k \in Nat, NEW x, NEW y
    PROVE  Walk(R, k + 1, x, y) <=>
               \E z : Walk(R, k, x, z) /\ (y = z \/ <<z, y>> \in R)
<1>1. ASSUME Walk(R, k + 1, x, y)
      PROVE  \E z : Walk(R, k, x, z) /\ (y = z \/ <<z, y>> \in R)
    <2>1. PICK p : /\ p = [i \in 0..(k + 1) |-> p[i]]
                   /\ p[0] = x /\ p[k + 1] = y
                   /\ \A i \in 1..(k + 1) : p[i] = p[i - 1] \/ <<p[i - 1], p[i]>> \in R
        BY <1>1 DEF Walk
    <2> DEFINE q == [i \in 0..k |-> p[i]]
    <2>2. /\ q = [i \in 0..k |-> q[i]]
          /\ q[0] = x /\ q[k] = p[k]
          /\ \A i \in 1..k : q[i] = q[i - 1] \/ <<q[i - 1], q[i]>> \in R
        <3>1. \A i \in 1..k : i \in 1..(k + 1) /\ i \in 0..k /\ i - 1 \in 0..k
            OBVIOUS
        <3>2. \A i \in 0..k : q[i] = p[i]
            OBVIOUS
        <3>3. 0 \in 0..k /\ k \in 0..k /\ q = [i \in 0..k |-> q[i]]
            OBVIOUS
        <3> HIDE DEF q
        <3>4. QED BY <2>1, <3>1, <3>2, <3>3
    <2> HIDE DEF q
    <2>3. Walk(R, k, x, p[k])
        BY <2>2 DEF Walk
    <2>4. k + 1 \in 1..(k + 1) /\ (k + 1) - 1 = k
        OBVIOUS
    <2>5. y = p[k] \/ <<p[k], y>> \in R
        BY <2>1, <2>4
    <2>6. QED BY <2>3, <2>5
<1>2. ASSUME NEW z, Walk(R, k, x, z), y = z \/ <<z, y>> \in R
      PROVE  Walk(R, k + 1, x, y)
    <2>1. PICK p : /\ p = [i \in 0..k |-> p[i]]
                   /\ p[0] = x /\ p[k] = z
                   /\ \A i \in 1..k : p[i] = p[i - 1] \/ <<p[i - 1], p[i]>> \in R
        BY <1>2 DEF Walk
    <2> DEFINE q == [i \in 0..(k + 1) |-> IF i = k + 1 THEN y ELSE p[i]]
    <2>2. /\ q = [i \in 0..(k + 1) |-> q[i]]
          /\ q[k + 1] = y /\ \A i \in 0..k : q[i] = p[i]
        OBVIOUS
    <2> HIDE DEF q
    <2>3. ASSUME NEW i \in 1..(k + 1)
          PROVE  q[i] = q[i - 1] \/ <<q[i - 1], q[i]>> \in R
        <3>1. CASE i = k + 1
            <4>1. i - 1 = k /\ k \in 0..k
                BY <3>1
            <4>2. q[i] = y /\ q[i - 1] = z
                BY <2>1, <2>2, <3>1, <4>1
            <4>3. QED BY <1>2, <4>2
        <3>2. CASE i # k + 1
            <4>1. i \in 1..k /\ i \in 0..k /\ i - 1 \in 0..k
                BY <3>2
            <4>2. QED BY <2>1, <2>2, <4>1
        <3>3. QED BY <3>1, <3>2
    <2>4. q[0] = x
        <3>1. 0 \in 0..k
            OBVIOUS
        <3>2. q[0] = p[0]
            BY <2>2, <3>1
        <3>3. QED BY <2>1, <3>2
    <2>5. QED BY <2>2, <2>3, <2>4 DEF Walk
<1>3. QED BY <1>1, <1>2

\* A walk can be walked back.
LEMMA WalkBack ==
    ASSUME NEW R, NEW k \in Nat, NEW x, NEW y, Walk(R, k, x, y)
    PROVE  Walk(Backwards(R), k, y, x)
<1>1. PICK p : /\ p = [i \in 0..k |-> p[i]]
               /\ p[0] = x /\ p[k] = y
               /\ \A i \in 1..k : p[i] = p[i - 1] \/ <<p[i - 1], p[i]>> \in R
    BY DEF Walk
<1> DEFINE q == [i \in 0..k |-> p[k - i]]
<1>2. /\ q = [i \in 0..k |-> q[i]]
      /\ \A i \in 0..k : q[i] = p[k - i]
    OBVIOUS
<1>3. q[0] = y /\ q[k] = x
    BY <1>1
<1> HIDE DEF q
<1>4. ASSUME NEW i \in 1..k
      PROVE  q[i] = q[i - 1] \/ <<q[i - 1], q[i]>> \in Backwards(R)
    <2>1. PICK j : j = k - i + 1
        OBVIOUS
    <2>2. j \in 1..k /\ j - 1 = k - i /\ j = k - (i - 1)
        BY <2>1
    <2>3. i \in 0..k /\ i - 1 \in 0..k
        OBVIOUS
    <2>4. q[i] = p[j - 1] /\ q[i - 1] = p[j]
        BY <1>2, <2>2, <2>3
    <2>5. p[j] = p[j - 1] \/ <<p[j - 1], p[j]>> \in R
        BY <1>1, <2>2
    <2>6. CASE <<p[j - 1], p[j]>> \in R
        <3>1. PICK e : e = <<p[j - 1], p[j]>>
            OBVIOUS
        <3>2. <<e[2], e[1]>> \in Backwards(R)
            BY <2>6, <3>1, Zenon DEF Backwards
        <3>3. e[2] = p[j] /\ e[1] = p[j - 1]
            BY <3>1
        <3>4. <<q[i - 1], q[i]>> \in Backwards(R)
            BY <2>4, <3>2, <3>3
        <3>5. QED BY <3>4
    <2>7. QED BY <2>4, <2>5, <2>6
<1>5. QED BY <1>2, <1>3, <1>4 DEF Walk

\* There is such a spread.
LEMMA SpreadExists ==
    ASSUME NEW R, NEW names, NEW last \in Nat
    PROVE  \E near : Spreads(R, names, near, last)
<1> DEFINE S == {n \in Nat : \E near : Spreads(R, names, near, n)}
<1>1. 0 \in S
    <2>1. Spreads(R, names, [k \in 0..0 |-> names], 0)
        BY DEF Spreads
    <2>2. QED BY <2>1
<1>2. ASSUME NEW n \in Nat, n \in S
      PROVE  n + 1 \in S
    <2>1. PICK near : Spreads(R, names, near, n)
        BY <1>2
    <2> DEFINE more == [k \in 0..(n + 1) |-> IF k = n + 1 THEN After(R, near[n]) ELSE near[k]]
    <2>2. ASSUME NEW k \in 0..(n + 1)
          PROVE  more[k] = IF k = 0 THEN names ELSE After(R, more[k - 1])
        <3>1. CASE k = n + 1
            BY <3>1
        <3>2. CASE k # n + 1
            <4>1. k \in 0..n
                BY <3>2
            <4>2. near[k] = IF k = 0 THEN names ELSE After(R, near[k - 1])
                BY <2>1, <4>1 DEF Spreads
            <4>3. more[k] = near[k] /\ (k # 0 => more[k - 1] = near[k - 1])
                BY <4>1
            <4>4. QED BY <4>2, <4>3
        <3>3. QED BY <3>1, <3>2
    <2>3. more = [k \in 0..(n + 1) |-> more[k]]
        OBVIOUS
    <2> HIDE DEF more
    <2>4. Spreads(R, names, more, n + 1)
        BY <2>2, <2>3 DEF Spreads
    <2>5. QED BY <2>4
<1>3. Nat \subseteq S
    <2> HIDE DEF S
    <2>1. QED BY <1>1, <1>2, SetInduction
<1>4. QED BY <1>3

\* A spread holds what a walk reaches.
LEMMA SpreadWalks ==
    ASSUME NEW R, \A e \in R : e = <<e[1], e[2]>>, NEW names, NEW near, NEW last \in Nat,
           Spreads(R, names, near, last)
    PROVE  \A y : y \in near[last] <=> \E x \in names : Walk(R, last, x, y)
<1> DEFINE S == {n \in Nat : n <= last => \A y : y \in near[n] <=> \E x \in names : Walk(R, n, x, y)}
<1>1. 0 \in S
    <2>1. near[0] = names
        BY DEF Spreads
    <2>2. ASSUME NEW x, NEW y PROVE Walk(R, 0, x, y) <=> x = y
        <3>1. ASSUME x = y PROVE Walk(R, 0, x, y)
            <4>1. PICK p : p = [i \in 0..0 |-> x]
                OBVIOUS
            <4>2. p = [i \in 0..0 |-> p[i]] /\ p[0] = x
                BY <4>1
            <4>3. QED BY <3>1, <4>2 DEF Walk
        <3>2. QED BY <3>1 DEF Walk
    <2>3. QED BY <2>1, <2>2
<1>2. ASSUME NEW n \in Nat, n \in S
      PROVE  n + 1 \in S
    <2>1. CASE n + 1 <= last
        <3>1. \A y : y \in near[n] <=> \E x \in names : Walk(R, n, x, y)
            BY <1>2, <2>1
        <3>2. near[n + 1] = After(R, near[n])
            <4>1. n + 1 \in 0..last /\ n + 1 # 0 /\ (n + 1) - 1 = n
                BY <2>1
            <4>2. QED BY <4>1 DEF Spreads
        <3>3. ASSUME NEW y
              PROVE  y \in near[n + 1] <=> \E x \in names : Walk(R, n + 1, x, y)
            <4>1. y \in near[n + 1] <=> \E z \in near[n] : y = z \/ <<z, y>> \in R
                <5>1. ASSUME NEW z, <<z, y>> \in R PROVE y \in {e[2] : e \in R}
                    <6>1. PICK e \in R : e = <<z, y>>
                        BY <5>1
                    <6>2. e[2] = y
                        BY <6>1
                    <6>3. QED BY <6>1, <6>2
                <5>2. QED BY <3>2, <5>1 DEF After
            <4>2. \A x : Walk(R, n + 1, x, y) <=> \E z : Walk(R, n, x, z) /\ (y = z \/ <<z, y>> \in R)
                BY WalkOn
            <4>3. QED BY <3>1, <4>1, <4>2
        <3>4. QED BY <3>3
    <2>2. CASE ~(n + 1 <= last)
        BY <2>2
    <2>3. QED BY <2>1, <2>2
<1>3. Nat \subseteq S
    <2> HIDE DEF S
    <2>1. QED BY <1>1, <1>2, SetInduction
<1>4. QED BY <1>3

\* The names a definition refers to, as pairs.
Refers(macros) == UNION {{<<n, m>> : m \in macros[n]} : n \in DOMAIN macros}

\* So are the pairs, and the same ones backwards.
LEMMA RefersTo ==
    ASSUME NEW macros
    PROVE  /\ \A n, m : <<n, m>> \in Refers(macros) <=> n \in DOMAIN macros /\ m \in macros[n]
           /\ \A e \in Refers(macros) : e = <<e[1], e[2]>>
           /\ \A n, m : <<m, n>> \in Backwards(Refers(macros)) <=> <<n, m>> \in Refers(macros)
           /\ \A e \in Backwards(Refers(macros)) : e = <<e[1], e[2]>>
           /\ Backwards(Backwards(Refers(macros))) = Refers(macros)
<1>1. \A n, m : <<n, m>> \in Refers(macros) <=> n \in DOMAIN macros /\ m \in macros[n]
    BY DEF Refers
<1>2. \A e \in Refers(macros) : e = <<e[1], e[2]>>
    BY DEF Refers
<1> HIDE DEF Refers
<1>3. \A n, m : <<m, n>> \in Backwards(Refers(macros)) <=> <<n, m>> \in Refers(macros)
    BY <1>2 DEF Backwards
<1>4. \A e \in Backwards(Refers(macros)) : e = <<e[1], e[2]>>
    BY <1>2 DEF Backwards
<1>5. Backwards(Backwards(Refers(macros))) = Refers(macros)
    <2> DEFINE R == Refers(macros)
    <2>1. ASSUME NEW e \in R PROVE e \in Backwards(Backwards(R))
        <3>1. PICK n, m : e = <<n, m>>
            BY <1>2, <2>1
        <3>2. PICK d : d = <<m, n>>
            OBVIOUS
        <3>3. d \in Backwards(R)
            BY <1>3, <2>1, <3>1, <3>2
        <3>4. e = <<d[2], d[1]>>
            BY <3>1, <3>2
        <3>5. QED BY <3>3, <3>4, Zenon DEF Backwards
    <2>2. ASSUME NEW e \in Backwards(Backwards(R)) PROVE e \in R
        <3>1. PICK d \in Backwards(R) : e = <<d[2], d[1]>>
            BY <2>2, Zenon DEF Backwards
        <3>2. PICK n, m : d = <<m, n>>
            BY <1>4, <3>1
        <3>3. <<n, m>> \in R
            BY <1>3, <3>1, <3>2
        <3>4. e = <<n, m>>
            BY <3>1, <3>2
        <3>5. QED BY <3>3, <3>4
    <2> HIDE DEF R
    <2>3. QED BY <2>1, <2>2 DEF R
<1>6. QED BY <1>1, <1>2, <1>3, <1>4, <1>5

\* Below is a spread along these pairs.
LEMMA BelowSpreads ==
    ASSUME NEW macros, NEW names, Cardinality(DOMAIN macros) \in Nat
    PROVE  \E near : /\ Spreads(Refers(macros), names, near, Cardinality(DOMAIN macros))
                     /\ Below(macros, names) = near[Cardinality(DOMAIN macros)]
<1> DEFINE last == Cardinality(DOMAIN macros)
           IsNear(near) == near = [k \in 0..last |->
                IF k = 0 THEN names
                ELSE near[k - 1] \cup UNION {macros[n] : n \in near[k - 1] \cap DOMAIN macros}]
<1>1. ASSUME NEW X
      PROVE  After(Refers(macros), X) = X \cup UNION {macros[n] : n \in X \cap DOMAIN macros}
    <2>1. \A y : (\E x \in X : <<x, y>> \in Refers(macros)) <=>
                 y \in UNION {macros[n] : n \in X \cap DOMAIN macros}
        <3>1. \A y : y \in UNION {macros[n] : n \in X \cap DOMAIN macros}
                     <=> \E n \in X \cap DOMAIN macros : y \in macros[n]
            OBVIOUS
        <3>2. \A x, y : <<x, y>> \in Refers(macros) <=> x \in DOMAIN macros /\ y \in macros[x]
            BY RefersTo, Zenon
        <3>3. QED BY <3>1, <3>2, Zenon
    <2>2. ASSUME NEW x, NEW y, <<x, y>> \in Refers(macros)
          PROVE  y \in {e[2] : e \in Refers(macros)}
        <3>1. PICK e \in Refers(macros) : e = <<x, y>>
            BY <2>2
        <3>2. QED BY <3>1
    <2>3. QED BY <2>1, <2>2 DEF After
<1>2. ASSUME NEW near PROVE IsNear(near) <=> Spreads(Refers(macros), names, near, last)
    BY <1>1 DEF Spreads
<1>3. Below(macros, names) = (CHOOSE near : IsNear(near))[last]
    BY DEF Below
<1>4. \E near : IsNear(near)
    <2>1. PICK near : Spreads(Refers(macros), names, near, last)
        BY SpreadExists
    <2> HIDE DEF IsNear
    <2>2. QED BY <1>2, <2>1
<1>5. IsNear(CHOOSE near : IsNear(near))
    <2> HIDE DEF IsNear
    <2>1. QED BY <1>4
<1> HIDE DEF IsNear, last
<1>6. QED BY <1>2, <1>3, <1>5 DEF last

\* AboveIn goes back along them.
LEMMA AboveSpreads ==
    ASSUME NEW macros, NEW names, Cardinality(DOMAIN macros) \in Nat
    PROVE  \E near : /\ Spreads(Backwards(Refers(macros)), names, near, Cardinality(DOMAIN macros))
                     /\ AboveIn(macros, names) = near[Cardinality(DOMAIN macros)]
<1> DEFINE last == Cardinality(DOMAIN macros)
           IsNear(near) == near = [k \in 0..last |->
                IF k = 0 THEN names
                ELSE near[k - 1] \cup {n \in DOMAIN macros : macros[n] \cap near[k - 1] # {}}]
<1>1. ASSUME NEW X
      PROVE  After(Backwards(Refers(macros)), X) = X \cup {n \in DOMAIN macros : macros[n] \cap X # {}}
    <2>1. \A y : (\E x \in X : <<x, y>> \in Backwards(Refers(macros))) <=>
                 y \in {n \in DOMAIN macros : macros[n] \cap X # {}}
        BY RefersTo
    <2>2. ASSUME NEW x, NEW y, <<x, y>> \in Backwards(Refers(macros))
          PROVE  y \in {e[2] : e \in Backwards(Refers(macros))}
        <3>1. PICK e \in Backwards(Refers(macros)) : e = <<x, y>>
            BY <2>2
        <3>2. QED BY <3>1
    <2>3. QED BY <2>1, <2>2 DEF After
<1>2. ASSUME NEW near PROVE IsNear(near) <=> Spreads(Backwards(Refers(macros)), names, near, last)
    BY <1>1 DEF Spreads
<1>3. AboveIn(macros, names) = (CHOOSE near : IsNear(near))[last]
    BY DEF AboveIn
<1>4. \E near : IsNear(near)
    <2>1. PICK near : Spreads(Backwards(Refers(macros)), names, near, last)
        BY SpreadExists
    <2> HIDE DEF IsNear
    <2>2. QED BY <1>2, <2>1
<1>5. IsNear(CHOOSE near : IsNear(near))
    <2> HIDE DEF IsNear
    <2>1. QED BY <1>4
<1> HIDE DEF IsNear, last
<1>6. QED BY <1>2, <1>3, <1>5 DEF last

\* A name is below those that walk to it.
LEMMA BelowWalks ==
    ASSUME NEW macros, NEW names, Cardinality(DOMAIN macros) \in Nat
    PROVE  \A m : m \in Below(macros, names) <=>
                     \E n \in names : Walk(Refers(macros), Cardinality(DOMAIN macros), n, m)
<1>1. PICK near : /\ Spreads(Refers(macros), names, near, Cardinality(DOMAIN macros))
                  /\ Below(macros, names) = near[Cardinality(DOMAIN macros)]
    BY BelowSpreads
<1>2. \A e \in Refers(macros) : e = <<e[1], e[2]>>
    BY RefersTo
<1>3. QED BY <1>1, <1>2, SpreadWalks

\* A name is above those it walks to.
LEMMA AboveWalks ==
    ASSUME NEW macros, NEW names, Cardinality(DOMAIN macros) \in Nat
    PROVE  \A n : n \in AboveIn(macros, names) <=>
                     \E m \in names : Walk(Refers(macros), Cardinality(DOMAIN macros), n, m)
<1>1. \A n : n \in AboveIn(macros, names) <=>
                \E m \in names : Walk(Backwards(Refers(macros)), Cardinality(DOMAIN macros), m, n)
    BY AboveSpreads, SpreadWalks, RefersTo
<1>2. \A n, m : Walk(Backwards(Refers(macros)), Cardinality(DOMAIN macros), m, n)
                    <=> Walk(Refers(macros), Cardinality(DOMAIN macros), n, m)
    BY WalkBack, RefersTo
<1>3. QED BY <1>1, <1>2

\* Of any spec: what is refused is what some macro reaches that the version
\* reaches too.
LEMMA StaleIsReached ==
    ASSUME NEW spec, Cardinality(DOMAIN spec.macros) \in Nat
    PROVE  MacroSources(spec) =
               {s \in spec.sources :
                   \E n \in s : \E v \in spec.version, m \in Below(spec.macros, {n}) :
                       m \in Below(spec.macros, {v})}
<1> DEFINE macros == spec.macros
           last == Cardinality(DOMAIN macros)
<1>1. ASSUME NEW n
      PROVE  n \in Bound(spec) <=>
                 \E v \in spec.version, m \in Below(macros, {n}) : m \in Below(macros, {v})
    <2>1. n \in Bound(spec) <=> \E m \in Below(macros, spec.version) : Walk(Refers(macros), last, n, m)
        BY AboveWalks DEF Bound
    <2>2. \A m : m \in Below(macros, spec.version) <=> \E v \in spec.version : Walk(Refers(macros), last, v, m)
        BY BelowWalks
    <2>3. \A v, m : m \in Below(macros, {v}) <=> Walk(Refers(macros), last, v, m)
        BY BelowWalks
    <2> HIDE DEF macros, last
    <2>4. QED BY <2>1, <2>2, <2>3
<1>2. \A s : s \cap Bound(spec) # {} <=> \E n \in s : n \in Bound(spec)
    OBVIOUS
<1> HIDE DEF macros
<1>3. QED BY <1>1, <1>2 DEF MacroSources, macros

\* What a macro reaches is a name as long as the definitions name nothing else.
LEMMA BelowNames ==
    ASSUME NEW macros, Cardinality(DOMAIN macros) \in Nat,
           NEW names, \A n \in DOMAIN macros : macros[n] \subseteq names, NEW x \in names
    PROVE  Below(macros, {x}) \subseteq names
<1> DEFINE R == Refers(macros)
           S == {k \in Nat : \A y : Walk(R, k, x, y) => y \in names}
<1>1. 0 \in S
    BY Zenon DEF Walk
<1>2. ASSUME NEW k \in Nat, k \in S PROVE k + 1 \in S
    <2>1. ASSUME NEW y, Walk(R, k + 1, x, y) PROVE y \in names
        <3>1. PICK z : Walk(R, k, x, z) /\ (y = z \/ <<z, y>> \in R)
            BY <1>2, <2>1, WalkOn
        <3>2. <<z, y>> \in R => z \in DOMAIN macros /\ y \in macros[z]
            BY RefersTo, Zenon
        <3>3. QED BY <1>2, <3>1, <3>2, Zenon
    <2>2. QED BY <2>1
<1>3. Nat \subseteq S
    <2> HIDE DEF S
    <2>1. QED BY <1>1, <1>2, SetInduction
<1>4. \A y : y \in Below(macros, {x}) => Walk(R, Cardinality(DOMAIN macros), x, y)
    BY BelowWalks
<1>5. QED BY <1>3, <1>4

\* So what is refused of a spec of these names is reached through one of them.
LEMMA StaleIsNamed ==
    ASSUME NEW spec \in MacroCalls
    PROVE  MacroSources(spec) =
               {s \in spec.sources :
                   \E n \in s : \E v \in spec.version, m \in MacroNames :
                       m \in Below(spec.macros, {n}) /\ m \in Below(spec.macros, {v})}
<1>1. /\ spec.macros \in UNION {[D -> {{}, {"a"}, {"b"}, {"a", "c"}}] : D \in SUBSET MacroNames}
      /\ spec.sources \in {{{n} : n \in MacroNames}}
    BY DEF MacroCalls
<1>2. PICK D \in SUBSET MacroNames : spec.macros \in [D -> {{}, {"a"}, {"b"}, {"a", "c"}}]
    BY <1>1
<1>3. DOMAIN spec.macros \subseteq MacroNames /\ \A n \in DOMAIN spec.macros : spec.macros[n] \subseteq MacroNames
    BY <1>2 DEF MacroNames
<1>4. Cardinality(DOMAIN spec.macros) \in Nat
    <2>1. DOMAIN spec.macros \in SUBSET {"a", "b", "c", "c", "c", "c"}
        BY <1>3 DEF MacroNames
    <2>2. IsFiniteSet(DOMAIN spec.macros)
        BY <2>1, FewAreFinite, Zenon
    <2>3. QED BY <2>2, FS_CardinalityType, Zenon
<1>5. \A s \in spec.sources : s \subseteq MacroNames
    BY <1>1
<1>6. \A n \in MacroNames : Below(spec.macros, {n}) \subseteq MacroNames
    BY <1>3, <1>4, BelowNames, Zenon
<1>7. MacroSources(spec) =
          {s \in spec.sources :
              \E n \in s : \E v \in spec.version, m \in Below(spec.macros, {n}) :
                  m \in Below(spec.macros, {v})}
    BY <1>4, StaleIsReached, Zenon
<1>8. QED BY <1>5, <1>6, <1>7

-----------------------------------------------------------------------------
(* Upstream: a bump that is written.                                        *)

\* What a run writes by itself is no human's to decide, and can be built, with
\* every listing and every definition of a macro (upstream_bump.py: plan, main).
THEOREM WrittenBumpsCorrect == Spec => []BumpNeedsNoHuman
<1>1. Init => BumpNeedsNoHuman
    BY DEF Init, BumpNeedsNoHuman, WrittenStaysInSeries, PrimaryMovesByHandOnly, StaleSourcesRefused, Answered
<1>2. CallIsMade /\ BumpNeedsNoHuman /\ [Next]_toolVars => BumpNeedsNoHuman'
    <2> SUFFICES ASSUME CallIsMade, BumpNeedsNoHuman, [Next]_toolVars PROVE BumpNeedsNoHuman'
        OBVIOUS
    <2>1. CASE answer' = answer
        <3>1. call' = call
            BY OneAnswer
        <3>2. QED
            BY <2>1, <3>1, Zenon
               DEF BumpNeedsNoHuman, WrittenStaysInSeries, PrimaryMovesByHandOnly, StaleSourcesRefused, Answered
    <2>2. CASE answer' # answer /\ call.tool = "plan"
        <3>1. PICK b : b = call.in
            OBVIOUS
        <3>2. call' = call /\ answer'.is = [proposal |-> Plan(b), written |-> Written(b)]
            BY <2>2, <3>1, OneAnswer, Zenon
        <3>3. b \in (UNION {PlanCallsOf(p) : p \in ToSet(Projects)}) \cup PlanCallsOfLists
            <4>1. call \in UpstreamCalls
                BY <2>2, CallTools DEF CallIsMade
            <4>2. call \in Calls("plan", (UNION {PlanCallsOf(p) : p \in ToSet(Projects)}) \cup PlanCallsOfLists)
                      \/ call \in Calls("macros", MacroCalls)
                BY <4>1, Zenon DEF UpstreamCalls
            <4>3. call \notin Calls("macros", MacroCalls)
                BY <2>2, CallTool
            <4>4. QED BY <3>1, <4>2, <4>3, CallTool, Zenon
        <3>4. PICK plan, written : plan = Plan(b) /\ (written <=> Written(b))
            OBVIOUS
        <3>5. answer'.is.proposal = plan /\ (answer'.is.written <=> written)
            BY <3>2, <3>4
        <3>6. written => /\ StaysInSeries(b, plan.latest)
                         /\ ~b.only => plan.kind # "relock" /\ b.entry.primary \in {"gnome", "forge"}
            BY <3>3, <3>4, PlanStays, Zenon
        <3>7. call'.in = b /\ call'.tool = "plan"
            BY <2>2, <3>1, <3>2
        <3>8. WrittenStaysInSeries'
            BY <3>5, <3>6, <3>7, Zenon DEF WrittenStaysInSeries, StaysInSeries
        <3>9. PrimaryMovesByHandOnly'
            BY <3>5, <3>6, <3>7, Zenon DEF PrimaryMovesByHandOnly
        <3>10. StaleSourcesRefused'
            BY <3>7 DEF StaleSourcesRefused, Answered
        <3>11. QED BY <3>8, <3>9, <3>10, Zenon DEF BumpNeedsNoHuman
    <2>3. CASE answer' # answer /\ call.tool = "macros"
        <3>1. PICK spec : spec = call.in
            OBVIOUS
        <3>2. call' = call /\ answer'.is = MacroSources(spec)
            BY <2>3, <3>1, OneAnswer, Zenon
        <3>3. spec \in MacroCalls
            <4>1. call \in UpstreamCalls
                BY <2>3, CallTools DEF CallIsMade
            <4>2. call \in Calls("plan", (UNION {PlanCallsOf(p) : p \in ToSet(Projects)}) \cup PlanCallsOfLists)
                      \/ call \in Calls("macros", MacroCalls)
                BY <4>1, Zenon DEF UpstreamCalls
            <4>3. call \notin Calls("plan", (UNION {PlanCallsOf(p) : p \in ToSet(Projects)}) \cup PlanCallsOfLists)
                BY <2>3, CallTool
            <4>4. QED BY <3>1, <4>2, <4>3, CallTool, Zenon
        <3>4. call'.in = spec /\ call'.tool = "macros"
            BY <2>3, <3>1, <3>2
        <3>5. StaleSourcesRefused'
            BY <3>2, <3>3, <3>4, StaleIsNamed, Zenon DEF StaleSourcesRefused
        <3>6. WrittenStaysInSeries' /\ PrimaryMovesByHandOnly'
            BY <3>4, Zenon DEF WrittenStaysInSeries, PrimaryMovesByHandOnly, Answered
        <3>7. QED BY <3>5, <3>6, Zenon DEF BumpNeedsNoHuman
    <2>4. CASE call.tool \notin {"plan", "macros"}
        <3>1. call'.tool # "plan" /\ call'.tool # "macros"
            BY <2>4, OneAnswer
        <3>2. QED
            BY <3>1, Zenon
               DEF BumpNeedsNoHuman, WrittenStaysInSeries, PrimaryMovesByHandOnly, StaleSourcesRefused, Answered
    <2>5. QED BY <2>1, <2>2, <2>3, <2>4
<1>3. QED BY <1>1, <1>2, CallsStay, PTL DEF Spec
=============================================================================
