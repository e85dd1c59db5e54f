--------------------------- MODULE SourcePipeline ---------------------------
(***************************************************************************)
(* tools/source_pipeline.py: one locked source, fetched with retries and   *)
(* from its mirrors, verified, put beside the recipe and verified again    *)
(* after Packit.                                                           *)
(*                                                                         *)
(* What a server answers is one of: the locked bytes ("locked"), other     *)
(* bytes, a truncated file included ("other"), nothing ("empty"), a page   *)
(* ("html"), no connection ("down"), or a connection that breaks in a way  *)
(* fetch does not retry ("broken").                                        *)
(***************************************************************************)
EXTENDS Tool, Naturals, Sequences, FiniteSetsExt, SequencesExt

CONSTANT Attempts    \* FETCH_ATTEMPTS

ASSUME AttemptsAssumption == Attempts \in Nat \ {0}

Answers == {"locked", "other", "empty", "html", "down", "broken"}

Bytes == {"locked", "other"}

\* fetch: answers that carry nothing are asked for again.
Fetch(server) ==
    LET kept == {i \in 1..Attempts : server[i] \notin {"empty", "down"}}
    IN  IF kept = {} THEN "failed" ELSE server[Min(kept)]

\* Mutant: a file with the wrong digest sends it to the next mirror.
FetchAnyGood(servers) ==
    LET answered == {i \in DOMAIN servers : Fetch(servers[i]) \notin {"failed", "html", "other"}}
    IN  IF answered = {} THEN [from |-> 0, got |-> "failed"]
        ELSE [from |-> Min(answered), got |-> Fetch(servers[Min(answered)])]

\* fetch_with_fallbacks: the first server that does not fail to serve; what it
\* serves is final.
FetchWithFallbacks(servers) ==
    LET answered == {i \in DOMAIN servers : Fetch(servers[i]) \notin {"failed", "html"}}
    IN  IF answered = {} THEN [from |-> 0, got |-> "failed"]
        ELSE [from |-> Min(answered), got |-> Fetch(servers[Min(answered)])]

\* The primary payload, downloaded or rebuilt by its generation script.
Candidate(source) ==
    IF source.kind = "generated" THEN [from |-> 1, got |-> source.generated]
    ELSE FetchWithFallbacks(source.servers)

\* A key without a signature, or the reverse, is refused.
SignatureHolds(source) == source.signature \in {"none", "valid"}

ChecksumHolds(source) == source.checksum \in {"none", "listed"}

\* bundled_sources: a function from the files the manifest pins by SHA-512 to
\* what the lookaside serves for each.
BundledHolds(source) == \A f \in DOMAIN source.bundled : Fetch(source.bundled[f]) = "locked"

\* Mutant: the download replaces the accepted file before it is verified.
CandidateKept(source) == Candidate(source).got \in Bytes

\* The candidate takes the place of the accepted file.
CandidateAccepted(source) ==
    Candidate(source).got = "locked" /\ SignatureHolds(source) /\ ChecksumHolds(source)

\* main, for one package; an entry of no valid shape ends the program.
Pipeline(source) ==
    CASE ~source.wellFormed -> [report |-> "none", file |-> source.before, from |-> 0, exit |-> 1]
      [] source.wellFormed /\ source.kind = "none" ->
             [report |-> "accepted", file |-> source.before, from |-> 0, exit |-> 0]
      [] OTHER ->
             LET kept == CandidateAccepted(source)
                 accepted == kept /\ BundledHolds(source)
             IN  [report |-> IF accepted THEN "accepted" ELSE "rejected",
                  file |-> IF kept THEN Candidate(source).got ELSE source.before,
                  from |-> Candidate(source).from,
                  exit |-> IF accepted THEN 0 ELSE 1]

AnswerPipeline == Waiting("source") /\ Answer(Pipeline(call.in))

\* stage_for_packit copies what was accepted; what Packit leaves of each file
\* is "same", "changed" or "gone".
StagedHolds(staged) ==
    staged.kind = "none" \/ \A f \in DOMAIN staged.files : staged.files[f] = "same"

AnswerStaged == Waiting("staged") /\ Answer(StagedHolds(call.in))

SourcePipelineNext == AnswerPipeline \/ AnswerStaged

----------------------------------------------------------------------------
(* Calls *)

Servers == [1..Attempts -> Answers]

SourceCalls ==
    LET plain == [kind : {"upstream"}, wellFormed : {TRUE}, generated : {"none"}, before : {"none", "locked"},
                  servers : {<<s>> : s \in Servers} \cup (Servers \X Servers),
                  signature : {"none"}, checksum : {"none"}, bundled : {<<>>}]
        checks == [kind : {"upstream", "generated", "none"}, wellFormed : BOOLEAN,
                   generated : {"locked", "other", "none"}, before : {"none", "locked"},
                   servers : {<<[i \in 1..Attempts |-> a]>> : a \in Bytes},
                   signature : {"none", "half", "valid", "invalid"},
                   checksum : {"none", "listed", "absent"},
                   bundled : {<<>>} \cup {<<s>> : s \in [1..Attempts -> {"locked", "other", "down"}]}]
    IN  Calls("source", plain \cup checks)
        \cup Calls("staged", [kind : {"upstream", "none"},
                              files : UNION {[1..n -> {"same", "changed", "gone"}] : n \in 0..3}])

----------------------------------------------------------------------------
(* Properties *)

\* Whatever the servers answer on whichever attempt, what stands as the source
\* is the locked file or what stood before, and it is accepted only with every
\* bundled file as the manifest pins it.
SourceIsLocked ==
    Answered("source") =>
        /\ answer.is.file \in {call.in.before, "locked"}
        /\ answer.is.report = "accepted" /\ call.in.kind # "none" =>
               /\ answer.is.file = "locked"
               /\ \A f \in DOMAIN call.in.bundled : Fetch(call.in.bundled[f]) = "locked"

\* A mirror stands in for a server that serves nothing, never for one that
\* serves the wrong file: that is a finding, and the run fails.
MirrorsAreForAvailability ==
    Answered("source") /\ answer.is.report = "accepted" /\ answer.is.from > 1 =>
        \A i \in 1..answer.is.from - 1, n \in 1..Attempts :
            call.in.servers[i][n] = "other" => \E k \in 1..n - 1 : call.in.servers[i][k] = "html"

\* Retries and mirrors change which server is asked and never what is accepted.
SourceStandsAsLocked == SourceIsLocked /\ MirrorsAreForAvailability
=============================================================================
