------------------------------ MODULE Tracking ------------------------------
(***************************************************************************)
(* The report job of rebuild-rpms.yml, over the runs of some days: which   *)
(* packages it names as failed (publish_gate.py), and the issues it opens, *)
(* edits, comments on and closes.  A report is made of a run's artifacts   *)
(* and of the outputs of its publication; any call of GitHub may fail, and *)
(* ends the step.                                                          *)
(***************************************************************************)
EXTENDS Tool, Integers, Sequences

\* A run: what it selected, the packages of which it has an RPM artifact, those
\* precedence dropped, how its publication ended, who made it, and the call of
\* the tracking step that fails, if any.
Reports(run) == ~run.cancelled /\ run.list # {}

\* Neither a canary, which shares the ref of main, nor a branch, nor another tag.
Production(run) == run.by = "main"

FailuresFromArtifacts(run) == (run.list \ run.artifacts) \cup (run.losers \cap run.list)

----------------------------------------------------------------------------
(* The tracking issue: whether it is open, the failed list its body has as a *)
(* marker (none if the body was edited by hand), and the failed list its     *)
(* followers were last told of.                                              *)

\* A report ends with the failed list as a marker, and it is read back as it is.
Body(failed) == <<failed>>

NoIssue == [open |-> FALSE, marker |-> <<>>, told |-> <<>>]

Healthy(run) == FailuresFromArtifacts(run) = {} /\ run.publish # "failure"

Closed(issue, run) ==
    IF issue.open /\ run.breaks # "close" THEN NoIssue ELSE issue

Opened(issue, run) ==
    IF run.breaks = "create" THEN issue
    ELSE LET failed == FailuresFromArtifacts(run)
         IN  [open |-> TRUE, marker |-> Body(failed), told |-> <<failed>>]

\* The body is rewritten first, and the comment is for a failed list that is
\* not the one of the body before.
Edited(issue, run) ==
    LET failed == FailuresFromArtifacts(run)
    IN  IF run.breaks = "edit" THEN issue
        ELSE [issue EXCEPT !.marker = Body(failed),
                           !.told = IF issue.marker = Body(failed) \/ run.breaks = "comment" THEN @ ELSE <<failed>>]

\* Mutant: a run is a production run by its ref alone.
TrackedByRef(issue, run) ==
    IF ~Reports(run) \/ run.by = "branch" THEN issue
    ELSE IF Healthy(run) THEN Closed(issue, run)
    ELSE IF issue.open THEN Edited(issue, run) ELSE Opened(issue, run)

Tracked(issue, run) ==
    IF ~(Reports(run) /\ Production(run)) THEN issue
    ELSE IF Healthy(run) THEN Closed(issue, run)
    ELSE IF issue.open THEN Edited(issue, run) ELSE Opened(issue, run)

\* What people do to the issue between two runs.
Handled(issue, hand) ==
    CASE hand = "none" -> issue
      [] hand = "close" -> NoIssue
      [] hand = "edit" -> [issue EXCEPT !.marker = <<>>]

\* The issue after the reports of these runs.
IssueAfter(runs) ==
    LET issue[i \in 0..Len(runs)] ==
            IF i = 0 THEN NoIssue ELSE Tracked(Handled(issue[i - 1], runs[i].hand), runs[i])
    IN  issue[Len(runs)]

AnswerTracking == Waiting("tracking") /\ Answer(IssueAfter(call.in))

----------------------------------------------------------------------------
(* One issue for each package Utah cannot install. *)

\* Mutant: a run that did not check is one in which all resolve.
UtahTrackedUnchecked(open, run) ==
    IF ~(Reports(run) /\ Production(run)) THEN open
    ELSE CASE run.breaks = "none" -> IF run.checked THEN run.unresolved ELSE {}
           [] run.breaks = "open" -> open \cup (run.unresolved \cap run.reached)
           [] run.breaks = "close" -> (open \cup run.unresolved) \ (run.reached \ run.unresolved)

\* The packages whose issue is open after the step: of what does not resolve
\* all are opened or edited, then the others' are closed.  When a call fails,
\* some of that has been done.
UtahTracked(open, run) ==
    IF ~(Reports(run) /\ Production(run) /\ run.checked) THEN open
    ELSE CASE run.breaks = "none" -> run.unresolved
           [] run.breaks = "open" -> open \cup (run.unresolved \cap run.reached)
           [] run.breaks = "close" -> (open \cup run.unresolved) \ (run.reached \ run.unresolved)

UtahIssuesAfter(runs) ==
    LET open[i \in 0..Len(runs)] == IF i = 0 THEN {} ELSE UtahTracked(open[i - 1], runs[i])
    IN  open[Len(runs)]

AnswerUtah == Waiting("utah-issues") /\ Answer(UtahIssuesAfter(call.in))

TrackingNext == AnswerTracking \/ AnswerUtah

----------------------------------------------------------------------------
(* The calls: three runs of one day each. *)

RunOf(by, cancelled, list, artifacts, losers, publish, breaks, hand) ==
    [by |-> by, cancelled |-> cancelled, list |-> list, artifacts |-> artifacts,
     losers |-> losers, publish |-> publish, breaks |-> breaks, hand |-> hand]

\* Of two packages one is always selected; the publication succeeds or fails,
\* and names losers only when it ran.
ProductionRuns(breaks, hands) ==
    {RunOf("main", FALSE, {"a", "b"}, s, {}, publish, b, h) :
        s \in SUBSET {"a", "b"}, publish \in {"success", "failure"}, b \in breaks, h \in hands}
        \cup {RunOf("main", FALSE, {"b"}, {"b"}, losers, "success", b, h) :
                 losers \in SUBSET {"b"}, b \in breaks, h \in hands}

OtherRuns(hands) ==
    {RunOf(by, FALSE, {"a", "b"}, s, {}, "success", "none", h) :
        by \in {"canary", "branch"}, s \in {{}, {"a", "b"}}, h \in hands}
        \cup {RunOf("main", TRUE, {"a", "b"}, {}, {}, "skipped", "none", h) : h \in hands}
        \cup {RunOf("main", FALSE, {}, {}, {}, "success", "none", h) : h \in hands}

AnyRuns(hands) == ProductionRuns({"none"}, hands) \cup OtherRuns(hands)
BrokenRuns == ProductionRuns({"edit", "comment", "create", "close"}, {"none"})

\* The first report opens the issue, the second may fail on the way.
TrackingInputs ==
    {<<r, s, t>> : r \in AnyRuns({"none"}), s \in AnyRuns({"none"}) \cup BrokenRuns,
                   t \in AnyRuns({"none", "edit", "close"})}

UtahRun(by, checked, unresolved, breaks, reached) ==
    [by |-> by, cancelled |-> FALSE, list |-> {"a"}, checked |-> checked,
     unresolved |-> unresolved, breaks |-> breaks, reached |-> reached]

UtahRuns ==
    {UtahRun("main", TRUE, u, "none", {}) : u \in SUBSET {"u", "v"}}
        \cup {UtahRun("main", TRUE, u, b, r) : u \in SUBSET {"u", "v"}, b \in {"open", "close"}, r \in SUBSET {"u", "v"}}
        \cup {UtahRun("main", FALSE, {}, "none", {}), UtahRun("canary", TRUE, {"v"}, "none", {})}

UtahInputs == {<<r, s, t>> : r \in UtahRuns, s \in UtahRuns, t \in UtahRuns}

TrackingProgramCalls == Calls("tracking", TrackingInputs) \cup Calls("utah-issues", UtahInputs)

----------------------------------------------------------------------------
(* Properties *)

\* The last run of the list with a verdict on main: not a canary's, not one that
\* was cancelled or built nothing.
Verdicts(runs) == {i \in DOMAIN runs : runs[i].by = "main" /\ ~runs[i].cancelled /\ runs[i].list # {}}
LastVerdict(runs) == CHOOSE i \in Verdicts(runs) : \A j \in Verdicts(runs) : j <= i

\* Whatever failed of earlier reports and whatever people did to the issue, it
\* is open exactly if the last run with a verdict failed and has the packages
\* of that run, and its followers have been told of them: unless the comment
\* of an earlier report failed, after which nothing says so again.
TrackerIsCurrent ==
    Answered("tracking") /\ Verdicts(call.in) # {} =>
        LET i == LastVerdict(call.in)
            run == call.in[i]
            broken == {p \in run.list : p \notin run.artifacts \/ p \in run.losers}
            issue == answer.is
        IN  run.breaks = "none" /\ (\A j \in i + 1..Len(call.in) : call.in[j].hand = "none") =>
                /\ issue.open <=> broken # {} \/ run.publish = "failure"
                /\ issue.open => issue.marker = <<broken>>
                /\ issue.open /\ (\A j \in DOMAIN call.in : call.in[j].breaks # "comment") =>
                       issue.told = <<broken>>

\* After a report that went through, exactly the packages the last check could
\* not install have an open issue, whatever an earlier report left half done;
\* a run in which the check did not run leaves them as they are.
UtahIssuesAreCurrent ==
    Answered("utah-issues") =>
        LET checks == {i \in DOMAIN call.in : call.in[i].by = "main" /\ call.in[i].checked}
            last == CHOOSE i \in checks : \A j \in checks : j <= i
        IN  checks # {} /\ call.in[last].breaks = "none" => answer.is = call.in[last].unresolved

\* The issues are those of the last verdict, whatever earlier reports left.
IssuesAreCurrent == TrackerIsCurrent /\ UtahIssuesAreCurrent
=============================================================================
