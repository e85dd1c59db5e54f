------------------------------ MODULE MCTools ------------------------------
(* One call of each program under tools/, over small inputs. *)
EXTENDS Canary, Upstream, SourcePipeline, Buildroot, Rawhide, Imports, Tracking

MCInherited == (2 :> [defined |-> 1, masked |-> 0])

Init ==
    /\ \/ call \in CanaryCalls
       \/ call \in UpstreamCalls
       \/ call \in SourceCalls
       \/ call \in BuildrootCalls
       \/ call \in RawhideCalls
       \/ call \in ImportsCalls
       \/ call \in TrackingProgramCalls
    /\ answer = [done |-> FALSE]

Next ==
    \/ CanaryNext
    \/ UpstreamNext
    \/ SourcePipelineNext
    \/ BuildrootNext
    \/ RawhideNext
    \/ ImportsNext
    \/ TrackingNext

Spec == Init /\ [][Next]_toolVars
=============================================================================
