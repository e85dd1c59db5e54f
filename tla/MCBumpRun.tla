----------------------------- MODULE MCBumpRun -----------------------------
(* Runs of the bump workflow over a few packages. *)
EXTENDS BumpRun

\* The library releases twice within its cycle and goes on to the next, the
\* application, once its primary has moved to GNOME, twice within its cycle.
MCComes == [p \in Packages |-> CASE p = "lib" -> {2, 3, 4} [] p = "app" -> {2, 3} [] OTHER -> {2}]
=============================================================================
