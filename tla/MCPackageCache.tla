--------------------------- MODULE MCPackageCache ---------------------------
(* PackageCache over a library, its consumer, and a consumer of that. *)
EXTENDS PackageCache

MCRequires ==
    [p \in Packages |-> CASE p = "app" -> {"lib"} [] p = "ext" -> {"app"} [] OTHER -> {}]

\* Whenever its files are edited the soname of the library moves; no other does.
MCSoname == [p \in Packages |-> [v \in 1..MaxFiles[p] |-> IF p = "lib" THEN v ELSE 1]]

MCEdits == [p \in Packages |-> IF p = "ext" THEN 1 ELSE 2]
MCEntries == [p \in Packages |-> IF p = "app" THEN 2 ELSE 1]
MCOnce == [p \in Packages |-> 1]
=============================================================================
