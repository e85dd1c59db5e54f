----------------------------- MODULE Buildroot -----------------------------
(***************************************************************************)
(* tools/buildroot_pin.py, tools/buildroot_lock.py and what                *)
(* tools/validate.py demands of the two files they keep: the pin prepare   *)
(* pulls, and the lock that names the same root for the provenance         *)
(* manifest.                                                               *)
(*                                                                         *)
(* A reference is [repo, digest]; the digest is "none" for a bare tag.     *)
(***************************************************************************)
EXTENDS Tool, Naturals, FiniteSets, Sequences

Mirror(digest) == [repo |-> "mirror", digest |-> digest]

IsMirrorPin(value) == value.repo = "mirror" /\ value.digest # "none"

\* parse: the pin file holds one value, of the mirror or of the legacy form.
Parses(pin) ==
    /\ Len(pin) = 1
    /\ IsMirrorPin(pin[1]) \/ (pin[1].repo = "legacy" /\ pin[1].digest # "none")

\* A lock file is "absent", "garbage", or a lock: [schema, roots], where a root
\* is [dict, image, listed, nevras]: an object, its image, whether its packages
\* are a list, and whether each of them carries a NEVRA.
IsLock(lock) == lock.is = "lock"

Pinned(root) == root.dict /\ root.image.digest # "none"

\* load_lock
Loads(lock) ==
    IsLock(lock) /\ lock.schema /\ \A r \in DOMAIN lock.roots : Pinned(lock.roots[r]) /\ lock.roots[r].listed

\* validate_buildroots and check_buildroot_drift
ValidRoot(tree) ==
    /\ Loads(tree.lock) /\ DOMAIN tree.lock.roots # {}
    /\ Parses(tree.pin)
    /\ \A r \in DOMAIN tree.lock.roots :
           tree.lock.roots[r].nevras /\ tree.lock.roots[r].image = tree.pin[1]

Relocked(lock, value) ==
    IF IsLock(lock) THEN [lock EXCEPT !.roots = [r \in DOMAIN @ |-> [@[r] EXCEPT !.image = value]]]
    ELSE lock

\* Mutant: the pin is written before the lock is read.
SetPinFirst(tree, value) ==
    LET moved == [tree EXCEPT !.pin = <<value>>]
    IN  CASE ~IsMirrorPin(value) -> [exit |-> 1, trees |-> <<tree>>]
          [] IsMirrorPin(value) /\ tree.lock.is = "garbage" -> [exit |-> 1, trees |-> <<tree, moved>>]
          [] OTHER -> [exit |-> 0, trees |-> <<tree, moved, [moved EXCEPT !.lock = Relocked(tree.lock, value)]>>]

\* set_pin: the trees it passes through, and the exit when it is not stopped.
SetPin(tree, value) ==
    LET readable == \/ tree.lock.is = "absent"
                    \/ IsLock(tree.lock) /\ \A r \in DOMAIN tree.lock.roots : tree.lock.roots[r].dict
        moved == [tree EXCEPT !.pin = <<value>>]
    IN  IF ~IsMirrorPin(value) \/ ~readable THEN [exit |-> 1, trees |-> <<tree>>]
        ELSE [exit |-> 0, trees |-> IF IsLock(tree.lock)
                                    THEN <<tree, moved, [moved EXCEPT !.lock = Relocked(tree.lock, value)]>>
                                    ELSE <<tree, moved>>]

\* set, ended after any of its writes.
AnswerSet ==
    /\ Waiting("set")
    /\ LET result == SetPin(call.in.tree, call.in.value)
       IN  \E n \in DOMAIN result.trees :
               Answer([exit |-> IF n = Len(result.trees) THEN result.exit ELSE 1, tree |-> result.trees[n],
                       cut |-> n < Len(result.trees)])

----------------------------------------------------------------------------
(* buildroot_lock.py snapshot *)

\* parse_packages: a line of fewer than three fields is dropped and counted; a
\* line cut in its last field names a package there is not.
Listed(lines) ==
    {[name |-> p, whole |-> lines[p] = "whole"] : p \in {q \in DOMAIN lines : lines[q] \in {"whole", "short"}}}

Discarded(lines) == {p \in DOMAIN lines : lines[p] = "cut"}

\* Mutant: without a resolved image the one of the lock is recorded.
ImageOrLocked(in) == IF in.resolved = "none" THEN in.locked ELSE Mirror(in.resolved)

\* The image the run resolved, and nothing else.
ActualImage(in) ==
    IF in.resolved = "none" THEN [repo |-> "none", digest |-> "none"]
    ELSE [repo |-> in.locked.repo, digest |-> in.resolved]

\* compare, and the errors --strict makes of the warnings.
Diverges(in) ==
    in.malformed \/ Listed(in.lines) # {[name |-> p, whole |-> TRUE] : p \in in.expected}

CmdSnapshot(in) ==
    LET wrong == \/ ActualImage(in) # in.locked
                 \/ Discarded(in.lines) # {}
                 \/ (in.expected # {} \/ in.malformed) /\ Diverges(in)
    IN  [exit |-> IF in.strict /\ wrong THEN 1 ELSE 0,
         image |-> ActualImage(in), locked |-> in.locked, packages |-> Listed(in.lines)]

AnswerSnapshot == Waiting("snapshot") /\ Answer(CmdSnapshot(call.in))

BuildrootNext == AnswerSet \/ AnswerSnapshot

----------------------------------------------------------------------------
(* Calls *)

RootPackages == {"glibc", "bash"}

References == [repo : {"mirror", "legacy"}, digest : {"old", "new", "none"}]

Roots ==
    [dict : {TRUE}, image : References, listed : BOOLEAN, nevras : BOOLEAN]
        \cup [dict : {FALSE}, image : {Mirror("none")}, listed : {FALSE}, nevras : {FALSE}]

Locks ==
    [is : {"lock"}, schema : BOOLEAN, roots : [{"fedora"} -> Roots] \cup {<<>>}]
        \cup [is : {"lock"}, schema : {TRUE},
              roots : [{"fedora", "second"} -> {r \in Roots : r.dict /\ r.listed /\ r.nevras}]]

Pins == {<<r>> : r \in References} \cup {<<>>, <<Mirror("old"), Mirror("new")>>}

SetInputs ==
    [tree : [pin : Pins, lock : {[is |-> "absent"], [is |-> "garbage"]} \cup Locks], value : References]

SnapshotInputs ==
    [locked : {Mirror("old")}, resolved : {"none", "old", "new"},
     expected : SUBSET RootPackages, malformed : BOOLEAN, strict : BOOLEAN,
     lines : UNION {[s -> {"whole", "short", "cut", "lost"}] : s \in SUBSET RootPackages}]

BuildrootCalls == Calls("set", SetInputs) \cup Calls("snapshot", SnapshotInputs)

----------------------------------------------------------------------------
(* Properties *)

\* A refused move changes nothing; of a valid tree a complete one leaves a valid
\* tree whose every root is the new pin, and one that is stopped between its two
\* writes leaves a tree validate.py refuses, or the tree as it was.
RootMovesWhole ==
    Answered("set") =>
        LET before == call.in.tree
            after == answer.is.tree
        IN  /\ answer.is.exit # 0 => after = before \/ (answer.is.cut /\ (ValidRoot(before) => ~ValidRoot(after)))
            /\ answer.is.exit = 0 /\ ValidRoot(before) => ValidRoot(after) /\ after.pin = <<call.in.value>>

\* --strict passes a root only when the image the run resolved is the locked
\* one, whole; when packages are locked, each of them was read in the root, and
\* a package beyond them can only have lost its whole line.
StrictIsExact ==
    Answered("snapshot") /\ call.in.strict /\ answer.is.exit = 0 =>
        /\ call.in.resolved = call.in.locked.digest
        /\ call.in.expected # {} =>
               \A p \in RootPackages : p \in call.in.expected
                   <=> p \in DOMAIN call.in.lines /\ call.in.lines[p] # "lost"

\* The pin, the lock and the root a run resolved are one root, or it is noticed.
RootIsThePin == RootMovesWhole /\ StrictIsExact
=============================================================================
