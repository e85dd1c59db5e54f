---------------------------- MODULE FactoryState ----------------------------
(***************************************************************************)
(* tools/factory_state.py: the state label the published image carries,    *)
(* the comparison that decides what has changed since the publication, and *)
(* the merge that produces the label of the next image.                    *)
(*                                                                         *)
(* An input digest is a version number: the n-th content of everything     *)
(* that decides what a recipe builds.  Version 0 is "no entry", so the     *)
(* partial maps of the label are total functions here.                     *)
(***************************************************************************)
EXTENDS Naturals

CONSTANTS
    Packages,      \* the recipes the factory has, or had
    MaxVersion     \* bound: how many contents one recipe goes through

ASSUME StateAssumption == MaxVersion \in Nat \ {0}

NoDigest == 0
Digests == 1..MaxVersion
DigestMap == [Packages -> 0..MaxVersion]
NoDigests == [p \in Packages |-> NoDigest]

Labels == [inputs : DigestMap, failed : DigestMap]
EmptyLabel == [inputs |-> NoDigests, failed |-> NoDigests]

\* The recipes a commit's inventory lists.
Inventory(digests) == {p \in Packages : digests[p] # NoDigest}

\* Mutant: only a recipe the label does not know has moved.
MovedIfUnknown(label, digests) ==
    {p \in Inventory(digests) : label.inputs[p] = NoDigest}

Moved(label, digests) ==
    {p \in Inventory(digests) : label.inputs[p] # digests[p]}

Failing(label, digests) ==
    {p \in Inventory(digests) : label.failed[p] # NoDigest}

\* Moved, but the last attempt at exactly these inputs failed.
KnownFailing(label, digests) ==
    {p \in Moved(label, digests) : label.failed[p] = digests[p]}

\* Mutant: the schedule holds what failed, as a push does.
ChangedNeverRetried(label, digests, retryFailed) ==
    Moved(label, digests) \ KnownFailing(label, digests)

Changed(label, digests, retryFailed) ==
    IF retryFailed
    THEN Moved(label, digests) \cup Failing(label, digests)
    ELSE Moved(label, digests) \ KnownFailing(label, digests)

Held(label, digests, retryFailed) ==
    IF retryFailed THEN {} ELSE KnownFailing(label, digests)

\* Mutant: the label records the commit, not what was built from it.
InputsOfTheCommit(seed, digests, trusted, replaced, pruned) ==
    [p \in Packages |-> IF p \in pruned THEN NoDigest ELSE digests[p]]

\* The label of the image a publication is about to push.
MergedInputs(seed, digests, trusted, replaced, pruned) ==
    [p \in Packages |->
        IF p \notin Inventory(digests) \/ p \in pruned THEN NoDigest
        ELSE IF p \in replaced THEN digests[p]
        ELSE IF p \in trusted /\ seed.inputs[p] = NoDigest THEN digests[p]
        ELSE seed.inputs[p]]

MergedFailed(seed, digests, replaced, failed, pruned) ==
    [p \in Packages |->
        IF p \notin Inventory(digests) \/ p \in pruned THEN NoDigest
        ELSE IF p \in failed THEN digests[p]
        ELSE IF p \in replaced THEN NoDigest
        ELSE seed.failed[p]]

Merge(seed, digests, trusted, replaced, failed, pruned) ==
    [inputs |-> MergedInputs(seed, digests, trusted, replaced, pruned),
     failed |-> MergedFailed(seed, digests, replaced, failed, pruned)]
=============================================================================
