----------------------------- MODULE Validation -----------------------------
(***************************************************************************)
(* What tools/validate.py, tools/package_inventory.py,                     *)
(* tools/source_lock_order.py and tools/check_suppressed_tests.py demand   *)
(* of the tree of a commit.                                                *)
(*                                                                         *)
(* A tree is [recipes, locks, packit, baseline, reviewOnly]: a function    *)
(* from the directories under packages/ to recipes, the source lock as a   *)
(* sequence of entries, the packages of .packit.yaml, the packages listed  *)
(* as fetching from Fedora, and config/bump-review-only.txt.  The names of *)
(* packages are numbers, in the order of their code points.                *)
(*                                                                         *)
(* A recipe is [specs, provenance, manifest, suppressed]: how many specs   *)
(* it has, what .hummingbird-upstream.json says, the digests of the        *)
(* sources manifest ("none", "sha512", "md5"), and how often it forgives a *)
(* failing test: by defining tests_nonfatal, and by masking the status of  *)
(* a test in %check.  A lock entry is [name, host, digest, formed].        *)
(***************************************************************************)
EXTENDS Naturals, FiniteSets, Sequences, SequencesExt

\* From packages to the suppressions they came with, of each kind: INHERITED
\* and INHERITED_FALLBACKS.
CONSTANT Inherited

Suppressions == [defined : Nat, masked : Nat]

NoneSuppressed == [defined |-> 0, masked |-> 0]

ASSUME InheritedAssumption == \A p \in DOMAIN Inherited : Inherited[p] \in Suppressions

Names(tree) == DOMAIN tree.recipes

LockNames(tree) == {e.name : e \in ToSet(tree.locks)}

\* check_provenance
ProvenanceHolds(name, provenance) ==
    /\ provenance.package = name
    /\ provenance.branch \in {"rawhide", "upstream", "master"}
    /\ provenance.branch = "master" => provenance.remote = "codec"
    /\ IF provenance.branch = "upstream"
       THEN provenance.pins = "none" /\ provenance.remote # "none"
       ELSE provenance.pins = "full"

\* offenders and drifted: a recipe suppresses what it came with, no test more
\* and none less, and one kind never stands for the other.
SuppressesNothingNew(tree) ==
    \A p \in Names(tree) :
        tree.recipes[p].suppressed = IF p \in DOMAIN Inherited THEN Inherited[p] ELSE NoneSuppressed

\* check_fedora_primary_sources
FedoraPrimaries(tree) == {e.name : e \in {f \in ToSet(tree.locks) : f.host = "fedora"}}

RatchetHolds(tree) == FedoraPrimaries(tree) = tree.baseline

\* check_plaintext_source_urls
NothingPlaintext(tree) == \A e \in ToSet(tree.locks) : e.host # "plain"

\* check_sources_digests
ManifestsHold(tree) == \A p \in Names(tree) : tree.recipes[p].manifest # "md5"

\* check_bump_review_only
ReviewOnlyHolds(tree) == tree.reviewOnly \subseteq LockNames(tree)

\* first_misordered: equal neighbours are in order.
InLockOrder(locks) == \A i \in 1..Len(locks) - 1 : locks[i].name <= locks[i + 1].name

\* in_lock_order sorts by name, and leaves equal names in the order they had.
PlaceInOrder(locks, i) ==
    Cardinality({j \in DOMAIN locks : \/ locks[j].name < locks[i].name
                                     \/ (locks[j].name = locks[i].name /\ j <= i)})

LockOrdered(locks) ==
    [k \in 1..Len(locks) |-> locks[CHOOSE i \in DOMAIN locks : PlaceInOrder(locks, i) = k]]

\* load_source_locks
LocksLoad(locks) ==
    /\ \A i, j \in DOMAIN locks : locks[i].name = locks[j].name => i = j
    /\ \A i \in DOMAIN locks : locks[i].formed

\* inventory, and what main makes of its records
Accounted(tree) ==
    /\ \A p \in Names(tree) : tree.recipes[p].specs = 1
    /\ LocksLoad(tree.locks)
    /\ Names(tree) \subseteq LockNames(tree) \cap tree.packit

\* main, but for the build root, which is ValidRoot of Buildroot.
Validates(tree) ==
    /\ \A p \in Names(tree) : ProvenanceHolds(p, tree.recipes[p].provenance)
    /\ SuppressesNothingNew(tree)
    /\ RatchetHolds(tree) /\ NothingPlaintext(tree) /\ ManifestsHold(tree)
    /\ ReviewOnlyHolds(tree) /\ InLockOrder(tree.locks)
    /\ Accounted(tree)
=============================================================================
