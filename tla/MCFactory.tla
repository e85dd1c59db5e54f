------------------------------ MODULE MCFactory ------------------------------
(* Factory with a library, an application that BuildRequires it, and at will *)
(* a bootstrap package the application needs and an extension of it.        *)
EXTENDS FactoryInvariants, TLC

MCRequires ==
    [p \in Packages |-> CASE p = "app" -> {"lib", "boot"} \cap Packages
                          [] p = "ext" -> {"app"}
                          [] OTHER -> {}]

\* Every version of a library breaks its ABI, or none does.
MCSoname == [v \in 1..MaxVersion |-> v]
MCSameSoname == [v \in 1..MaxVersion |-> 1]

\* Which run or image has which id decides nothing.
IdSymmetry == Permutations(RunIds) \cup Permutations(ImageIds)
=============================================================================
