--------------------- MODULE MCFlavourRouterController ----------------------
(* Instances of FlavourRouterController for TLC.                           *)
EXTENDS FlavourRouterController, TLC

\* The Services have one name, in different namespaces.
MCNameOf == [s \in Services |-> "web"]

Symmetry == Permutations(Services) \cup Permutations(Specs)
=============================================================================
