-------------------------- MODULE MCBrandContext --------------------------
(* An instance of BrandContext for TLC. *)
EXTENDS BrandContext, TLC

\* Invocations, tasks, sessions and readers are interchangeable.
Interchangeable ==
    Permutations(Imports) \cup Permutations(Tasks) \cup Permutations(Sessions)
=============================================================================
