----------------------------- MODULE MCJobStore -----------------------------
(* Small instances of JobStore: the threads of a kind are interchangeable. *)
EXTENDS JobStore, TLC

StoreSymmetry ==
    Permutations(Updaters) \union Permutations(Triagers) \union Permutations(Fields)
=============================================================================
