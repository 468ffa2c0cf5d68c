----------------------------- MODULE MCRunStore -----------------------------
(* Instances of RunStore for TLC: two threads, on one store object or on two. *)
(* Threads are interchangeable, and so are stores.                           *)
EXTENDS RunStore, TLC

Symmetry == Permutations(Clients) \cup Permutations(Stores)
=============================================================================
