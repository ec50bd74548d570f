---------------------------- MODULE MCCppClient -----------------------------
(* Small instances of CppClient for TLC. *)
EXTENDS CppClient, TLC

\* What the server sends of its own accord.
AllKinds    == OtherKinds
OnlyKick    == {"kick"}
OnlyPush    == {"push"}
NoKinds     == {}

\* The requests are interchangeable.
RequestSymmetry == Permutations(Requests)
=============================================================================
