----------------------------- MODULE MCGoClient -----------------------------
(* Small instances of GoClient for TLC. *)
EXTENDS GoClient

\* In none of them does idSeq come round.
ASSUME NoIdTwice == NoWrap
=============================================================================
