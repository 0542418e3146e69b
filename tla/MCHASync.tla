------------------------------ MODULE MCHASync ------------------------------
(* Instances of HASync for TLC. *)
EXTENDS HASync, TLC

CONSTANTS s1, s2

\* Sessions are interchangeable when all of them are of one kind.
Symmetry == Permutations({s1, s2})
OnlyStandby == {"standby"}
=============================================================================
