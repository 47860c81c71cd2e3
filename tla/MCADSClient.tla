---------------------------- MODULE MCADSClient ----------------------------
(* ADSClient for TLC. *)
EXTENDS ADSClient, TLC

\* Names and versions occur only under quantifiers and as members of sets.
Symmetry == Permutations(Name) \cup Permutations(Version)
=============================================================================
