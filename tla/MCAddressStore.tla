--------------------------- MODULE MCAddressStore ---------------------------
(* AddressStore for TLC: the sets of model values of a .cfg and their symmetry. *)
EXTENDS AddressStore, TLC

\* Pods, service keys, addresses and ports occur in the specification and in its
\* properties only under quantifiers and as members of sets.
Symmetry ==
    Permutations(Pod) \cup Permutations(ServiceKey)
        \cup Permutations(Addr) \cup Permutations(Port)
=============================================================================
