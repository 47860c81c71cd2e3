-------------------------- MODULE MCResourceStore --------------------------
(* ResourceStore for TLC. *)
EXTENDS ResourceStore, TLC

\* Keys and ports occur only under quantifiers and as members of sets; so do
\* hostnames other than the wildcard.
Symmetry ==
    Permutations(BindKey) \cup Permutations(RouteKey) \cup Permutations(ServiceKey)
        \cup Permutations(Port) \cup Permutations(Host \ {Wildcard})
        \cup Permutations(ListenerKey \ TlsListener)
=============================================================================
