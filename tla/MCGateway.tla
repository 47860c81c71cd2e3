----------------------------- MODULE MCGateway -----------------------------
(* Gateway for TLC. *)
EXTENDS Gateway, TLC

\* Services, endpoints and routes occur only under quantifiers and in sets.
Symmetry ==
    Permutations(ServiceKey) \cup Permutations(Endpoint) \cup Permutations(RouteKey)
=============================================================================
