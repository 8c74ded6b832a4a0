-------------------------- MODULE MCOrganLifecycle --------------------------
(* Model checking of OrganLifecycle.                                       *)
EXTENDS OrganLifecycle, TLC

\* Sockets differ in nothing but their names.
SocketSymmetry == Permutations(Sockets)
=============================================================================
