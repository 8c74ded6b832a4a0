-------------------------- MODULE MCMessageDelivery --------------------------
(* Model checking of MessageDelivery.  Either organ may be the one that     *)
(* HOMs go to, so that organs, like sockets, differ in nothing but their    *)
(* names.                                                                   *)
EXTENDS MessageDelivery, TLC

DeliverySymmetry == Permutations(Sockets) \cup Permutations(Organs)
=============================================================================
