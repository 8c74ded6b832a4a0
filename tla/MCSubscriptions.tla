-------------------------- MODULE MCSubscriptions --------------------------
(* Model checking of Subscriptions: three filters, one of them a longer     *)
(* form of another, and two OTMs whose "source" differs between the         *)
(* envelope and the payload.                                                *)
EXTENDS Subscriptions, TLC

Source(v) == [key |-> "source", value |-> v]
Event(v)  == [key |-> "event_type", value |-> v]
MCFilters == {<<Source("spine")>>, <<Source("spine"), Event("health")>>, <<>>}

OTM(outer, inner, event) ==
  [fields |-> [source |-> outer],
   payload |-> [source |-> inner, event_type |-> event]]
MCEnvelopes == {OTM("spine", "organ", "health"), OTM("organ", "spine", "state"),
                OTM("organ", "organ", "health")}

\* One organ is seeded as required; the others are added at run time, if at all.
CONSTANT Vectr
MCSeeds == <<[organ |-> Vectr, required |-> TRUE]>>

SocketSymmetry == Permutations(Sockets)
=============================================================================
