---------------------------- MODULE MCProxyTunnel ----------------------------
(***************************************************************************)
(* ProxyTunnel for TLC.  Public clients and proxy connections are model    *)
(* values that nothing in the specification orders, so permuting those of  *)
(* one kind is sound for the safety run that uses it; the run with a       *)
(* liveness property does without.                                         *)
(***************************************************************************)
EXTENDS ProxyTunnel, TLC

Symmetry ==
    Permutations(Silent) \cup Permutations(Public \ Silent) \cup
    Permutations(Eager) \cup Permutations(Proxy \ Eager)
=============================================================================
