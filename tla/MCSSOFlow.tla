---- MODULE MCSSOFlow ----
(* SSOFlow for TLC: two domains, of which the domain admin manages one. *)
EXTENDS SSOFlow, TLC
CONSTANTS w1, w2, d1, d2, a1
MCManaged == [a \in DomainAdmins |-> {d1}]
MCScopes == {{d1}, {d1, d2}}
RequestSymmetry == Permutations(Workers)
====
