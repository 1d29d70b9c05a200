---- MODULE MCSecondFactor ----
(* SecondFactor for TLC: requests are alike, and so are pending tokens. *)
EXTENDS SecondFactor, TLC
RequestSymmetry == Permutations(Workers) \cup Permutations(Pendings)
====
