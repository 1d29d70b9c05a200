-------------------------- MODULE MCSharedMailbox --------------------------
(* SharedMailbox for TLC: interchangeable requests.                        *)
EXTENDS SharedMailbox, TLC

RequestSymmetry == Permutations(Workers)
=============================================================================
