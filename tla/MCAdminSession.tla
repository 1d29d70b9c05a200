--------------------------- MODULE MCAdminSession ---------------------------
(* AdminSession with the sets TLC may permute: safety only.                *)
EXTENDS AdminSession, TLC

LoginSymmetry == Permutations(Workers) \cup Permutations(Tokens)
=============================================================================
