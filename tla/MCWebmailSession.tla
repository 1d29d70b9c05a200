---- MODULE MCWebmailSession ----
(* WebmailSession for TLC: requests are alike. *)
EXTENDS WebmailSession, TLC
RequestSymmetry == Permutations(Workers)
====
