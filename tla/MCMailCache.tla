---------------------------- MODULE MCMailCache ----------------------------
(* MailCache for TLC: the hosts are interchangeable.                       *)
EXTENDS MailCache, TLC

MailSymmetry == Permutations(Host)
=============================================================================
