----------------------------- MODULE MCBilling ------------------------------
(* Billing with two subscriptions, interchangeable. *)
EXTENDS Billing, TLC

CONSTANTS s1, s2

Interchangeable == Permutations(Subs)
=============================================================================
