----------------------------- MODULE MCMailing -----------------------------
(* Mailing with interchangeable workers.                                    *)
EXTENDS Mailing, TLC

CONSTANTS ann, bob, w1, w2
=============================================================================
