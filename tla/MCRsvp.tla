------------------------------- MODULE MCRsvp -------------------------------
(* Rsvp with two people, one of them on the roster, and interchangeable      *)
(* requests.                                                                 *)
EXTENDS Rsvp, TLC

CONSTANTS ann, bob, h1, h2

FromNegative == {-2, 1}
NeverNegative == {0, 1}
Interchangeable == Permutations(Handlers)
=============================================================================
