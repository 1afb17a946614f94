----------------------------- MODULE MCJourney -----------------------------
(* Journey with interchangeable requests, entries and keys: with three       *)
(* entries and a limit of two a trail file holds several entries, and two    *)
(* calls that overlap pass the limit.                                        *)
EXTENDS Journey, TLC

Interchangeable == Permutations(Requests) \cup Permutations(Keys) \cup Permutations(Ids)
=============================================================================
