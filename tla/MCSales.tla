------------------------------ MODULE MCSales -------------------------------
(* Sales with an order of the public page and a booth's, in a campaign that  *)
(* splits its proceeds with the scouts.                                      *)
EXTENDS Sales, TLC

CONSTANTS h1, h2, web, booth

Interchangeable == Permutations(Handlers)
=============================================================================
