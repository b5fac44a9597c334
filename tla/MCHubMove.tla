----------------------------- MODULE MCHubMove -----------------------------
(* TLC instance of HubMove: the Hub starts on a. *)
EXTENDS HubMove, TLC

CONSTANTS a, b, c

\* Hosts other than the first Hub are interchangeable.
Symmetry == Permutations(Hosts \ {First})
=============================================================================
