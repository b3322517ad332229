--------------------------- MODULE MCDispatcher ---------------------------
(* TLC instances of Dispatcher. *)
EXTENDS Dispatcher, TLC

CONSTANTS s1, s2, r1, r2, r3, r4, r5

OneSubmitter == {s1}
TwoSubmitters == {s1, s2}
ThreeRequests == {r1, r2, r3}
FourRequests == {r1, r2, r3, r4}
FiveRequests == {r1, r2, r3, r4, r5}
AllWorkers == Idx
OnlyLastWorker == {NumWorkers - 1}

\* Submitters are interchangeable; safety runs only.
Symmetry == Permutations(TwoSubmitters)
=============================================================================
