------------------------- MODULE MCEditTransaction -------------------------
(* TLC instances of EditTransaction. *)
EXTENDS EditTransaction, TLC

CONSTANTS w1, w2, a, b, c

TwoWorkers == {w1, w2}
OneWorker == {w1}
TwoContents == {a, b}
ThreeContents == {a, b, c}

\* Interchangeable threads and interchangeable contents; no temporal property
\* is checked under it.
Symmetry2 == Permutations(TwoWorkers) \union Permutations(ThreeContents)

\* The locals of an idle worker are dead: states that differ only there are one.
LiveLocals ==
    [w \in Workers |->
        IF pc[w] = "idle" THEN None ELSE <<op[w], gen[w], src[w], cand[w]>>]
View == <<onDisk, adversity, shared, locks, pc, LiveLocals>>
=============================================================================
