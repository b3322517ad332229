---- MODULE MCAuthority ----
(* Instances of Authority for TLC. *)
EXTENDS Authority, TLC

CONSTANTS a, b, a2

\* a2 differs from a only where the compiler does not look.
MCIr == [c \in Contents |-> IF c = b THEN "y" ELSE "x"]

MCMixes ==
    {[handlers |-> {"delta", "apply", "refresh"}, calls |-> 4, adversity |-> 2],
     [handlers |-> AllHandlers \ {"compress"}, calls |-> 3, adversity |-> 1],
     [handlers |-> {"compress", "provide", "save"}, calls |-> 3, adversity |-> 1]}

SavingMixes ==
    {[handlers |-> {"delta", "apply", "save"}, calls |-> 4, adversity |-> 1]}

UnsavedMixes ==
    {[handlers |-> {"delta", "apply"}, calls |-> 6, adversity |-> 2]}

ReadingMixes == {[handlers |-> {"provide"}, calls |-> 3, adversity |-> 1]}

Symmetry == Permutations(Workers)
====
