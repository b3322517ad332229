---------------------------- MODULE MCHydration -----------------------------
(* Instances of Hydration for TLC. *)
EXTENDS Hydration, TLC

Mix(hs, n, ws, serial, hidden, bridge, store) ==
    [handlers |-> hs, calls |-> n, writes |-> ws, serial |-> serial,
     hidden |-> hidden, bridge |-> bridge, store |-> store]

MCMixes ==
    {Mix({"query", "inspect", "refresh"}, 3, 1, TRUE, TRUE, FALSE, FALSE),
     Mix(Handlers \ {"reindex"}, 3, 0, TRUE, TRUE, FALSE, TRUE),
     Mix({"query", "edit"}, 2, 1, TRUE, FALSE, TRUE, TRUE),
     Mix({"query", "refresh", "reindex"}, 3, 1, TRUE, FALSE, TRUE, FALSE),
     Mix({"query", "edit"}, 2, 1, FALSE, FALSE, FALSE, FALSE),
     Mix({"query", "edit"}, 2, 0, FALSE, FALSE, TRUE, FALSE)}

RefreshMixes == {Mix({"query", "refresh"}, 2, 0, FALSE, FALSE, FALSE, FALSE)}

Symmetry == Permutations(Workers) \union Permutations(Files)
=============================================================================
