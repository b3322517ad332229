------------------------------ MODULE MCServer ------------------------------
(* TLC instances of Server. *)
EXTENDS Server

CONSTANT s1

OneReader == {s1}
Lines == 1 .. NumLines
AllWorkers == Idx
=============================================================================
