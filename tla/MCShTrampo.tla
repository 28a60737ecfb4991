----------------------------- MODULE MCShTrampo -----------------------------
(* A small instance of ShTrampo: two pages of two slots, one second of     *)
(* delay, an unrestricted request, and one near the top of the address     *)
(* space whose window is clamped there and holds a single slot.            *)
EXTENDS ShTrampo, TLC

MCPageAddrs == {4, 8}

MCRequests == {[hint |-> 0, low |-> 0, high |-> 0],
               [hint |-> 11, low |-> 1, high |-> 9]}

Symmetry == Permutations(Threads)
=============================================================================
