------------------------------ MODULE MCShSwitch ------------------------------
(* Instances of ShSwitch: a function of libc that the hub calls itself and *)
(* one of a library that is closed and opened again.                       *)
EXTENDS ShSwitch, TLC

CONSTANTS f1, f2, libc, lib

MCLibOf == f1 :> libc @@ f2 :> lib

Symmetry == Permutations(Callers) \cup Permutations(Proxies) \cup Permutations(Sw)

(* What operations have returned is of interest to the registry alone.     *)
MemoryView == <<unique, lock, parts, th, run>>
===============================================================================
