----------------------------- MODULE MCLuaCalls -----------------------------
(* Programs with two coroutines, which are alike, on a small C stack.      *)
EXTENDS LuaCalls, TLC

Symmetry == Permutations(Threads \ {MainThread})
=============================================================================
