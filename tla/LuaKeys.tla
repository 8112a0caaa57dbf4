------------------------------ MODULE LuaKeys -------------------------------
(***************************************************************************)
(* The keys of Lua's tables and what gui/lua/ltable.c takes for granted    *)
(* about them: names, which the collector may free, and the integers that  *)
(* may go to the array part of a table.                                    *)
(***************************************************************************)
EXTENDS Integers

CONSTANTS Names,     \* keys that are strings, hence collectable
          Indices,   \* keys that are positive integers
          Hash,      \* the hash of each key
          MaxInt,    \* MAX_INT, and the largest array index
          Sizes,     \* sizes a table may be created with: <<array, hash>>
          NIL,       \* nil, and the NULL of a chain
          Invalid    \* the error of next() with a key that is not there

Keys == Names \union Indices

ASSUME KeysAssumption ==
    /\ MaxInt \in Nat
    /\ Indices \subseteq 1..MaxInt
    /\ \A k \in Names : k \notin Nat
    /\ \A k \in Names \union 1..(MaxInt + 1) : Hash[k] \in Nat
    /\ Sizes \subseteq Nat \X Nat
    /\ NIL \notin Keys /\ NIL \notin Nat
    /\ Invalid \notin Keys \union {NIL}
=============================================================================
