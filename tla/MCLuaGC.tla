------------------------------ MODULE MCLuaGC ------------------------------
(***************************************************************************)
(* Instances of LuaGC for TLC.  wv, wk and wkv are weak, and ud final, as  *)
(* soon as one of these tables is their metatable.                         *)
(***************************************************************************)
EXTENDS LuaGC

CONSTANTS main, co, reg, t, wv, wk, wkv, fin, ud, string, cl, cl2, uv, uv2, pr

MCMode == [x \in Tables |-> CASE x = wv -> {"v"} [] x = wk -> {"k"} [] x = wkv -> {"k", "v"} [] OTHER -> {}]
Using(uses, sets, metatables, generations) ==
    [uses |-> {main, reg} \union uses, sets |-> sets,
     metatables |-> metatables, generations |-> generations]
Kept == <<reg, Number>>

MCPrograms == {
    Using({wv, t}, {Kept, <<wv, Number>>}, {<<wv, wv>>, <<wv, NULL>>}, FALSE),
    Using({wv, string}, {Kept, <<wv, string>>}, {<<wv, wv>>, <<wv, NULL>>}, FALSE),
    Using({wkv, ud}, {Kept, <<wkv, ud>>}, {<<wkv, wkv>>}, FALSE),
    Using({wk, t}, {Kept, <<wk, t>>}, {<<wk, wk>>}, FALSE),
    Using({fin, ud}, {Kept}, {<<ud, fin>>}, FALSE),
    Using({fin, t}, {Kept}, {<<t, fin>>, <<fin, fin>>}, FALSE),
    Using({pr, cl, cl2, uv, uv2}, {}, {}, FALSE),
    Using({co, pr, cl, uv}, {}, {}, FALSE),
    Using({t, ud}, {Kept, <<t, Number>>}, {<<ud, t>>}, TRUE)}

\* A key and its value, which only the ephemeron table holds.
MCEphemerons == {Using({wk, t, ud}, {<<wk, t>>}, {<<wk, wk>>}, FALSE)}

\* A userdata and its metatable, both with a finalizer.
MCFinalized == {Using({fin, ud}, {}, {<<ud, fin>>, <<fin, fin>>}, FALSE)}
=============================================================================
