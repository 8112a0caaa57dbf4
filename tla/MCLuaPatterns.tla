--------------------------- MODULE MCLuaPatterns ----------------------------
(***************************************************************************)
(* Calls of LuaPatterns for TLC: every two items on every three characters, *)
(* and groups, back references and repetitions in patterns of up to five.  *)
(***************************************************************************)
EXTENDS Integers, Sequences, SequencesExt, FiniteSets

One(text, set, rep) == [text |-> IF rep = "" THEN text ELSE Append(text, rep),
                        kind |-> "one", set |-> set, rep |-> rep]
Other(text, kind) == [text |-> text, kind |-> kind]
Back(d, l) == [text |-> <<"%", d>>, kind |-> "back", group |-> l]
Pair(x, y) == [text |-> <<"%", "b", x, y>>, kind |-> "balance", pair |-> <<x, y>>]
Border(text, set) == [text |-> <<"%", "f">> \o text, kind |-> "frontier", set |-> set]

All == {"\\0", " ", "%", "(", ")", "-", "1", "A", "]", "^", "a", "b"}    \* Codes
Singly == {[text |-> <<"a">>, set |-> {"a"}], [text |-> <<".">>, set |-> All],
           [text |-> <<"%", "a">>, set |-> {"A", "a", "b"}],
           [text |-> <<"%", "A">>, set |-> All \ {"A", "a", "b"}],
           [text |-> <<"%", "-">>, set |-> {"-"}],
           [text |-> <<"[", "^", "a", "]">>, set |-> All \ {"a"}],
           [text |-> <<"[", "]", "]">>, set |-> {"]"}],
           [text |-> <<"[", "1", "-", "a", "%", "]", "]">>, set |-> {"1", "A", "]", "^", "a"}],
           [text |-> <<"[", "a", "-", "]">>, set |-> {"a", "-"}]}
Open == Other(<<"(">>, "open")
Shut == Other(<<")">>, "close")
Here == Other(<<"(", ")">>, "position")
AtEnd == Other(<<"$">>, "end")
Broken == {Other(<<"[", "a">>, "broken"), Other(<<"[", "^", "]">>, "broken"), Other(<<"%">>, "broken"),
           Other(<<"%", "f", "a">>, "broken"), Other(<<"%", "b", "(">>, "broken")}
ItemsA == {One(c.text, c.set, r) : c \in Singly, r \in {"", "*", "-"}}
    \union {One(<<"a">>, {"a"}, r) : r \in {"+", "?"}}
    \union {Open, Shut, Here, Back("1", 1), Pair("(", ")"), Pair("a", "a"),
            Border(<<"[", "%", "a", "]">>, {"A", "a", "b"}),
            Border(<<"[", "^", "a", "]">>, All \ {"a"})}
ItemsB == {One(<<"a">>, {"a"}, ""), One(<<".">>, All, "*"), One(<<"a">>, {"a"}, "-"), One(<<"b">>, {"b"}, "?"),
           Open, Shut, Here, Back("1", 1), Back("2", 2)}

Texts(chars, n) == UNION {[1..k -> chars] : k \in 0..n}
\* "()" is an item of its own, and "$" is one at the end only.
Legible(items) == /\ \A i \in 1..(Len(items) - 1) : ~(items[i] = Open /\ items[i + 1] = Shut)
                  /\ \A i \in DOMAIN items : items[i].kind \in {"end", "broken"} => i = Len(items)

Keep == [kind |-> "string", news |-> <<"b">>, has |-> {}]
Arguments(fs, subjects, patterns, anchors, inits, repls, maxs) ==
    [f : fs, src : subjects, items : {p \in patterns : Legible(p)}, anchor : anchors, init : inits,
     repl : repls, max : maxs]
CharsA == {"a", "A", "-", "]", "("}
CharsB == {"a", "b"}
Last2 == ItemsA \union Broken \union {AtEnd}
PatternsA == {<< >>} \union {<<i>> : i \in Last2} \union {<<i, j>> : i \in ItemsA, j \in Last2}
PatternsB == Texts(ItemsB, 5)
Grouped == {p \in PatternsB : /\ Open \in ToSet(p)
                              /\ Len(SelectSeq(p, LAMBDA i : i = Open)) = Len(SelectSeq(p, LAMBDA i : i = Shut))}
Repls == {[kind |-> "string", news |-> <<"a", "%", "1", "%", "0">>, has |-> {}]}
    \union [kind : {"table", "function"}, news : {<< >>}, has : {{<<"a">>}, {<< >>}}]

MCCalls ==
    Arguments({"find"}, Texts(CharsA, 3), PatternsA, {FALSE}, {1}, {Keep}, {9})
    \union Arguments({"find"}, Texts(CharsA, 2), PatternsA, {TRUE}, {1}, {Keep}, {9})
    \union Arguments({"match"}, Texts(CharsB, 3), Grouped, {FALSE}, {1}, {Keep}, {9})
    \union Arguments({"find", "match"}, Texts(CharsB, 2), Texts(ItemsB, 1), BOOLEAN,
                     {-3, -2, -1, 0, 1, 2, 3, 4}, {Keep}, {9})
    \union Arguments({"gmatch"}, Texts({"a", "^"}, 3), Texts(ItemsB, 2), BOOLEAN, {1}, {Keep}, {9})
    \union Arguments({"gsub"}, Texts(CharsB, 3), Texts(ItemsB, 2), BOOLEAN, {1}, Repls, {0, 1, 9})
=============================================================================
