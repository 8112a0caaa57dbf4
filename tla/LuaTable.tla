------------------------------ MODULE LuaTable ------------------------------
(***************************************************************************)
(* gui/lua/ltable.c: Lua's tables, an array part and a hash part whose     *)
(* chains run through its own nodes (Brent's variation), the rehash that   *)
(* moves keys between the two, the border search behind the # operator,    *)
(* and traversal by next() while the program changes and clears fields.    *)
(***************************************************************************)
EXTENDS LuaKeys, FiniteSets, Sequences, FiniteSetsExt

\* A loop: from x on, from each to the one that F has for it, to one in stop.
While(F, stop) ==
    LET from[x \in DOMAIN F] == IF x \in stop THEN x ELSE from[F[x]] IN from

TwoTo(n) == LET power[i \in 0..n] == IF i = 0 THEN 1 ELSE 2 * power[i - 1] IN power[n]
CeilLog2(x) == Min({i \in 0..x : x <= TwoTo(i)})

\* A table: the array part; the nodes, numbered from 0, none if it has but the
\* dummy that tables without a hash part share; the number of nodes from which
\* on none is free (lastfree); those whose key the collector has marked dead.
Holding(k, v, next) == [key |-> k, value |-> v, next |-> next]
Free == Holding(NIL, NIL, NIL)
SizeNode(t) == Cardinality(DOMAIN t.node)
WithNodes(array, size) ==
    LET count == IF size = 0 THEN 0 ELSE TwoTo(CeilLog2(size))
    IN  [array |-> array, node |-> [i \in 0..(count - 1) |-> Free],
         lastfree |-> count, dead |-> {}]
Nils(n) == [i \in 1..n |-> NIL]
SizeArray(t) == Len(t.array)

----------------------------------------------------------------------------
(* Reading.                                                                *)

\* Strings are hashed modulo the number of nodes, numbers modulo an odd one.
MainPosition(t, k) ==
    LET size == SizeNode(t)
    IN  Hash[k] % (IF k \in Names \/ size = 1 THEN size ELSE size - 1)

\* Along a chain from the node n: the first one in found, or NIL.
Links(t) == [n \in DOMAIN t.node \union {NIL} |-> IF n = NIL THEN NIL ELSE t.node[n].next]
Search(t, n, found) == While(Links(t), found \union {NIL})[n]

\* The node of the key k, or NIL; next() also takes a key that is dead.
\* (A mistake to look for: it does not.)
Holders(t, k, deadToo) ==
    {n \in DOMAIN t.node : t.node[n].key = k /\ (deadToo \/ n \notin t.dead)}
OnChainAlive(t, k, deadToo) ==
    IF SizeNode(t) = 0 THEN NIL ELSE Search(t, MainPosition(t, k), Holders(t, k, FALSE))
OnChain(t, k, deadToo) ==
    IF SizeNode(t) = 0 THEN NIL ELSE Search(t, MainPosition(t, k), Holders(t, k, deadToo))
NodeOf(t, k) == OnChain(t, k, FALSE)

InArray(t, k) == k \notin Names /\ k <= SizeArray(t)
Get(t, k) ==
    IF InArray(t, k) THEN t.array[k]
    ELSE IF NodeOf(t, k) = NIL THEN NIL ELSE t.node[NodeOf(t, k)].value

----------------------------------------------------------------------------
(* Sizes.                                                                  *)

\* computesizes(): the size 2^i of an array part of which more than half would
\* be in use, and how many keys would go to it.  "used" are the integer keys;
\* the loop goes up the slices that have some and keeps the last good one.
ComputeSizes(used) ==
    LET UpTo(n) == Cardinality({k \in used : k <= n})
        dense   == {i \in {CeilLog2(k) : k \in used} : UpTo(TwoTo(i)) > TwoTo(i) \div 2}
        size    == IF dense = {} THEN 0 ELSE TwoTo(Max(dense))
    IN  <<size, UpTo(size)>>

\* numusearray() and numusehash(): the keys whose value is not nil.
UsedIndices(t) == {k \in 1..SizeArray(t) : t.array[k] # NIL}
UsedNodes(t) == {n \in DOMAIN t.node : t.node[n].value # NIL}

\* The last free node below lastfree; the pointer stays there.
FreePositions(t) == {n \in 0..(t.lastfree - 1) : t.node[n].key = NIL}

----------------------------------------------------------------------------
(* Writing.                                                                *)

\* luaH_newkey() puts the key k into a node.  One whose value is nil is not
\* taken, whatever chain it is on; it stays there.
Fill(t, n, k, v) ==
    [t EXCEPT !.node = [@ EXCEPT ![n] = Holding(k, v, t.node[n].next)], !.dead = @ \ {n}]

\* The main position mp holds a node that belongs there: the new key goes to
\* the free node n, next on the chain.
FillBehind(t, mp, n, k, v) ==
    [t EXCEPT !.lastfree = n,
              !.node = [@ EXCEPT ![n] = Holding(k, v, t.node[mp].next),
                                 ![mp] = Holding(t.node[mp].key, t.node[mp].value, n)]]

\* It holds a node of the chain from "other": that one moves to n.
Before(t, other, mp) == Search(t, other, {n \in DOMAIN t.node : t.node[n].next = mp})
\* (A mistake to look for: what precedes it on the chain is not told.)
FillAfterCopy(t, other, mp, n, k, v) ==
    [t EXCEPT !.lastfree = n,
              !.node = [@ EXCEPT ![n] = t.node[mp], ![mp] = Holding(k, v, NIL)]]
FillAfterMove(t, other, mp, n, k, v) ==
    LET before == Before(t, other, mp)
    IN  [t EXCEPT !.lastfree = n,
                  !.node = [@ EXCEPT ![before] = Holding(t.node[before].key, t.node[before].value, n),
                                     ![n] = t.node[mp], ![mp] = Holding(k, v, NIL)]]

\* luaH_newkey() finds a node for the key k, if it need not rehash.
Taken(t, mp) == t.node[mp].value # NIL
NewKey(t, k, v) ==
    LET mp    == MainPosition(t, k)
        n     == Max(FreePositions(t))
        other == MainPosition(t, t.node[mp].key)
    IN  IF ~Taken(t, mp) THEN Fill(t, mp, k, v)
        ELSE IF other # mp THEN FillAfterMove(t, other, mp, n, k, v)
        ELSE FillBehind(t, mp, n, k, v)

\* luaH_set() and the assignment to the value it returns, which is that of a
\* new key if there was none, though v be nil.
Insert(t, k, v) ==
    IF InArray(t, k) THEN [t EXCEPT !.array = [@ EXCEPT ![k] = v]]
    ELSE IF NodeOf(t, k) # NIL
         THEN [t EXCEPT !.node = [@ EXCEPT ![NodeOf(t, k)] =
                   Holding(t.node[NodeOf(t, k)].key, v, t.node[NodeOf(t, k)].next)]]
    ELSE NewKey(t, k, v)

\* What luaH_resize() inserts again as the i-th: the vanishing slice of the
\* array part, then the nodes from the last to the first.
Vanishing(t, nasize) == IF nasize < SizeArray(t) THEN SizeArray(t) - nasize ELSE 0
ItemCount(t, nasize) == Vanishing(t, nasize) + SizeNode(t)
Item(t, nasize, i) ==
    IF i <= Vanishing(t, nasize)
    THEN [key |-> nasize + i, value |-> t.array[nasize + i]]
    ELSE [key |-> t.node[ItemCount(t, nasize) - i].key,
          value |-> t.node[ItemCount(t, nasize) - i].value]

\* Were there no free node for one of these, luaH_set() would rehash again;
\* FreePositions would then have no greatest element, an error to TLC.
Resize(t, nasize, nhsize) ==
    LET kept == [i \in 1..nasize |-> IF i <= SizeArray(t) THEN t.array[i] ELSE NIL]
        after[i \in 0..ItemCount(t, nasize)] ==
            IF i = 0 THEN WithNodes(kept, nhsize)
            ELSE IF Item(t, nasize, i).value = NIL THEN after[i - 1]
            ELSE Insert(after[i - 1], Item(t, nasize, i).key, Item(t, nasize, i).value)
    IN  after[ItemCount(t, nasize)]

\* A table without a free node is rehashed: the new key and those not nil are
\* counted, and both parts resized.
Rehash(t, k) ==
    LET keys    == {t.node[n].key : n \in UsedNodes(t)}
        indices == UsedIndices(t) \union (Indices \intersect (keys \union {k}))
        total   == Cardinality(UsedIndices(t)) + Cardinality(UsedNodes(t)) + 1
        size    == ComputeSizes(indices)
    IN  Resize(t, size[1], total - size[2])
Full(t, k) ==
    /\ ~InArray(t, k) /\ NodeOf(t, k) = NIL
    /\ SizeNode(t) = 0 \/ Taken(t, MainPosition(t, k))
    /\ FreePositions(t) = {}
Put(t, k, v) == Insert(IF Full(t, k) THEN Rehash(t, k) ELSE t, k, v)

----------------------------------------------------------------------------
(* Traversal and length.                                                   *)

\* luaH_next(): the first key after k whose value is not nil, those of the
\* array before those of the nodes; an error if k is not there.
NextKey(t, k) ==
    LET n     == IF k = NIL \/ InArray(t, k) THEN NIL ELSE OnChain(t, k, TRUE)
        inArr == {i \in UsedIndices(t) : k = NIL \/ (InArray(t, k) /\ i > k)}
        inHash == {i \in UsedNodes(t) : n # NIL => i > n}
    IN  IF k # NIL /\ ~InArray(t, k) /\ n = NIL THEN Invalid
        ELSE IF (k = NIL \/ InArray(t, k)) /\ inArr # {} THEN Min(inArr)
        ELSE IF inHash # {} THEN t.node[Min(inHash)].key ELSE NIL

\* The binary search between i, which is 0 or present, and j, which is not.
Bisect(t, i, j) ==
    LET pairs == (0..j) \X (0..j)
        halve == [p \in pairs |->
                     LET m == (p[1] + p[2]) \div 2
                     IN  IF Get(t, m) = NIL THEN <<p[1], m>> ELSE <<m, p[2]>>]
    IN  While(halve, {p \in pairs : p[2] - p[1] <= 1})[<<i, j>>][1]

\* unbound_search(): doubling, and one by one if that leads past MAX_INT.
Unbound(t, i, j) ==
    LET pairs  == Nat \X (Nat \ {0})
        double == [p \in pairs |-> <<p[2], 2 * p[2]>>]
        last   == While(double, {p \in pairs : p[2] > MaxInt \/ Get(t, p[2]) = NIL})[<<i, j>>]
    IN  IF last[2] > MaxInt THEN Min({n \in 1..(MaxInt + 1) : Get(t, n) = NIL}) - 1
        ELSE Bisect(t, last[1], last[2])

\* luaH_getn(); the search of the hash part starts at the end of the array.
GetN(t) ==
    LET j == SizeArray(t)
    IN  IF j > 0 /\ t.array[j] = NIL THEN Bisect(t, 0, j)
        ELSE IF SizeNode(t) = 0 THEN j
        ELSE Unbound(t, j, j + 1)

----------------------------------------------------------------------------
VARIABLES table,   \* the table
          map,     \* history: what the program has assigned and not cleared
          at,      \* the key of the traversal, NIL at its beginning
          seen     \* history: how it goes, the keys visited, and those there all along

vars == <<table, map, at, seen>>

Idle == <<"idle", {}, {}>>

Init == /\ \E size \in Sizes : table = WithNodes(Nils(size[1]), size[2])
        /\ map = [k \in Keys |-> NIL]
        /\ at = NIL /\ seen = Idle

\* t[k] = v; in a traversal only of a field that is there.
Assign(k, v) ==
    /\ seen # Idle => map[k] # NIL
    /\ table' = Put(table, k, v)
    /\ map' = [map EXCEPT ![k] = v]
    /\ seen' = IF v = NIL /\ seen # Idle THEN <<seen[1], seen[2], seen[3] \ {k}>> ELSE seen
    /\ UNCHANGED at

\* OP_SETLIST: room for the items of a constructor in the array part.
SetList(n) ==
    /\ seen = Idle /\ n > SizeArray(table) /\ \A k \in Keys : map[k] = NIL
    /\ table' = Resize(table, n, SizeNode(table))
    /\ UNCHANGED <<map, at, seen>>

\* The collector (removeentry() in lgc.c) marks a key dead that has no value.
KillKey ==
    \E n \in DOMAIN table.node :
        /\ table.node[n].key \in Names /\ table.node[n].value = NIL
        /\ table' = [table EXCEPT !.dead = @ \union {n}]
        /\ UNCHANGED <<map, at, seen>>

\* A traversal begins, steps on, and ends.
Begin == /\ seen = Idle
         /\ seen' = <<"going", {}, {k \in Keys : map[k] # NIL}>>
         /\ at' = NIL /\ UNCHANGED <<table, map>>
Step == LET k == NextKey(table, at) IN
        /\ seen[1] = "going" /\ k \notin {NIL, Invalid}
        /\ at' = k
        /\ seen' = IF k \in seen[2] THEN <<"twice", {}, {}>>
                   ELSE <<"going", seen[2] \union {k}, seen[3]>>
        /\ UNCHANGED <<table, map>>
End == /\ seen[1] = "going" /\ NextKey(table, at) = NIL
       /\ seen' = IF seen[3] \subseteq seen[2] THEN Idle ELSE <<"missed", {}, {}>>
       /\ at' = NIL /\ UNCHANGED <<table, map>>

\* The value assigned to a key, if any, tells which key it was.
Next == \/ \E k \in Keys : Assign(k, k) \/ Assign(k, NIL)
        \/ \E n \in Indices : SetList(n)
        \/ KillKey \/ Begin \/ Step \/ End
Spec == Init /\ [][Next]_vars

----------------------------------------------------------------------------
\* Whatever was inserted, cleared, moved by a collision and moved again by a
\* rehash between the two parts: a key has the value that was assigned to it.
IsTheMap == \A k \in Keys : Get(table, k) = map[k]

\* The # operator answers with a border, also when the search starts in the
\* array part and goes on in the hash part, or doubles past MAX_INT.
LengthIsBorder ==
    LET n == GetN(table)
        at1(i) == IF i \in Indices THEN map[i] ELSE NIL
    IN  (n = 0 \/ at1(n) # NIL) /\ at1(n + 1) = NIL

\* A table is the map of what was assigned to it, and its length is a border.
TableRight == IsTheMap /\ LengthIsBorder

\* A traversal in which fields are changed and cleared, and the collector
\* marks cleared keys dead, finds the key it left, and visits every field that
\* stays, and none twice.
TraversalComplete ==
    /\ seen[1] \notin {"twice", "missed"}
    /\ seen[1] = "going" => NextKey(table, at) # Invalid
=============================================================================
