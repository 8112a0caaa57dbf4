---------------------------- MODULE LuaInvariants ---------------------------
(***************************************************************************)
(* What a table is at any time, and what the parser knows at any time: the *)
(* inductive invariants of LuaTable and LuaScopes, and what the proofs     *)
(* about them in LuaProofs say of the operations on the way.               *)
(***************************************************************************)
EXTENDS LuaTable, LuaScopes

----------------------------------------------------------------------------
(* What a table is at any time.                                            *)

Cells == Keys \union {NIL}
Spots(s) == 0..(s - 1)
NodesOf(s) == [Spots(s) -> [key : Cells, value : Cells, next : Spots(s) \union {NIL}]]
TablesOf(s) == [array : Seq(Cells), node : NodesOf(s), lastfree : 0..s, dead : SUBSET Spots(s)]

\* The main position of k among s nodes.
Main(s, k) == Hash[k] % (IF k \in Names \/ s = 1 THEN s ELSE s - 1)

\* The nodes nd that follow m on its chain, and m: those that are in all sets
\* which have m, and with a node the next.
Closed(nd, C) == \A x \in C : nd[x].next \in C \union {NIL}
Behind(nd, s, m, x) == \A C \in SUBSET Spots(s) : m \in C /\ Closed(nd, C) => x \in C

\* A free node is on no chain; no two nodes have the same next.
FreeApart(nd, s) ==
    \A n \in Spots(s) : nd[n].key = NIL =>
        nd[n].value = NIL /\ nd[n].next = NIL /\ \A x \in Spots(s) : nd[x].next # n
NextOnce(nd, s) ==
    \A x, y \in Spots(s) : nd[x].next = nd[y].next /\ nd[x].next # NIL => x = y

\* A key is on the chain from its main position, and that is held by a key
\* which belongs there.
OnItsChain(nd, s) ==
    \A n \in Spots(s) : nd[n].key # NIL => Behind(nd, s, Main(s, nd[n].key), n)
MainOwned(nd, s) ==
    \A n \in Spots(s) : nd[n].key # NIL =>
        LET m == Main(s, nd[n].key) IN nd[m].key # NIL /\ Main(s, nd[m].key) = m

\* A dead key has no value; a key that is not dead is in one node.
DeadEmpty(nd, dead) == \A n \in dead : nd[n].key # NIL /\ nd[n].value = NIL
KeyOnce(nd, dead, s) ==
    \A x, y \in Spots(s) \ dead : nd[x].key = nd[y].key /\ nd[x].key # NIL => x = y

\* Chains end; a dead key comes behind the same key if that is not dead.
Downward(nd, dead, s, rank) ==
    /\ \A x \in Spots(s) : nd[x].next # NIL => rank[nd[x].next] < rank[x]
    /\ \A x \in Spots(s) \ dead, d \in dead : nd[x].key = nd[d].key => rank[d] < rank[x]
Ranked(nd, dead, s) == \E rank \in [Spots(s) -> Nat] : Downward(nd, dead, s, rank)

Chains(nd, dead, s) ==
    /\ FreeApart(nd, s) /\ NextOnce(nd, s) /\ OnItsChain(nd, s) /\ MainOwned(nd, s)
    /\ DeadEmpty(nd, dead) /\ KeyOnce(nd, dead, s) /\ Ranked(nd, dead, s)

\* From lastfree on there is no free node; no node has a key that the array
\* part has room for, and that has values for indices only.
NoneFreeAbove(t, s) == \A n \in Spots(s) : n >= t.lastfree => t.node[n].key # NIL
ArrayFirst(t, s) == \A n \in Spots(s) : t.node[n].key # NIL => ~InArray(t, t.node[n].key)
ArrayOfIndices(t) == \A i \in 1..Len(t.array) : t.array[i] # NIL => i \in Indices

Sound(t, s) ==
    /\ t \in TablesOf(s) /\ Chains(t.node, t.dead, s)
    /\ NoneFreeAbove(t, s) /\ ArrayFirst(t, s) /\ ArrayOfIndices(t)

----------------------------------------------------------------------------
(* A new key in a node.                                                    *)

\* k is a key that t has no node for, or only a dead one.
IsNew(t, s, k) ==
    k \in Keys /\ ~InArray(t, k) /\ \A x \in Spots(s) \ t.dead : t.node[x].key # k

\* u is t with v for k: all else that is not nil is there with its value.
Same(a, b) == a.key = b.key /\ a.value = b.value
Added(t, u, s, k, v) ==
    /\ u.array = t.array
    /\ \E y \in Spots(s) \ u.dead : u.node[y].key = k /\ u.node[y].value = v
    /\ \A x \in Spots(s) \ t.dead : t.node[x].value # NIL /\ t.node[x].key # k =>
          \E y \in Spots(s) \ u.dead : Same(u.node[y], t.node[x])
    /\ \A y \in Spots(s) \ u.dead : u.node[y].key \notin {NIL, k} =>
          \E x \in Spots(s) \ t.dead : Same(u.node[y], t.node[x])

----------------------------------------------------------------------------
(* luaH_set() without rehash.                                              *)

\* What may be asked for: the keys, and an index past the last.
Asked == Names \union 1..(MaxInt + 1)

\* u has v for k, and for the rest what t has.
Updated(t, u, k, v) == \A j \in Asked : Get(u, j) = IF j = k THEN v ELSE Get(t, j)

\* The nodes of u are those of t, but for values.
SameNodes(t, u, s) ==
    u.dead = t.dead /\ \A x \in Spots(s) : u.node[x].key = t.node[x].key /\ u.node[x].next = t.node[x].next

----------------------------------------------------------------------------
(* A table of free nodes, and room for the keys that are to come.          *)

NodeCount(size) == IF size = 0 THEN 0 ELSE TwoTo(CeilLog2(size))

----------------------------------------------------------------------------
(* luaH_resize().                                                          *)

Kept(t, nasize) == [i \in 1..nasize |-> IF i <= SizeArray(t) THEN t.array[i] ELSE NIL]
ValuesAfter(after, t, nasize, i) ==
    IF Item(t, nasize, i).value = NIL THEN after[i - 1]
    ELSE Insert(after[i - 1], Item(t, nasize, i).key, Item(t, nasize, i).value)
IsResize(after, t, nasize, nhsize, d) ==
    after = [i \in 0..d |-> IF i = 0 THEN WithNodes(Kept(t, nasize), nhsize) ELSE ValuesAfter(after, t, nasize, i)]

\* u is what t is resized to when i items have been inserted: it has those, what
\* stayed in the array part, nothing that t has not, and nodes for keys in G.
Reinserted(u, t, s, nasize, G, i) ==
    /\ Sound(u, s) /\ u.dead = {} /\ SizeArray(u) = nasize
    /\ \A y \in Spots(s) : u.node[y].key \in G \union {NIL}
    /\ \A j \in Asked : Get(u, j) # NIL => Get(u, j) = Get(t, j)
    /\ \A j \in Asked : InArray(t, j) /\ j <= nasize => Get(u, j) = Get(t, j)
    /\ \A p \in 1..i : Item(t, nasize, p).value # NIL =>
          Get(u, Item(t, nasize, p).key) = Item(t, nasize, p).value

----------------------------------------------------------------------------
(* rehash() and luaH_set().                                                *)

\* The keys a table has values for, and k, are those that are counted.
Counted(t, k) == UsedIndices(t) \union {t.node[n].key : n \in UsedNodes(t)} \union {k}
Integral(t, k) == UsedIndices(t) \union (Indices \intersect ({t.node[n].key : n \in UsedNodes(t)} \union {k}))

----------------------------------------------------------------------------
(* The collector marks the key of a node dead.                             *)

Killed(t, n) == [t EXCEPT !.dead = @ \union {n}]

----------------------------------------------------------------------------
(* luaH_next().                                                            *)

\* The key p is one that a traversal can go on from.
Placed(t, s, p) == p = NIL \/ (p \in Keys /\ (InArray(t, p) \/ OnChain(t, p, TRUE) \in Spots(s)))

\* The field k comes before the one after p: in the array part, or in a node
\* no later than that of p.
Passed(t, p, k) ==
    /\ p # NIL
    /\ IF InArray(t, k) THEN InArray(t, p) => k <= p
       ELSE ~InArray(t, p) /\ NodeOf(t, k) <= OnChain(t, p, TRUE)

----------------------------------------------------------------------------
(* The invariant.                                                          *)

\* The table has what was assigned, and nil for all else.
Reflects ==
    /\ map \in [Keys -> Cells]
    /\ \A j \in Asked : Get(table, j) = IF j \in Keys THEN map[j] ELSE NIL

\* A traversal that is going on can go on, and of the fields that are there it
\* has visited those that it has passed.
Travels(s) ==
    \/ seen = Idle
    \/ /\ seen[1] = "going" /\ seen[3] \subseteq {k \in Keys : map[k] # NIL}
       /\ Placed(table, s, at)
       /\ \A k \in Keys : map[k] # NIL => (k \in seen[2] <=> Passed(table, at, k))

IInv == Reflects /\ \E s \in Nat : Sound(table, s) /\ Travels(s)

----------------------------------------------------------------------------
(* The theorems.                                                           *)

\* What the program sees at an index.
ValueAt(i) == IF i \in Indices THEN map[i] ELSE NIL

----------------------------------------------------------------------------
(* Sequences.                                                              *)

Sequence(s) == \E S : s \in Seq(S)

----------------------------------------------------------------------------
(* The functions that are being read, without what is not needed to tell   *)
(* which variables they have: snapshots.                                   *)

Own == {"(for index)", "(for limit)", "(for step)"}
Vars == [name : VariableNames \union Own, at : Nat]
Snaps == [actvar : Seq(Vars), levels : Seq(Nat) \ {<< >>}, owner : Seq(Vars)]

\* What the statements do to one function ...
AddVars(f, vs) == [actvar |-> f.actvar \o vs, levels |-> f.levels, owner |-> f.owner]
Entered(f) == [actvar |-> f.actvar, levels |-> Append(f.levels, Len(f.actvar)), owner |-> f.owner]
Left(f) == [actvar |-> SubSeq(f.actvar, 1, Last(f.levels)), levels |-> Front(f.levels), owner |-> f.owner]
Opened(owner) == [actvar |-> << >>, levels |-> <<0>>, owner |-> owner]

\* ... and to all: they do it to the last one.
WithLast(S, f) == [S EXCEPT ![Len(S)] = f]
AddS(S, vs) == WithLast(S, AddVars(Last(S), vs))
EnterS(S) == WithLast(S, Entered(Last(S)))
LeaveS(S) == WithLast(S, Left(Last(S)))
OpenS(S, owner) == Append(S, Opened(owner))

VarAt(n, o) == [name |-> n, at |-> o]
Controls == <<Hidden("(for index)"), Hidden("(for limit)"), Hidden("(for step)")>>

\* What the statement at o, which opens blocks or functions, makes of S, and
\* what the end of it makes of that.
After(S, kind, n, o) ==
    CASE kind = "do" -> EnterS(S)
      [] kind \in {"while", "repeat"} -> EnterS(EnterS(S))
      [] kind = "for" -> EnterS(AddS(EnterS(AddS(EnterS(S), Controls)), <<VarAt(n, o)>>))
      [] kind = "function" -> OpenS(S, << >>)
      [] kind = "local function" -> OpenS(AddS(S, <<VarAt(n, o)>>), << >>)
      [] kind = "local = function" -> OpenS(S, <<VarAt(n, o)>>)
Ended(T, kind) ==
    CASE kind = "do" -> LeaveS(T)
      [] kind \in {"while", "repeat"} -> LeaveS(LeaveS(T))
      [] kind = "for" -> LeaveS(LeaveS(LeaveS(T)))
      [] kind \in Functions -> AddS(Front(T), Last(T).owner)
Openings == {"do", "while", "repeat", "for"} \union Functions
\* The variable that is left.
Staying(kind, n, o) ==
    IF kind \in {"local function", "local = function"} THEN <<VarAt(n, o)>> ELSE << >>

----------------------------------------------------------------------------
(* Which variable a name stands for.                                       *)

NamedAt(S, d, n) == {k \in 1..d : NamedIn(S[k].actvar, n) # {}}
MeansIn(S, d, n) ==
    IF NamedAt(S, d, n) = {} THEN 0
    ELSE LET k == Max(NamedAt(S, d, n)) IN S[k].actvar[Max(NamedIn(S[k].actvar, n))].at

\* The functions have the variables D and some of the parser's own; who comes
\* later was declared later.
AllKnown(S, D) ==
    \A k \in 1..Len(S) : \A i \in 1..Len(S[k].actvar) :
        LET v == S[k].actvar[i] IN v \in D \/ (v.at = 0 /\ v.name \notin VariableNames)
AllThere(S, D) ==
    \A v \in D : \E k \in 1..Len(S) : \E i \in 1..Len(S[k].actvar) : S[k].actvar[i] = v
InOrder(S) ==
    \A k, m \in 1..Len(S) : \A i \in 1..Len(S[k].actvar), j \in 1..Len(S[m].actvar) :
        /\ k < m \/ (k = m /\ i < j)
        /\ S[k].actvar[i].at # 0 /\ S[m].actvar[j].at # 0
        => S[k].actvar[i].at < S[m].actvar[j].at
Shows(S, D) == AllKnown(S, D) /\ AllThere(S, D) /\ InOrder(S)

Actual == {v \in Vars : v.at # 0}

\* What adding variables changes: the last function, which had m of them.
Adds(S, T, vs, m) ==
    /\ T \in Seq(Snaps) /\ Len(T) = Len(S) /\ Len(S) \in Nat \ {0} /\ Len(vs) \in Nat
    /\ \A k \in 1..Len(S) : \A i \in 1..Len(S[k].actvar) :
          i \in 1..Len(T[k].actvar) /\ T[k].actvar[i] = S[k].actvar[i]
    /\ \A j \in 1..Len(vs) : /\ m + j \in 1..Len(T[Len(S)].actvar)
                             /\ T[Len(S)].actvar[m + j] = vs[j]
    /\ \A k \in 1..Len(S) : \A i \in 1..Len(T[k].actvar) :
          \/ i \in 1..Len(S[k].actvar)
          \/ /\ k = Len(S)
             /\ \E j \in 1..Len(vs) : i = m + j

\* The variables that an opening brings, and those that its end leaves.
Gained(kind, n, o) == IF kind \in {"for", "local function"} THEN {VarAt(n, o)} ELSE {}
KeptVars(kind, n, o) == IF kind \in {"local function", "local = function"} THEN {VarAt(n, o)} ELSE {}

----------------------------------------------------------------------------
(* The state of the parser.                                                *)

Blocks == [isloop : BOOLEAN, nactvar : Nat, upval : BOOLEAN, firstlabel : Nat, firstgoto : Nat]
Ups == [name : VariableNames, instack : BOOLEAN, idx : Nat]
Frames == [bl : Seq(Blocks) \ {<< >>}, actvar : Seq(Vars), ups : Seq(Ups), owner : Seq(Vars)]

State(fs, label, gt, jump, closes, error) ==
    [fs |-> fs, label |-> label, gt |-> gt, jump |-> jump, closes |-> closes, error |-> error]
Lists(P) == /\ P = State(P.fs, P.label, P.gt, P.jump, P.closes, P.error)
            /\ Sequence(P.label) /\ Sequence(P.gt)

\* Jumps are patched, gotos closed or pending: that changes no variable.
Alike(Q, P) == Lists(Q) /\ Q.fs = P.fs /\ Q.label = P.label

\* The two walks through the pending gotos, told apart by "find".
FindVisit(Q, gd, lb) == IF gd.name = lb.name THEN CloseGoto(Q, gd, lb) ELSE Pend(Q, gd)
MoveVisit(Q, gd, bl) ==
    LET out == Exported(gd, bl)
        R == IF gd.nactvar > bl.nactvar /\ bl.upval THEN PatchClose(Q, gd.at, bl.nactvar) ELSE Q
    IN  IF Visible(R, gd.name) = {} THEN Pend(R, out) ELSE FindLabel(R, out)
Visited(Q, gd, find, x) == IF find THEN FindVisit(Q, gd, x) ELSE MoveVisit(Q, gd, x)
TakenGotos(P, first) == SubSeq(P.gt, first + 1, Len(P.gt))
Start(P, first) == [P EXCEPT !.gt = SubSeq(@, 1, first)]
Going(walk, P, first, find, x, i) ==
    IF walk[i - 1].error # "" THEN walk[i - 1] ELSE Visited(walk[i - 1], TakenGotos(P, first)[i], find, x)
IsWalk(walk, P, first, find, x, d) ==
    walk = [i \in 0..d |-> IF i = 0 THEN Start(P, first) ELSE Going(walk, P, first, find, x, i)]

----------------------------------------------------------------------------
(* What the parser does to its functions, and to the snapshot of them.     *)

Framed(bl, actvar, ups, owner) == [bl |-> bl, actvar |-> actvar, ups |-> ups, owner |-> owner]
LeftFrame(f) == Framed(Front(f.bl), SubSeq(f.actvar, 1, Last(f.bl).nactvar), f.ups, f.owner)

LevelsOf(bl) == [i \in 1..Len(bl) |-> bl[i].nactvar]
Snap1(f) == [actvar |-> f.actvar, levels |-> LevelsOf(f.bl), owner |-> f.owner]
Snap(fs) == [k \in 1..Len(fs) |-> Snap1(fs[k])]

\* The upvalues of each function are from the one around it: the register of the
\* variable that the name stands for there, or an upvalue with the name if none does.
UpRight(fs, d, i) ==
    LET u == fs[d].ups[i]
        v == SearchVar(fs[d - 1], u.name)
    IN  /\ d > 1
        /\ u.instack => u.idx = v /\ v # 0
        /\ ~u.instack => v = 0 /\ u.idx \in 1..Len(fs[d - 1].ups) /\ fs[d - 1].ups[u.idx].name = u.name
UpsRight(fs) == \A d \in 1..Len(fs) : \A i \in 1..Len(fs[d].ups) : UpRight(fs, d, i)

----------------------------------------------------------------------------
(* The operations of the parser.                                           *)

Parser(P) == Lists(P) /\ P.fs \in Seq(Frames) /\ P.fs # << >>
\* The parser P has read what the snapshot S tells.
Reads(P, S) == Parser(P) /\ UpsRight(P.fs) /\ Snap(P.fs) = S

\* There has been no error.
Fine(P) == P.error = ""

----------------------------------------------------------------------------
(* What singlevaraux() finds.                                              *)

Result(fs, k, info) == [fs |-> fs, k |-> k, info |-> info]
NotFound(fs) == Result(fs, "void", 0)
Void(r) == r.k = "void"
InRegister(r) == r.k = "local"
InUpvalue(r) == r.k = "upval"
\* The function at depth d, where r is what the one around it has answered.
AskedName(fs, name, d, r) ==
    LET v == SearchVar(fs[d], name)
        u == SearchUpvalue(fs[d], name)
        up == [name |-> name, instack |-> r.k = "local", idx |-> r.info]
    IN  IF v # 0 THEN Result(IF d = Len(fs) THEN fs ELSE [fs EXCEPT ![d] = MarkUpval(@, v)], "local", v)
        ELSE IF u # 0 THEN Result(fs, "upval", u)
        ELSE IF r.k = "void" THEN r
        ELSE Result([r.fs EXCEPT ![d].ups = Append(@, up)], "upval", Len(fs[d].ups) + 1)
IsSearch(walk, fs, name, m) ==
    walk = [d \in 0..m |-> IF d = 0 THEN NotFound(fs) ELSE AskedName(fs, name, d, walk[d - 1])]

\* Which of the functions that have the variables of S has one with the name.
Has(S, d, name) == NamedIn(S[d].actvar, name) # {}

\* A function in another state, with the same variables and levels.
Replaced(gs, fs, d, g) == gs = [fs EXCEPT ![d] = g]

\* A function marks the block of a variable.
Marked(gs, fs, d, v) == gs = [fs EXCEPT ![d] = MarkUpval(@, v)]

\* A function takes the variable from the one around it.
Extended(gs, fs, d, up) == gs = [fs EXCEPT ![d].ups = Append(@, up)]

\* What the functions 1 to d, asked for the name, have answered and have changed.
Answered(r, d, name) ==
    \/ /\ Void(r)
       /\ \A k \in 1..d : SearchVar(r.fs[k], name) = 0
    \/ /\ InRegister(r)
       /\ d > 0 /\ r.info = SearchVar(r.fs[d], name) /\ r.info # 0
    \/ /\ InUpvalue(r)
       /\ d > 0 /\ SearchVar(r.fs[d], name) = 0
       /\ r.info \in 1..Len(r.fs[d].ups) /\ r.fs[d].ups[r.info].name = name
Searched(r, fs, d, name) ==
    /\ r.fs \in Seq(Frames) /\ Len(r.fs) = Len(fs) /\ Snap(r.fs) = Snap(fs) /\ UpsRight(r.fs)
    /\ \A k \in 1..Len(fs) : k > d => r.fs[k] = fs[k]
    /\ Answered(r, d, name)

\* What the upvalues of the functions stand for.
UpsAt(fs, d, below) ==
    [i \in DOMAIN fs[d].ups |->
       LET up == fs[d].ups[i] IN IF up.instack THEN fs[d - 1].actvar[up.idx].at ELSE below[up.idx]]
IsUps(walk, fs, m) == walk = [d \in 0..m |-> IF d = 0 THEN << >> ELSE UpsAt(fs, d, walk[d - 1])]

----------------------------------------------------------------------------
(* The statements.                                                         *)

\* What the end of a block or function does.
EndBlock(P, kind) ==
    CASE kind = "do" -> LeaveBlock(P)
      [] kind = "while" -> LeaveBlock(LeaveBlock(P))
      [] kind = "repeat" -> LeaveBlock(Until(P))
      [] kind = "for" -> LeaveBlock(LeaveBlock(LeaveBlock(P)))
      [] OTHER -> CloseFunc(P)

\* What the statement at o that opens a block or function does.
OpenBlock(P, kind, n, o) ==
    CASE kind = "do" -> EnterBlock(P, FALSE)
      [] kind \in {"while", "repeat"} -> EnterBlock(EnterBlock(P, TRUE), FALSE)
      [] kind = "for" ->
           LET control == AdjustLocalVars(EnterBlock(P, TRUE), Controls)
               scope == AdjustLocalVars(EnterBlock(control, FALSE), <<VarAt(n, o)>>)
           IN  EnterBlock(scope, FALSE)
      [] kind = "function" -> OpenFunc(P, << >>)
      [] kind = "local function" -> OpenFunc(AdjustLocalVars(P, <<VarAt(n, o)>>), << >>)
      [] kind = "local = function" -> OpenFunc(P, <<VarAt(n, o)>>)

----------------------------------------------------------------------------
(* The text.                                                               *)

Ends(s) == s.kind = "end"
Declaring(s) == s.kind \in Declares
Delayed(s) == s.kind = "local = function"
Looping(s) == s.kind = "for"

\* Where a block has ended and what is seen, of any text t.
EndsIn(t, i) == {e \in (i + 1)..Len(t) : Ends(t[e]) /\ t[e].path = t[i].path}
EndIn(t, i) == IF EndsIn(t, i) = {} THEN 0 ELSE Min(EndsIn(t, i))
SinceIn(t, d) == IF Delayed(t[d]) THEN EndIn(t, d) ELSE d
BlockIn(t, d) == IF Looping(t[d]) THEN Append(t[d].path, d) ELSE t[d].path
SeenBy(t, m, path) ==
    {d \in 1..m : Declaring(t[d]) /\ SinceIn(t, d) \in 1..m /\ IsPrefix(BlockIn(t, d), path)}

Prefix(p, q) == Len(p) <= Len(q) /\ \A i \in 1..Len(p) : p[i] = q[i]

\* A text with one more statement.
Grown(u, t, s) ==
    /\ Len(t) \in Nat /\ Len(u) = Len(t) + 1 /\ u[Len(t) + 1] = s
    /\ \A d \in 1..Len(t) : u[d] = t[d]

\* Of a text t, whose open blocks are p: what each statement is, ...
Written(s) ==
    /\ s.path \in Seq(Nat) /\ s.opens \in BOOLEAN
    /\ s.opens <=> s.kind \in Openings
    /\ Declaring(s) => s.name \in VariableNames
Backwards(t) == \A d \in 1..Len(t) : \A i \in 1..Len(t[d].path) : t[d].path[i] < d
\* ... where the open blocks were opened, and that all after them is inside, ...
WellPlaced(t, p) ==
    \A r \in 1..Len(p) : /\ p[r] \in 1..Len(t) /\ t[p[r]].opens /\ Len(t[p[r]].path) = r - 1
                         /\ \A j \in 1..(r - 1) : t[p[r]].path[j] = p[j]
Inside(t, p) ==
    \A r \in 1..Len(p) : \A d \in 1..Len(t) :
        d > p[r] => Len(t[d].path) >= r /\ \A j \in 1..r : t[d].path[j] = p[j]
\* ... and that these are what has not ended.
Open(t, p) == \A d \in 1..Len(t) : t[d].opens => (EndIn(t, d) = 0 <=> \E r \in 1..Len(p) : p[r] = d)
TextRight(t, p) ==
    /\ Sequence(t) /\ p \in Seq(Nat) /\ \A d \in 1..Len(t) : Written(t[d])
    /\ Backwards(t) /\ WellPlaced(t, p) /\ Inside(t, p) /\ Open(t, p)

\* Where the block that ends was opened, and that what is inside it is seen no more.
Closing(t, p, s) == p # << >> /\ Ends(s) /\ Written(s) /\ s.path = Front(p)

----------------------------------------------------------------------------
(* The snapshots at the begin of each open block and that of now: C.       *)

VarsIn(t, D) == {VarAt(t[d].name, d) : d \in D}

Stacks == Seq(Seq(Snaps))
\* From what was there when block b was opened comes what is there inside it.
Leads(S, T, t, b) ==
    \E vs \in Seq(Vars) : T = AddS(After(S, t[b].kind, t[b].name, b), vs)
Linked(C, t, p, r) ==
    /\ Shows(C[r], VarsIn(t, SeenBy(t, p[r] - 1, t[p[r]].path)))
    /\ Leads(C[r], C[r + 1], t, p[r])
StackLinks(C, t, p) ==
    /\ C \in Stacks /\ Len(C) = Len(p) + 1 /\ Len(C[1]) = 1
    /\ \A r \in 1..Len(C) : C[r] # << >>
    /\ \A r \in 1..Len(p) : Linked(C, t, p, r)

\* The snapshot of now, S, shows the variables that are seen now.
ChainOf(C, t, p, S) == StackLinks(C, t, p) /\ Last(C) = S /\ Shows(S, VarsIn(t, SeenBy(t, Len(t), p)))

----------------------------------------------------------------------------
(* The invariant.                                                          *)

\* What the name of statement q of the text t stands for.
MeansOf(t, q) ==
    LET D == {d \in SeenBy(t, q - 1, t[q].path) : t[d].name = t[q].name} IN IF D = {} THEN 0 ELSE Max(D)
NamesIn(t, f) == t # << >> /\ Last(t).kind = "use" => f = MeansOf(t, Len(t))

\* The parser P that has read the text t, with the open blocks p.
Known(P, t, p) == TextRight(t, p) /\ \E S : Reads(P, S) /\ \E C : ChainOf(C, t, p, S)

ScopesInv ==
    /\ NamesResolved
    /\ Fine(ls) /\ ls.fs # << >> => Known(ls, text, Path)

\* The open blocks after the statement s.
PathAfter(t, s) == IF s.opens THEN Append(s.path, Len(t) + 1) ELSE s.path

\* The parser before the main function is opened.
Started(P) ==
    \E jump, closes :
        P = [fs |-> << >>, label |-> << >>, gt |-> << >>, jump |-> jump, closes |-> closes, error |-> ""]

----------------------------------------------------------------------------
(* The steps of the parser.                                                *)

Stepped(s, Q) == Fine(ls) /\ ls.fs # << >> /\ text' = Append(text, s) /\ ls' = Q
=============================================================================
