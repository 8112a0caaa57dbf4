----------------------------- MODULE LuaProofs -----------------------------
(***************************************************************************)
(* Proofs about LuaTable, for any names, indices, hashes and sizes: a      *)
(* table is the map of what was assigned to it, its length is a border,    *)
(* and a traversal visits each field once.  Then about LuaScopes, for any  *)
(* text: each name stands for the variable that the text means.            *)
(***************************************************************************)
EXTENDS LuaInvariants, FiniteSetTheorems, SequenceTheorems, WellFoundedInduction, TLAPS

----------------------------------------------------------------------------
(* Numbers.                                                                *)

\* A set of natural numbers that is not empty has a least one.
LEMMA LeastExists ==
    ASSUME NEW S, S \subseteq Nat, S # {}
    PROVE  \E d \in S : \A c \in S : d <= c
  <1>1. PICK R : R = OpToRel(<, Nat) /\ IsWellFoundedOn(R, Nat)
    BY NatLessThanWellFounded
  <1>2. \A a, b \in Nat : a < b => <<a, b>> \in R
    BY <1>1 DEF OpToRel
  <1>3. PICK d \in S : \A c \in S : ~(<<c, d>> \in R)
    BY <1>1, WFMin
  <1>4. ASSUME NEW c \in S PROVE d <= c
    <2>1. c \in Nat /\ d \in Nat /\ ~(c < d)
      BY <1>2, <1>3
    <2> QED BY <2>1
  <1> QED BY <1>4

LEMMA MinIs ==
    ASSUME NEW S, S \subseteq Nat, S # {}
    PROVE  Min(S) \in S /\ \A c \in S : Min(S) <= c
  <1>1. \E d \in S : \A c \in S : d <= c
    BY LeastExists
  <1> QED BY <1>1 DEF Min

LEMMA MaxIs ==
    ASSUME NEW n \in Nat, NEW S, S \subseteq 0..n, S # {}
    PROVE  Max(S) \in S /\ \A c \in S : c <= Max(S)
  <1>1. PICK T : T = {n - d : d \in S}  OBVIOUS
  <1>2. T \subseteq Nat /\ T # {}
    <2>1. \A d \in S : n - d \in Nat  OBVIOUS
    <2> QED BY <1>1, <2>1
  <1>3. PICK x \in T : \A c \in T : x <= c
    BY <1>2, LeastExists
  <1>4. PICK d \in S : x = n - d
    BY <1>1
  <1>5. ASSUME NEW c \in S PROVE d >= c
    <2>1. n - c \in T
      BY <1>1
    <2>2. n - d <= n - c
      BY <1>3, <1>4, <2>1
    <2>3. c \in Int /\ d \in Int  OBVIOUS
    <2> QED BY <2>2, <2>3
  <1>6. \E m \in S : \A c \in S : m >= c
    BY <1>5
  <1>7. Max(S) \in S /\ \A c \in S : Max(S) >= c
    BY <1>6 DEF Max
  <1>8. \A c \in S : c \in Int  OBVIOUS
  <1> QED BY <1>7, <1>8

\* A power of two is positive, and greater than its exponent.
LEMMA TwoToExceeds ==
    ASSUME NEW n \in Nat
    PROVE  TwoTo(n) \in Nat /\ TwoTo(n) > n
  <1> DEFINE IsPower(power, d) == power = [i \in 0..d |-> IF i = 0 THEN 1 ELSE 2 * power[i - 1]]
             Bad == {d \in 0..n : ~ \E power : IsPower(power, d)}
  <1>1. Bad = {}
    <2>1. SUFFICES ASSUME Bad # {} PROVE FALSE  OBVIOUS
    <2>2. Bad \subseteq Nat  OBVIOUS
    <2>3. PICK d \in Bad : \A c \in Bad : d <= c
      <3> HIDE DEF Bad
      <3> QED BY <2>1, <2>2, LeastExists
    <2>4. CASE d = 0
      <3>1. IsPower([i \in 0..0 |-> 1], 0)  OBVIOUS
      <3> QED BY <2>4, <3>1
    <2>5. CASE d # 0
      <3>0. d \in 0..n /\ d - 1 \in 0..n /\ ~(d <= d - 1)
        BY <2>5
      <3>1. d - 1 \notin Bad
        BY <2>3, <3>0
      <3>2. PICK power : IsPower(power, d - 1)
        BY <3>0, <3>1
      <3>3. PICK more : more = [i \in 0..d |-> IF i = d THEN 2 * power[d - 1] ELSE power[i]]  OBVIOUS
      <3>4. ASSUME NEW i \in 0..d PROVE more[i] = IF i = 0 THEN 1 ELSE 2 * more[i - 1]
        <4>1. CASE i = d
          BY <2>5, <3>3, <4>1
        <4>2. CASE i # d
          <5>1. i \in 0..(d - 1)
            BY <4>2
          <5>2. power[i] = IF i = 0 THEN 1 ELSE 2 * power[i - 1]
            BY <3>2, <5>1
          <5>3. more[i] = power[i]
            BY <3>3, <4>2
          <5>4. CASE i = 0
            BY <5>2, <5>3, <5>4
          <5>5. CASE i # 0
            <6>1. i - 1 \in 0..d /\ i - 1 # d
              BY <5>1, <5>5
            <6>2. more[i - 1] = power[i - 1]
              BY <3>3, <6>1
            <6> QED BY <5>2, <5>3, <5>5, <6>2
          <5> QED BY <5>4, <5>5
        <4> QED BY <4>1, <4>2
      <3>5. DOMAIN more = 0..d /\ more = [i \in DOMAIN more |-> more[i]]
        BY <3>3
      <3>6. IsPower(more, d)
        BY <3>4, <3>5
      <3> QED BY <3>6
    <2> QED BY <2>4, <2>5
  <1>2. PICK power : IsPower(power, n) /\ TwoTo(n) = power[n]
    <2>1. n \notin Bad
      BY <1>1
    <2>2. \E power : IsPower(power, n)
      BY <2>1
    <2>3. IsPower(CHOOSE power : IsPower(power, n), n)
      BY <2>2
    <2>4. TwoTo(n) = (CHOOSE power : IsPower(power, n))[n]
      BY DEF TwoTo
    <2> QED BY <2>3, <2>4
  <1>3. power[0] = 1 /\ \A i \in 1..n : power[i] = 2 * power[i - 1]
    BY <1>2
  <1> DEFINE Low == {i \in 0..n : ~ (power[i] \in Nat /\ power[i] > i)}
  <1>4. Low = {}
    <2>1. SUFFICES ASSUME Low # {} PROVE FALSE  OBVIOUS
    <2>2. Low \subseteq Nat  OBVIOUS
    <2>3. PICK d \in Low : \A c \in Low : d <= c
      <3> HIDE DEF Low
      <3> QED BY <2>1, <2>2, LeastExists
    <2>4. d # 0
      BY <1>3, <2>3
    <2>5. d - 1 \in 0..n /\ d - 1 \notin Low
      BY <2>3, <2>4
    <2>6. power[d - 1] \in Nat /\ power[d - 1] > d - 1
      BY <2>5
    <2>7. power[d] = 2 * power[d - 1]
      BY <1>3, <2>4
    <2>8. d \in Nat  OBVIOUS
    <2>9. \A q \in Nat : q > d - 1 => 2 * q \in Nat /\ 2 * q > d
      BY <2>4, <2>8
    <2>10. power[d] \in Nat /\ power[d] > d
      BY <2>6, <2>7, <2>9
    <2> QED BY <2>10
  <1>5. n \in 0..n /\ n \notin Low
    BY <1>4
  <1> QED BY <1>2, <1>5

LEMMA CeilLog2Is ==
    ASSUME NEW x \in Nat
    PROVE  CeilLog2(x) \in 0..x /\ x <= TwoTo(CeilLog2(x))
  <1>1. PICK S : S = {i \in 0..x : x <= TwoTo(i)}  OBVIOUS
  <1>2. x \in S
    <2>1. TwoTo(x) \in Nat /\ TwoTo(x) > x
      BY TwoToExceeds
    <2> QED BY <1>1, <2>1
  <1>3. S \subseteq Nat
    BY <1>1
  <1>4. CeilLog2(x) = Min(S)
    BY <1>1 DEF CeilLog2
  <1>5. Min(S) \in S
    BY <1>2, <1>3, MinIs
  <1> QED BY <1>1, <1>4, <1>5

----------------------------------------------------------------------------
(* Loops.                                                                  *)

\* Whatever F and stop are, there is a function that a loop can be: what is in
\* stop and in all sets that have x and the one after each that is not in stop.
LEMMA WhileIs ==
    ASSUME NEW S, NEW Goes \in [S -> S], NEW stop
    PROVE  \A x \in S : While(Goes, stop)[x] = IF x \in stop THEN x ELSE While(Goes, stop)[Goes[x]]
  <1> DEFINE Stays(C) == \A z \in C : z \notin stop => Goes[z] \in C
             LastStep(x) == {y \in S : y \in stop /\ \A C \in SUBSET S : x \in C /\ Stays(C) => y \in C}
             IsLoop(from) == from = [x \in S |-> IF x \in stop THEN x ELSE from[Goes[x]]]
  <1>1. ASSUME NEW x \in S, x \in stop PROVE LastStep(x) = {x}
    <2>1. {x} \in SUBSET S /\ Stays({x})
      BY <1>1
    <2>2. \A y \in LastStep(x) : y = x
      BY <2>1
    <2>3. x \in LastStep(x)
      BY <1>1
    <2> QED BY <2>2, <2>3
  <1>2. ASSUME NEW x \in S, x \notin stop PROVE LastStep(x) = LastStep(Goes[x])
    <2>1. ASSUME NEW y \in LastStep(x) PROVE y \in LastStep(Goes[x])
      <3>1. ASSUME NEW C \in SUBSET S, Goes[x] \in C, Stays(C) PROVE y \in C
        <4>1. C \union {x} \in SUBSET S /\ Stays(C \union {x})
          BY <3>1
        <4>2. y \in C \union {x}
          BY <4>1
        <4>3. y # x
          BY <1>2
        <4> QED BY <4>2, <4>3
      <3> QED BY <3>1
    <2>2. ASSUME NEW y \in LastStep(Goes[x]) PROVE y \in LastStep(x)
      <3>1. ASSUME NEW C \in SUBSET S, x \in C, Stays(C) PROVE y \in C
        <4>1. Goes[x] \in C
          BY <1>2, <3>1
        <4> QED BY <3>1, <4>1
      <3> QED BY <3>1
    <2> QED BY <2>1, <2>2
  <1>3. PICK from : from = [x \in S |-> CHOOSE y : y \in LastStep(x)]  OBVIOUS
  <1>4. ASSUME NEW x \in S PROVE from[x] = IF x \in stop THEN x ELSE from[Goes[x]]
    <2>1. from[x] = CHOOSE y : y \in LastStep(x)
      BY <1>3
    <2>2. CASE x \in stop
      <3>1. LastStep(x) = {x}
        BY <1>1, <2>2
      <3>2. (CHOOSE y : y \in {x}) = x  OBVIOUS
      <3>3. from[x] = CHOOSE y : y \in {x}
        BY <2>1, <3>1
      <3> QED BY <2>2, <3>2, <3>3
    <2>3. CASE x \notin stop
      <3>1. Goes[x] \in S  OBVIOUS
      <3>2. from[Goes[x]] = CHOOSE y : y \in LastStep(Goes[x])
        BY <1>3, <3>1
      <3>3. LastStep(x) = LastStep(Goes[x])
        BY <1>2, <2>3
      <3> QED BY <2>1, <2>3, <3>2, <3>3
    <2> QED BY <2>2, <2>3
  <1>5. DOMAIN from = S /\ from = [x \in DOMAIN from |-> from[x]]
    BY <1>3
  <1>6. from = [x \in S |-> IF x \in stop THEN x ELSE from[Goes[x]]]
    BY <1>4, <1>5
  <1>7. IsLoop(CHOOSE f : IsLoop(f))
    BY <1>6
  <1>8. While(Goes, stop) = CHOOSE f : IsLoop(f)
    <2>1. DOMAIN Goes = S  OBVIOUS
    <2> QED BY <2>1 DEF While
  <1> HIDE DEF IsLoop
  <1>9. IsLoop(While(Goes, stop))
    BY <1>7, <1>8
  <1> QED BY <1>9 DEF IsLoop

\* A loop in which a natural number gets less ends, in stop.
LEMMA WhileEnds ==
    ASSUME NEW S, NEW Goes \in [S -> S], NEW stop, NEW rank \in [S -> Nat],
           \A x \in S : x \notin stop => rank[Goes[x]] < rank[x]
    PROVE  \A x \in S : While(Goes, stop)[x] \in stop
  <1> DEFINE Bad == {x \in S : While(Goes, stop)[x] \notin stop}
             Ranks == {rank[x] : x \in Bad}
  <1>1. SUFFICES ASSUME Bad # {} PROVE FALSE  OBVIOUS
  <1>2. Ranks \subseteq Nat /\ Ranks # {}
    BY <1>1
  <1>3. PICK r \in Ranks : \A c \in Ranks : r <= c
    <2> HIDE DEF Ranks
    <2> QED BY <1>2, LeastExists
  <1>4. PICK x \in Bad : r = rank[x]  OBVIOUS
  <1>5. While(Goes, stop)[x] = IF x \in stop THEN x ELSE While(Goes, stop)[Goes[x]]
    BY WhileIs
  <1>6. x \notin stop /\ While(Goes, stop)[Goes[x]] \notin stop /\ Goes[x] \in S
    BY <1>5
  <1>7. Goes[x] \in Bad /\ rank[Goes[x]] < rank[x]
    BY <1>6
  <1>8. rank[Goes[x]] \in Ranks
    BY <1>7
  <1>9. rank[x] <= rank[Goes[x]] /\ rank[x] \in Nat /\ rank[Goes[x]] \in Nat
    BY <1>3, <1>4, <1>6, <1>8
  <1> QED BY <1>7, <1>9

----------------------------------------------------------------------------
(* Nodes and chains.                                                       *)

LEMMA TableIs ==
    ASSUME NEW s \in Nat, NEW t \in TablesOf(s)
    PROVE  /\ t.array \in Seq(Cells) /\ t.lastfree \in 0..s /\ t.dead \subseteq Spots(s)
           /\ t.node \in NodesOf(s) /\ DOMAIN t.node = Spots(s)
           /\ SizeNode(t) = s /\ SizeArray(t) \in Nat
           /\ \A n \in Spots(s) : /\ t.node[n].key \in Cells /\ t.node[n].value \in Cells
                                  /\ t.node[n].next \in Spots(s) \union {NIL}
  <1>1. /\ t.array \in Seq(Cells) /\ t.lastfree \in 0..s /\ t.dead \subseteq Spots(s)
        /\ t.node \in NodesOf(s)
    BY DEF TablesOf
  <1>2. DOMAIN t.node = Spots(s)
    BY <1>1 DEF NodesOf
  <1>3. Cardinality(0..(s - 1)) = s
    <2>1. Cardinality(0..(s - 1)) = IF 0 > s - 1 THEN 0 ELSE (s - 1) - 0 + 1
      BY FS_Interval
    <2> QED BY <2>1
  <1>4. SizeNode(t) = s
    BY <1>2, <1>3 DEF SizeNode, Spots
  <1>5. SizeArray(t) \in Nat
    BY <1>1 DEF SizeArray
  <1>6. \A n \in Spots(s) : /\ t.node[n].key \in Cells /\ t.node[n].value \in Cells
                            /\ t.node[n].next \in Spots(s) \union {NIL}
    BY <1>1 DEF NodesOf
  <1> QED BY <1>1, <1>2, <1>4, <1>5, <1>6

\* NIL is no number, no node and no key.
LEMMA NilApart ==
    ASSUME NEW s \in Nat
    PROVE  NIL \notin Spots(s) /\ NIL \notin Keys /\ NIL \notin Nat /\ Spots(s) \subseteq Nat
  BY KeysAssumption DEF Spots

LEMMA IndexIs ==
    ASSUME NEW i \in Indices
    PROVE  i \in Keys /\ i \in 1..MaxInt /\ i \in Nat /\ i \notin Names
  BY KeysAssumption DEF Keys

LEMMA MainIs ==
    ASSUME NEW s \in Nat, s > 0, NEW k \in Names \union 1..(MaxInt + 1)
    PROVE  Main(s, k) \in Spots(s)
  <1>1. Hash[k] \in Nat
    BY KeysAssumption
  <1>2. PICK m \in Nat : m > 0 /\ m <= s /\ m = (IF k \in Names \/ s = 1 THEN s ELSE s - 1)  OBVIOUS
  <1>3. Hash[k] % m \in 0..(m - 1)
    BY <1>1, <1>2
  <1>4. Main(s, k) = Hash[k] % m
    BY <1>2 DEF Main
  <1> QED BY <1>2, <1>3, <1>4 DEF Spots

LEMMA KeyMain ==
    ASSUME NEW s \in Nat, s > 0, NEW k \in Keys
    PROVE  Main(s, k) \in Spots(s)
  <1>1. CASE k \in Names
    BY <1>1, MainIs
  <1>2. CASE k \in Indices
    <2>1. k \in 1..MaxInt /\ MaxInt \in Nat
      BY <1>2, KeysAssumption
    <2>2. k \in 1..(MaxInt + 1)
      BY <2>1
    <2> QED BY <2>2, MainIs
  <1> QED BY <1>1, <1>2 DEF Keys

LEMMA MainPositionIs ==
    ASSUME NEW s \in Nat, NEW t \in TablesOf(s), NEW k
    PROVE  MainPosition(t, k) = Main(s, k)
  <1>1. SizeNode(t) = s
    BY TableIs
  <1> QED BY <1>1 DEF MainPosition, Main

\* What a search along a chain finds.
LEMMA SearchIs ==
    ASSUME NEW s \in Nat, NEW t \in TablesOf(s), Ranked(t.node, t.dead, s),
           NEW hit, hit \subseteq Spots(s)
    PROVE  /\ Search(t, NIL, hit) = NIL
           /\ \A n \in Spots(s) :
                 /\ Search(t, n, hit) \in hit \union {NIL}
                 /\ n \in hit => Search(t, n, hit) = n
                 /\ n \notin hit => Search(t, n, hit) = Search(t, t.node[n].next, hit)
  <1> DEFINE S == Spots(s) \union {NIL}
             Goes == Links(t)
             stop == hit \union {NIL}
  <1>1. DOMAIN t.node = Spots(s) /\ \A n \in Spots(s) : t.node[n].next \in S
    BY TableIs
  <1>2. NIL \notin Spots(s) /\ Spots(s) \subseteq Nat
    BY NilApart
  <1>3. Goes = [n \in S |-> IF n = NIL THEN NIL ELSE t.node[n].next]
    BY <1>1 DEF Links
  <1>4. Goes \in [S -> S]
    BY <1>1, <1>3
  <1>5. PICK rank \in [Spots(s) -> Nat] : Downward(t.node, t.dead, s, rank)
    BY DEF Ranked
  <1>6. PICK up : up = [n \in S |-> IF n = NIL THEN 0 ELSE rank[n] + 1]  OBVIOUS
  <1>7. up \in [S -> Nat]
    <2>1. \A n \in Spots(s) : rank[n] + 1 \in Nat  OBVIOUS
    <2> QED BY <1>6, <2>1
  <1>8. ASSUME NEW n \in S, n \notin stop PROVE up[Goes[n]] < up[n]
    <2>1. n \in Spots(s) /\ n # NIL /\ Goes[n] = t.node[n].next /\ Goes[n] \in S
      BY <1>1, <1>3, <1>8
    <2>2. up[n] = rank[n] + 1 /\ rank[n] \in Nat
      BY <1>6, <2>1
    <2>3. CASE Goes[n] = NIL
      BY <1>6, <2>1, <2>2, <2>3
    <2>4. CASE Goes[n] # NIL
      <3>1. rank[Goes[n]] < rank[n]
        BY <1>5, <2>1, <2>4 DEF Downward
      <3>2. Goes[n] \in Spots(s) /\ rank[Goes[n]] \in Nat /\ up[Goes[n]] = rank[Goes[n]] + 1
        BY <1>6, <2>1, <2>4
      <3> QED BY <2>2, <3>1, <3>2
    <2> QED BY <2>3, <2>4
  <1> HIDE DEF Goes, S, stop
  <1>9. \A x \in S : While(Goes, stop)[x] = IF x \in stop THEN x ELSE While(Goes, stop)[Goes[x]]
    BY <1>4, WhileIs
  <1>10. \A x \in S : While(Goes, stop)[x] \in stop
    BY <1>4, <1>7, <1>8, WhileEnds
  <1>11. \A n : Search(t, n, hit) = While(Goes, stop)[n]
    BY DEF Search, Goes, stop
  <1>12. NIL \in S /\ Spots(s) \subseteq S
    BY DEF S
  <1>13. Search(t, NIL, hit) = NIL
    BY <1>9, <1>11, <1>12 DEF stop
  <1>14. ASSUME NEW n \in Spots(s)
         PROVE  /\ Search(t, n, hit) \in hit \union {NIL}
                /\ n \in hit => Search(t, n, hit) = n
                /\ n \notin hit => Search(t, n, hit) = Search(t, t.node[n].next, hit)
    <2>1. n \in S /\ n # NIL
      BY <1>2, <1>12
    <2>2. Goes[n] = t.node[n].next
      BY <1>3, <2>1
    <2>3. Search(t, n, hit) \in hit \union {NIL}
      BY <1>10, <1>11, <2>1 DEF stop
    <2>4. n \in hit => Search(t, n, hit) = n
      BY <1>9, <1>11, <2>1 DEF stop
    <2>5. ASSUME n \notin hit PROVE Search(t, n, hit) = Search(t, t.node[n].next, hit)
      <3>1. n \notin stop
        BY <2>1, <2>5 DEF stop
      <3> QED BY <1>9, <1>11, <2>1, <2>2, <3>1
    <2> QED BY <2>3, <2>4, <2>5
  <1> QED BY <1>13, <1>14

\* A search finds something if something that it looks for is on the chain.
LEMMA SearchFinds ==
    ASSUME NEW s \in Nat, NEW t \in TablesOf(s), Ranked(t.node, t.dead, s),
           NEW hit, hit \subseteq Spots(s), NEW x \in hit,
           NEW n \in Spots(s), Behind(t.node, s, n, x)
    PROVE  Search(t, n, hit) \in hit
  <1> DEFINE C == {z \in Spots(s) : Search(t, z, hit) = NIL}
  <1>1. /\ Search(t, NIL, hit) = NIL
        /\ \A z \in Spots(s) :
              /\ Search(t, z, hit) \in hit \union {NIL}
              /\ z \in hit => Search(t, z, hit) = z
              /\ z \notin hit => Search(t, z, hit) = Search(t, t.node[z].next, hit)
    BY SearchIs
  <1>2. NIL \notin Spots(s)
    BY NilApart
  <1>3. \A z \in Spots(s) : t.node[z].next \in Spots(s) \union {NIL}
    BY TableIs
  <1>4. SUFFICES ASSUME Search(t, n, hit) = NIL PROVE FALSE
    BY <1>1
  <1>5. Closed(t.node, C)
    <2>1. ASSUME NEW z \in C PROVE t.node[z].next \in C \union {NIL}
      <3>1. z \notin hit
        BY <1>1, <1>2
      <3>2. Search(t, t.node[z].next, hit) = NIL
        BY <1>1, <3>1
      <3> QED BY <1>3, <3>2
    <2> QED BY <2>1 DEF Closed
  <1>6. C \in SUBSET Spots(s) /\ n \in C
    BY <1>4
  <1>7. x \in C
    <2> HIDE DEF C
    <2> QED BY <1>5, <1>6 DEF Behind
  <1> QED BY <1>1, <1>2, <1>7

\* The node of a key is the one that has it, among those whose keys are not dead.
LEMMA NodeOfIs ==
    ASSUME NEW s \in Nat, NEW t \in TablesOf(s), Chains(t.node, t.dead, s),
           NEW k \in Names \union 1..(MaxInt + 1)
    PROVE  /\ NodeOf(t, k) # NIL => NodeOf(t, k) \in Spots(s) \ t.dead /\ t.node[NodeOf(t, k)].key = k
           /\ \A x \in Spots(s) \ t.dead : t.node[x].key = k => NodeOf(t, k) = x
  <1> DEFINE hit == Holders(t, k, FALSE)
  <1>1. SizeNode(t) = s /\ DOMAIN t.node = Spots(s)
    BY TableIs
  <1>2. hit = {n \in Spots(s) : t.node[n].key = k /\ n \notin t.dead}
    BY <1>1, Zenon DEF Holders
  <1>3. CASE s = 0
    <2>1. NodeOf(t, k) = NIL
      BY <1>1, <1>3 DEF NodeOf, OnChain
    <2>2. Spots(s) = {}
      BY <1>3 DEF Spots
    <2> QED BY <2>1, <2>2
  <1>4. CASE s # 0
    <2>1. s > 0
      BY <1>4
    <2>2. PICK m \in Spots(s) : m = Main(s, k)
      BY <2>1, MainIs
    <2>3. NodeOf(t, k) = Search(t, m, hit)
      <3>1. MainPosition(t, k) = m
        BY <2>2, MainPositionIs
      <3> QED BY <1>1, <1>4, <3>1 DEF NodeOf, OnChain
    <2>4. hit \subseteq Spots(s)
      BY <1>2
    <2>5. Ranked(t.node, t.dead, s) /\ OnItsChain(t.node, s) /\ KeyOnce(t.node, t.dead, s)
      BY DEF Chains
    <2>6. NodeOf(t, k) \in hit \union {NIL}
      <3> HIDE DEF hit
      <3> QED BY <2>3, <2>4, <2>5, SearchIs
    <2>7. k # NIL
      BY KeysAssumption DEF Keys
    <2>8. ASSUME NEW x \in Spots(s) \ t.dead, t.node[x].key = k PROVE NodeOf(t, k) = x
      <3>1. x \in hit
        BY <1>2, <2>8
      <3>2. Behind(t.node, s, m, x)
        BY <2>2, <2>5, <2>7, <2>8 DEF OnItsChain
      <3>3. NodeOf(t, k) \in hit
        <4> HIDE DEF hit
        <4> QED BY <2>3, <2>4, <2>5, <3>1, <3>2, SearchFinds
      <3>4. NodeOf(t, k) \in Spots(s) \ t.dead /\ t.node[NodeOf(t, k)].key = k
        BY <1>2, <3>3
      <3> QED BY <2>5, <2>7, <2>8, <3>4 DEF KeyOnce
    <2>9. NodeOf(t, k) # NIL => NodeOf(t, k) \in Spots(s) \ t.dead /\ t.node[NodeOf(t, k)].key = k
      BY <1>2, <2>6
    <2> QED BY <2>8, <2>9
  <1> QED BY <1>3, <1>4

\* With dead keys too, the one that is not dead comes first.
LEMMA OnChainIs ==
    ASSUME NEW s \in Nat, NEW t \in TablesOf(s), Chains(t.node, t.dead, s),
           NEW k \in Keys
    PROVE  /\ OnChain(t, k, TRUE) # NIL => OnChain(t, k, TRUE) \in Spots(s) /\ t.node[OnChain(t, k, TRUE)].key = k
           /\ \A x \in Spots(s) \ t.dead : t.node[x].key = k => OnChain(t, k, TRUE) = x
  <1> DEFINE hit == Holders(t, k, TRUE)
  <1>1. SizeNode(t) = s /\ DOMAIN t.node = Spots(s)
    BY TableIs
  <1>2. hit = {n \in Spots(s) : t.node[n].key = k}
    BY <1>1, Zenon DEF Holders
  <1>3. CASE s = 0
    <2>1. OnChain(t, k, TRUE) = NIL
      BY <1>1, <1>3 DEF OnChain
    <2>2. Spots(s) = {}
      BY <1>3 DEF Spots
    <2> QED BY <2>1, <2>2
  <1>4. CASE s # 0
    <2>1. s > 0
      BY <1>4
    <2>2. PICK m \in Spots(s) : m = Main(s, k)
      BY <2>1, KeyMain
    <2>3. PICK y : y = OnChain(t, k, TRUE) /\ y = Search(t, m, hit)
      <3>1. MainPosition(t, k) = m
        BY <2>2, MainPositionIs
      <3> QED BY <1>1, <1>4, <3>1 DEF OnChain
    <2>4. hit \subseteq Spots(s)
      BY <1>2
    <2>5. Ranked(t.node, t.dead, s) /\ OnItsChain(t.node, s) /\ KeyOnce(t.node, t.dead, s)
      BY DEF Chains
    <2>6. /\ y \in hit \union {NIL}
          /\ \A n \in Spots(s) :
                 /\ n \in hit => Search(t, n, hit) = n
                 /\ n \notin hit => Search(t, n, hit) = Search(t, t.node[n].next, hit)
          /\ Search(t, NIL, hit) = NIL
      <3> HIDE DEF hit
      <3>1. /\ Search(t, NIL, hit) = NIL
            /\ \A n \in Spots(s) :
                 /\ Search(t, n, hit) \in hit \union {NIL}
                 /\ n \in hit => Search(t, n, hit) = n
                 /\ n \notin hit => Search(t, n, hit) = Search(t, t.node[n].next, hit)
        BY <2>4, <2>5, SearchIs
      <3> QED BY <2>3, <3>1
    <2>7. k # NIL /\ NIL \notin Spots(s)
      BY KeysAssumption, NilApart
    <2>8. ASSUME NEW x \in Spots(s) \ t.dead, t.node[x].key = k PROVE y = x
      <3>1. x \in hit
        BY <1>2, <2>8
      <3>2. Behind(t.node, s, m, x)
        BY <2>2, <2>5, <2>7, <2>8 DEF OnItsChain
      <3>3. y \in hit
        <4> HIDE DEF hit
        <4> QED BY <2>3, <2>4, <2>5, <3>1, <3>2, SearchFinds
      <3>4. PICK rank \in [Spots(s) -> Nat] : Downward(t.node, t.dead, s, rank)
        BY <2>5 DEF Ranked
      <3>5. SUFFICES ASSUME y # x PROVE FALSE  OBVIOUS
      <3>6. y \in t.dead
        <4>1. y \in Spots(s) /\ t.node[y].key = t.node[x].key /\ t.node[y].key # NIL
          BY <1>2, <2>7, <2>8, <3>3
        <4> HIDE DEF hit
        <4> QED BY <2>5, <2>8, <3>5, <4>1 DEF KeyOnce
      <3>7. rank[y] < rank[x]
        BY <1>2, <2>8, <3>3, <3>4, <3>6 DEF Downward
      <3> DEFINE C == {z \in Spots(s) : Search(t, z, hit) = y \/ rank[z] < rank[y]}
      <3>8. ASSUME NEW z \in C PROVE t.node[z].next \in C \union {NIL}
        <4>1. z \in Spots(s) /\ t.node[z].next \in Spots(s) \union {NIL}
          BY TableIs
        <4>2. CASE t.node[z].next = NIL
          BY <4>2
        <4>3. CASE t.node[z].next # NIL
          <5>1. t.node[z].next \in Spots(s) /\ rank[t.node[z].next] < rank[z]
            <6> HIDE DEF C
            <6> QED BY <3>4, <4>1, <4>3, Zenon DEF Downward
          <5>2. rank[t.node[z].next] \in Nat /\ rank[z] \in Nat /\ rank[y] \in Nat
            <6> HIDE DEF hit, C
            <6>1. y \in Spots(s)
              BY <2>4, <3>3
            <6> QED BY <4>1, <5>1, <6>1
          <5>3. CASE rank[z] < rank[y]
            <6>1. rank[t.node[z].next] < rank[y]
              <7> HIDE DEF hit, C
              <7> QED BY <5>1, <5>2, <5>3
            <6> QED BY <5>1, <6>1, Zenon
          <5>4. CASE Search(t, z, hit) = y /\ z \in hit
            <6>1. z = y
              <7> HIDE DEF hit
              <7> QED BY <2>6, <4>1, <5>4
            <6> QED BY <5>1, <5>2, <6>1
          <5>5. CASE Search(t, z, hit) = y /\ z \notin hit
            <6>1. Search(t, t.node[z].next, hit) = y
              <7> HIDE DEF hit
              <7> QED BY <2>6, <4>1, <5>5
            <6> QED BY <5>1, <6>1
          <5> QED BY <5>3, <5>4, <5>5
        <4> QED BY <4>2, <4>3
      <3>9. Closed(t.node, C)
        <4> HIDE DEF C
        <4> QED BY <3>8 DEF Closed
      <3>10. C \in SUBSET Spots(s) /\ m \in C
        BY <2>3
      <3>11. x \in C
        <4> HIDE DEF C
        <4> QED BY <3>2, <3>9, <3>10 DEF Behind
      <3>12. Search(t, x, hit) = x
        BY <2>6, <3>1
      <3>13. rank[x] < rank[y]
        BY <3>5, <3>11, <3>12
      <3>14. rank[x] \in Nat /\ rank[y] \in Nat
        BY <2>4, <3>3
      <3> QED BY <3>7, <3>13, <3>14
    <2>9. y # NIL => y \in Spots(s) /\ t.node[y].key = k
      BY <1>2, <2>6
    <2> QED BY <2>3, <2>8, <2>9
  <1> QED BY <1>3, <1>4

\* What luaH_get() reads.
LEMMA GetIs ==
    ASSUME NEW s \in Nat, NEW t \in TablesOf(s), Chains(t.node, t.dead, s),
           NEW k \in Names \union 1..(MaxInt + 1)
    PROVE  /\ InArray(t, k) => Get(t, k) = t.array[k]
           /\ ~InArray(t, k) =>
                /\ \A x \in Spots(s) \ t.dead : t.node[x].key = k => Get(t, k) = t.node[x].value
                /\ (\A x \in Spots(s) \ t.dead : t.node[x].key # k) => Get(t, k) = NIL
                /\ Get(t, k) # NIL => \E x \in Spots(s) \ t.dead : t.node[x].key = k /\ Get(t, k) = t.node[x].value
  <1>1. /\ NodeOf(t, k) # NIL => NodeOf(t, k) \in Spots(s) \ t.dead /\ t.node[NodeOf(t, k)].key = k
        /\ \A x \in Spots(s) \ t.dead : t.node[x].key = k => NodeOf(t, k) = x
    BY NodeOfIs
  <1>2. NIL \notin Spots(s)
    BY NilApart
  <1>3. InArray(t, k) => Get(t, k) = t.array[k]
    BY DEF Get
  <1>4. ~InArray(t, k) => Get(t, k) = IF NodeOf(t, k) = NIL THEN NIL ELSE t.node[NodeOf(t, k)].value
    BY DEF Get
  <1> QED BY <1>1, <1>2, <1>3, <1>4

----------------------------------------------------------------------------
(* A new key in a node.                                                    *)

\* What follows a node on its chain has a lower rank.
LEMMA BehindLower ==
    ASSUME NEW s \in Nat, NEW nd \in NodesOf(s), NEW dead,
           NEW rank \in [Spots(s) -> Nat], Downward(nd, dead, s, rank),
           NEW m \in Spots(s), NEW x \in Spots(s), Behind(nd, s, m, x), x # m
    PROVE  rank[x] < rank[m]
  <1> DEFINE C == {z \in Spots(s) : z = m \/ rank[z] < rank[m]}
  <1>1. ASSUME NEW z \in C PROVE nd[z].next \in C \union {NIL}
    <2>1. nd[z].next \in Spots(s) \union {NIL}
      BY DEF NodesOf
    <2>2. CASE nd[z].next # NIL
      <3>1. nd[z].next \in Spots(s) /\ rank[nd[z].next] < rank[z]
        BY <2>1, <2>2 DEF Downward
      <3>2. rank[nd[z].next] \in Nat /\ rank[z] \in Nat /\ rank[m] \in Nat
        BY <3>1
      <3>3. rank[z] <= rank[m]
        BY <3>2
      <3>4. rank[nd[z].next] < rank[m]
        BY <3>1, <3>2, <3>3
      <3> QED BY <3>1, <3>4
    <2> QED BY <2>1, <2>2
  <1>2. Closed(nd, C)
    <2> HIDE DEF C
    <2> QED BY <1>1 DEF Closed
  <1>3. m \in C /\ C \in SUBSET Spots(s)  OBVIOUS
  <1>4. x \in C
    <2> HIDE DEF C
    <2> QED BY <1>2, <1>3 DEF Behind
  <1> QED BY <1>4

LEMMA HoldingIs ==
    ASSUME NEW k, NEW v, NEW next
    PROVE  /\ Holding(k, v, next).key = k /\ Holding(k, v, next).value = v
           /\ Holding(k, v, next).next = next
  BY DEF Holding

LEMMA HoldingType ==
    ASSUME NEW s \in Nat, NEW k \in Cells, NEW v \in Cells, NEW next \in Spots(s) \union {NIL}
    PROVE  Holding(k, v, next) \in [key : Cells, value : Cells, next : Spots(s) \union {NIL}]
  BY DEF Holding

\* The key goes to its main position, which is not taken.
LEMMA FillSound ==
    ASSUME NEW s \in Nat, NEW t, Sound(t, s), NEW k, IsNew(t, s, k), NEW v \in Cells,
           NEW mp \in Spots(s), mp = Main(s, k), t.node[mp].value = NIL
    PROVE  Sound(Fill(t, mp, k, v), s) /\ Added(t, Fill(t, mp, k, v), s, k, v)
  <1> DEFINE u == Fill(t, mp, k, v)
             nd == t.node
  <1>1. t \in TablesOf(s) /\ Chains(nd, t.dead, s)
    BY DEF Sound
  <1>2. /\ nd \in NodesOf(s) /\ t.array \in Seq(Cells) /\ t.lastfree \in 0..s /\ t.dead \subseteq Spots(s)
        /\ \A n \in Spots(s) : nd[n].next \in Spots(s) \union {NIL}
    BY <1>1, TableIs
  <1>3. k \in Keys /\ k # NIL /\ k \in Cells
    BY NilApart DEF IsNew, Cells
  <1>4. PICK held : held = Holding(k, v, nd[mp].next)  OBVIOUS
  <1>5. held.key = k /\ held.value = v /\ held.next = nd[mp].next
    BY <1>4, HoldingIs
  <1>6. /\ u.array = t.array /\ u.lastfree = t.lastfree /\ u.dead = t.dead \ {mp}
        /\ u.node = [nd EXCEPT ![mp] = held]
        /\ u \in TablesOf(s)
    <2>1. held \in [key : Cells, value : Cells, next : Spots(s) \union {NIL}]
      BY <1>2, <1>3, <1>4, HoldingType
    <2>2. [nd EXCEPT ![mp] = held] \in NodesOf(s)
      BY <1>2, <2>1 DEF NodesOf
    <2>3. u = [t EXCEPT !.node = [nd EXCEPT ![mp] = held], !.dead = t.dead \ {mp}]
      BY <1>1, <1>4 DEF Fill, TablesOf
    <2> HIDE DEF u
    <2>4. t.dead \ {mp} \in SUBSET Spots(s)
      BY <1>2
    <2> QED BY <1>1, <2>2, <2>3, <2>4 DEF TablesOf
  <1> DEFINE nu == u.node
  <1>7. /\ nu[mp] = held /\ nu \in NodesOf(s)
        /\ \A x \in Spots(s) : x # mp => nu[x] = nd[x]
        /\ \A x \in Spots(s) : nu[x].next = nd[x].next
    <2>1. nu \in NodesOf(s)
      BY <1>6 DEF TablesOf
    <2> QED BY <1>2, <1>5, <1>6, <2>1 DEF NodesOf
  <1> HIDE DEF u, nu
  <1>8. \A C \in SUBSET Spots(s) : Closed(nu, C) <=> Closed(nd, C)
    BY <1>7 DEF Closed
  <1>9. \A m, x \in Spots(s) : Behind(nu, s, m, x) <=> Behind(nd, s, m, x)
    BY <1>8 DEF Behind
  <1>10. \A x \in Spots(s) \ t.dead : nd[x].key # k
    BY DEF IsNew
  <1>11. FreeApart(nu, s)
    <2>1. FreeApart(nd, s)
      BY <1>1 DEF Chains
    <2> QED BY <1>3, <1>5, <1>7, <2>1 DEF FreeApart
  <1>12. NextOnce(nu, s)
    <2>1. NextOnce(nd, s)
      BY <1>1 DEF Chains
    <2> QED BY <1>7, <2>1 DEF NextOnce
  <1>13. ASSUME NEW n \in Spots(s), nd[n].key # NIL
         PROVE  Main(s, nd[n].key) \in Spots(s)
    <2>1. s > 0
      BY DEF Spots
    <2>2. nd[n].key \in Keys
      BY <1>2, <1>13 DEF NodesOf, Cells
    <2> QED BY <2>1, <2>2, KeyMain
  <1>14. OnItsChain(nu, s)
    <2>1. OnItsChain(nd, s)
      BY <1>1 DEF Chains
    <2>2. Behind(nu, s, mp, mp)
      BY DEF Behind
    <2>3. ASSUME NEW n \in Spots(s), nu[n].key # NIL PROVE Behind(nu, s, Main(s, nu[n].key), n)
      <3>1. CASE n = mp
        BY <1>5, <1>7, <2>2, <3>1
      <3>2. CASE n # mp
        <4>1. nu[n] = nd[n]
          BY <1>7, <3>2
        <4>2. Behind(nd, s, Main(s, nd[n].key), n)
          BY <2>1, <2>3, <4>1 DEF OnItsChain
        <4> QED BY <1>9, <1>13, <2>3, <4>1, <4>2
      <3> QED BY <3>1, <3>2
    <2> QED BY <2>3 DEF OnItsChain
  <1>15. MainOwned(nu, s)
    <2>1. MainOwned(nd, s)
      BY <1>1 DEF Chains
    <2>2. ASSUME NEW n \in Spots(s), nu[n].key # NIL, NEW m, m = Main(s, nu[n].key)
          PROVE  nu[m].key # NIL /\ Main(s, nu[m].key) = m
      <3>1. CASE m = mp
        BY <1>3, <1>5, <1>7, <3>1
      <3>2. CASE m # mp
        <4>1. n # mp
          BY <1>5, <1>7, <2>2, <3>2
        <4>2. nd[n].key # NIL /\ m = Main(s, nd[n].key)
          BY <1>7, <2>2, <4>1
        <4>3. nd[m].key # NIL /\ Main(s, nd[m].key) = m
          BY <2>1, <4>2 DEF MainOwned
        <4>4. m \in Spots(s)
          BY <1>13, <4>2
        <4> QED BY <1>7, <3>2, <4>3, <4>4
      <3> QED BY <3>1, <3>2
    <2> QED BY <2>2 DEF MainOwned
  <1>16. DeadEmpty(nu, u.dead)
    <2>1. DeadEmpty(nd, t.dead)
      BY <1>1 DEF Chains
    <2> QED BY <1>2, <1>6, <1>7, <2>1 DEF DeadEmpty
  <1>17. KeyOnce(nu, u.dead, s)
    <2>1. KeyOnce(nd, t.dead, s)
      BY <1>1 DEF Chains
    <2>2. ASSUME NEW x \in Spots(s) \ u.dead, NEW y \in Spots(s) \ u.dead,
                 nu[x].key = nu[y].key, nu[x].key # NIL, x # y
          PROVE  FALSE
      <3>1. x # mp => x \notin t.dead /\ nu[x] = nd[x]
        BY <1>6, <1>7
      <3>2. y # mp => y \notin t.dead /\ nu[y] = nd[y]
        BY <1>6, <1>7
      <3>3. CASE x = mp
        BY <1>5, <1>7, <1>10, <2>2, <3>2, <3>3
      <3>4. CASE y = mp
        BY <1>5, <1>7, <1>10, <2>2, <3>1, <3>4
      <3>5. CASE x # mp /\ y # mp
        BY <2>1, <2>2, <3>1, <3>2, <3>5 DEF KeyOnce
      <3> QED BY <3>3, <3>4, <3>5
    <2> QED BY <2>2 DEF KeyOnce
  <1>18. Ranked(nu, u.dead, s)
    <2>1. PICK rank \in [Spots(s) -> Nat] : Downward(nd, t.dead, s, rank)
      BY <1>1 DEF Chains, Ranked
    <2>2. \A x \in Spots(s) : nu[x].next # NIL => rank[nu[x].next] < rank[x]
      BY <1>7, <2>1 DEF Downward
    <2>3. ASSUME NEW x \in Spots(s) \ u.dead, NEW d \in u.dead, nu[x].key = nu[d].key
          PROVE  rank[d] < rank[x]
      <3>1. d \in t.dead /\ d # mp /\ d \in Spots(s) /\ nu[d] = nd[d]
        BY <1>2, <1>6, <1>7
      <3>2. CASE x = mp
        <4>1. nd[d].key = k
          BY <1>5, <1>7, <2>3, <3>1, <3>2
        <4>2. Behind(nd, s, mp, d)
          BY <1>1, <1>3, <3>1, <4>1 DEF Chains, OnItsChain
        <4> QED BY <1>2, <2>1, <3>1, <3>2, <4>2, BehindLower
      <3>3. CASE x # mp
        <4>1. x \notin t.dead /\ nu[x] = nd[x]
          BY <1>6, <1>7, <3>3
        <4> QED BY <2>1, <2>3, <3>1, <4>1 DEF Downward
      <3> QED BY <3>2, <3>3
    <2>4. Downward(nu, u.dead, s, rank)
      BY <2>2, <2>3 DEF Downward
    <2> QED BY <2>4 DEF Ranked
  <1>19. Chains(nu, u.dead, s)
    BY <1>11, <1>12, <1>14, <1>15, <1>16, <1>17, <1>18 DEF Chains
  <1>20. NoneFreeAbove(u, s)
    <2>1. NoneFreeAbove(t, s)
      BY DEF Sound
    <2>2. ASSUME NEW n \in Spots(s), n >= u.lastfree PROVE nu[n].key # NIL
      BY <1>3, <1>5, <1>6, <1>7, <2>1, <2>2 DEF NoneFreeAbove
    <2> QED BY <2>2 DEF NoneFreeAbove, nu
  <1>21. ArrayFirst(u, s)
    <2>1. ArrayFirst(t, s)
      BY DEF Sound
    <2>2. \A j : InArray(u, j) <=> InArray(t, j)
      BY <1>6 DEF InArray, SizeArray
    <2>3. ~InArray(t, k)
      BY DEF IsNew
    <2>4. ASSUME NEW n \in Spots(s), nu[n].key # NIL PROVE ~InArray(u, nu[n].key)
      BY <1>5, <1>7, <2>1, <2>2, <2>3, <2>4 DEF ArrayFirst
    <2> QED BY <2>4 DEF ArrayFirst, nu
  <1>22. ArrayOfIndices(u)
    BY <1>6 DEF Sound, ArrayOfIndices
  <1>23. Sound(u, s)
    BY <1>6, <1>19, <1>20, <1>21, <1>22 DEF Sound, nu
  <1>24. Added(t, u, s, k, v)
    <2>1. mp \in Spots(s) \ u.dead /\ nu[mp].key = k /\ nu[mp].value = v
      BY <1>5, <1>6, <1>7
    <2>2. ASSUME NEW x \in Spots(s) \ t.dead, nd[x].value # NIL
          PROVE  x \in Spots(s) \ u.dead /\ nu[x] = nd[x]
      BY <1>6, <1>7, <2>2
    <2>3. ASSUME NEW y \in Spots(s) \ u.dead, nu[y].key # k
          PROVE  y \in Spots(s) \ t.dead /\ nu[y] = nd[y]
      BY <1>5, <1>6, <1>7, <2>3
    <2> QED BY <1>6, <2>1, <2>2, <2>3 DEF Added, Same, nu
  <1> QED BY <1>23, <1>24 DEF u

\* A node whose value is not nil has a key that is not dead, and a free node is
\* neither the next of one nor dead.
LEMMA ValueMeansKey ==
    ASSUME NEW s \in Nat, NEW t, Sound(t, s), NEW x \in Spots(s), t.node[x].value # NIL
    PROVE  x \notin t.dead /\ t.node[x].key \in Keys
  <1>1. t \in TablesOf(s) /\ FreeApart(t.node, s) /\ DeadEmpty(t.node, t.dead)
    BY DEF Sound, Chains
  <1>2. t.node[x].key \in Cells /\ t.node[x].key # NIL
    BY <1>1, TableIs DEF FreeApart
  <1> QED BY <1>1, <1>2 DEF DeadEmpty, Cells

LEMMA KeyMains ==
    ASSUME NEW s \in Nat, NEW t, Sound(t, s), NEW x \in Spots(s), t.node[x].key # NIL
    PROVE  /\ t.node[x].key \in Keys
           /\ Main(s, t.node[x].key) \in Spots(s)
           /\ Behind(t.node, s, Main(s, t.node[x].key), x)
           /\ t.node[Main(s, t.node[x].key)].key # NIL
           /\ Main(s, t.node[Main(s, t.node[x].key)].key) = Main(s, t.node[x].key)
  <1>1. t \in TablesOf(s) /\ OnItsChain(t.node, s) /\ MainOwned(t.node, s)
    BY DEF Sound, Chains
  <1>2. t.node[x].key \in Keys
    BY <1>1, TableIs DEF Cells
  <1>3. s > 0
    BY DEF Spots
  <1> QED BY <1>1, <1>2, <1>3, KeyMain DEF OnItsChain, MainOwned

\* The key goes to the free node n, behind the one at its main position.
LEMMA FillBehindSound ==
    ASSUME NEW s \in Nat, NEW t, Sound(t, s), NEW k, IsNew(t, s, k), NEW v \in Cells,
           NEW mp \in Spots(s), mp = Main(s, k), t.node[mp].value # NIL,
           Main(s, t.node[mp].key) = mp,
           NEW n \in Spots(s), t.node[n].key = NIL,
           \A x \in Spots(s) : x > n => t.node[x].key # NIL
    PROVE  Sound(FillBehind(t, mp, n, k, v), s) /\ Added(t, FillBehind(t, mp, n, k, v), s, k, v)
  <1> DEFINE u == FillBehind(t, mp, n, k, v)
             nd == t.node
  <1>1. t \in TablesOf(s) /\ Chains(nd, t.dead, s)
    BY DEF Sound
  <1>2. /\ nd \in NodesOf(s) /\ t.array \in Seq(Cells) /\ t.lastfree \in 0..s /\ t.dead \subseteq Spots(s)
        /\ \A x \in Spots(s) : /\ nd[x].next \in Spots(s) \union {NIL}
                               /\ nd[x].key \in Cells /\ nd[x].value \in Cells
    BY <1>1, TableIs
  <1>3. k \in Keys /\ k # NIL /\ k \in Cells /\ NIL \notin Spots(s)
    BY NilApart DEF IsNew, Cells
  <1>4. mp \notin t.dead /\ nd[mp].key \in Keys /\ n \notin t.dead /\ n # mp /\ nd[mp].key # NIL
    <2>1. mp \notin t.dead /\ nd[mp].key \in Keys
      BY ValueMeansKey
    <2>2. n \notin t.dead
      BY <1>1 DEF Chains, DeadEmpty
    <2> QED BY <2>1, <2>2, NilApart
  <1>5. PICK held : held = Holding(k, v, nd[mp].next)  OBVIOUS
  <1>6. PICK head : head = Holding(nd[mp].key, nd[mp].value, n)  OBVIOUS
  <1>7. /\ held.key = k /\ held.value = v /\ held.next = nd[mp].next
        /\ head.key = nd[mp].key /\ head.value = nd[mp].value /\ head.next = n
    BY <1>5, <1>6, HoldingIs
  <1>8. /\ u.array = t.array /\ u.lastfree = n /\ u.dead = t.dead
        /\ u.node = [nd EXCEPT ![n] = held, ![mp] = head]
        /\ u \in TablesOf(s)
    <2>1. held \in [key : Cells, value : Cells, next : Spots(s) \union {NIL}]
      BY <1>2, <1>3, <1>5, HoldingType
    <2>2. head \in [key : Cells, value : Cells, next : Spots(s) \union {NIL}]
      BY <1>2, <1>6, HoldingType
    <2>3. [nd EXCEPT ![n] = held, ![mp] = head] \in NodesOf(s)
      BY <1>2, <2>1, <2>2 DEF NodesOf
    <2>4. u = [t EXCEPT !.lastfree = n, !.node = [nd EXCEPT ![n] = held, ![mp] = head]]
      BY <1>1, <1>5, <1>6 DEF FillBehind, TablesOf
    <2>5. n \in 0..s
      BY DEF Spots
    <2> HIDE DEF u
    <2> QED BY <1>1, <2>3, <2>4, <2>5 DEF TablesOf
  <1> DEFINE nu == u.node
  <1>9. /\ nu[n] = held /\ nu[mp] = head /\ nu \in NodesOf(s)
        /\ \A x \in Spots(s) : x # n /\ x # mp => nu[x] = nd[x]
    <2>1. nu \in NodesOf(s)
      BY <1>8 DEF TablesOf
    <2> QED BY <1>2, <1>4, <1>8, <2>1 DEF NodesOf
  <1> HIDE DEF u, nu
  <1>10. /\ nu[n].key = k /\ nu[n].value = v /\ nu[n].next = nd[mp].next /\ nu[mp].next = n
         /\ \A x \in Spots(s) : x # n => nu[x].key = nd[x].key /\ nu[x].value = nd[x].value
         /\ \A x \in Spots(s) : x # n /\ x # mp => nu[x].next = nd[x].next
    BY <1>7, <1>9
  <1>11. \A x \in Spots(s) : nd[x].next # n
    BY <1>1 DEF Chains, FreeApart
  <1>12. \A x \in Spots(s) \ t.dead : nd[x].key # k
    BY DEF IsNew
  <1>13. ASSUME NEW m \in Spots(s), NEW x \in Spots(s), m # n, x # n, Behind(nd, s, m, x)
         PROVE  Behind(nu, s, m, x)
    <2>1. SUFFICES ASSUME NEW C \in SUBSET Spots(s), m \in C, Closed(nu, C) PROVE x \in C
      BY DEF Behind
    <2>2. ASSUME NEW z \in C \ {n} PROVE nd[z].next \in (C \ {n}) \union {NIL}
      <3>1. nu[z].next \in C \union {NIL} /\ nd[z].next # n /\ z \in Spots(s)
        BY <1>11, <2>1 DEF Closed
      <3>2. CASE z = mp
        <4>1. n \in C
          BY <1>3, <1>10, <3>1, <3>2
        <4>2. nu[n].next \in C \union {NIL}
          BY <2>1, <4>1 DEF Closed
        <4> QED BY <1>10, <3>1, <3>2, <4>2
      <3>3. CASE z # mp
        BY <1>10, <3>1, <3>3
      <3> QED BY <3>2, <3>3
    <2>3. Closed(nd, C \ {n})
      BY <2>2 DEF Closed
    <2>4. C \ {n} \in SUBSET Spots(s) /\ m \in C \ {n}
      BY <1>13, <2>1
    <2> QED BY <1>13, <2>3, <2>4 DEF Behind
  <1>14. FreeApart(nu, s)
    <2>1. FreeApart(nd, s)
      BY <1>1 DEF Chains
    <2>2. ASSUME NEW x \in Spots(s), nu[x].key = NIL
          PROVE  nu[x].value = NIL /\ nu[x].next = NIL /\ \A z \in Spots(s) : nu[z].next # x
      <3>1. x # n /\ x # mp /\ nd[x].key = NIL
        BY <1>3, <1>4, <1>10, <2>2
      <3>2. nd[x].value = NIL /\ nd[x].next = NIL /\ \A z \in Spots(s) : nd[z].next # x
        BY <2>1, <3>1 DEF FreeApart
      <3> QED BY <1>10, <3>1, <3>2
    <2> QED BY <2>2 DEF FreeApart
  <1>15. NextOnce(nu, s)
    <2>1. NextOnce(nd, s)
      BY <1>1 DEF Chains
    <2>2. ASSUME NEW x \in Spots(s), NEW y \in Spots(s), nu[x].next = nu[y].next, nu[x].next # NIL, x # y
          PROVE  FALSE
      <3>1. CASE x = mp
        BY <1>10, <1>11, <2>2, <3>1
      <3>2. CASE y = mp
        BY <1>10, <1>11, <2>2, <3>2
      <3>3. CASE x # mp /\ y # mp
        <4>1. CASE x = n
          BY <1>10, <2>1, <2>2, <3>3, <4>1 DEF NextOnce
        <4>2. CASE y = n
          BY <1>10, <2>1, <2>2, <3>3, <4>2 DEF NextOnce
        <4>3. CASE x # n /\ y # n
          BY <1>10, <2>1, <2>2, <3>3, <4>3 DEF NextOnce
        <4> QED BY <4>1, <4>2, <4>3
      <3> QED BY <3>1, <3>2, <3>3
    <2> QED BY <2>2 DEF NextOnce
  <1>16. OnItsChain(nu, s)
    <2>1. ASSUME NEW x \in Spots(s), nu[x].key # NIL PROVE Behind(nu, s, Main(s, nu[x].key), x)
      <3>1. CASE x = n
        <4>1. Behind(nu, s, mp, n)
          <5>1. ASSUME NEW C \in SUBSET Spots(s), mp \in C, Closed(nu, C) PROVE n \in C
            BY <1>3, <1>10, <5>1 DEF Closed
          <5> QED BY <5>1 DEF Behind
        <4> QED BY <1>10, <3>1, <4>1
      <3>2. CASE x # n
        <4>1. nu[x].key = nd[x].key /\ nd[x].key # NIL
          BY <1>10, <2>1, <3>2
        <4>2. PICK m \in Spots(s) : m = Main(s, nd[x].key) /\ Behind(nd, s, m, x) /\ nd[m].key # NIL
          BY <4>1, KeyMains
        <4>3. m # n
          BY <4>2
        <4> QED BY <1>13, <3>2, <4>1, <4>2, <4>3
      <3> QED BY <3>1, <3>2
    <2> QED BY <2>1 DEF OnItsChain
  <1>17. MainOwned(nu, s)
    <2>1. ASSUME NEW x \in Spots(s), nu[x].key # NIL, NEW m, m = Main(s, nu[x].key)
          PROVE  nu[m].key # NIL /\ Main(s, nu[m].key) = m
      <3>1. CASE x = n
        <4>1. m = mp /\ nu[m].key = nd[mp].key
          BY <1>4, <1>10, <2>1, <3>1
        <4> QED BY <1>4, <4>1
      <3>2. CASE x # n
        <4>1. nu[x].key = nd[x].key /\ nd[x].key # NIL
          BY <1>10, <2>1, <3>2
        <4>2. m \in Spots(s) /\ nd[m].key # NIL /\ Main(s, nd[m].key) = m
          BY <2>1, <4>1, KeyMains
        <4>3. m # n
          BY <4>2
        <4> QED BY <1>10, <4>2, <4>3
      <3> QED BY <3>1, <3>2
    <2> QED BY <2>1 DEF MainOwned
  <1>18. DeadEmpty(nu, u.dead)
    <2>1. DeadEmpty(nd, t.dead)
      BY <1>1 DEF Chains
    <2> QED BY <1>2, <1>4, <1>8, <1>10, <2>1 DEF DeadEmpty
  <1>19. KeyOnce(nu, u.dead, s)
    <2>1. KeyOnce(nd, t.dead, s)
      BY <1>1 DEF Chains
    <2>2. ASSUME NEW x \in Spots(s) \ u.dead, NEW y \in Spots(s) \ u.dead,
                 nu[x].key = nu[y].key, nu[x].key # NIL, x # y
          PROVE  FALSE
      <3>1. x \notin t.dead /\ y \notin t.dead
        BY <1>8
      <3>2. CASE x = n
        BY <1>10, <1>12, <2>2, <3>1, <3>2
      <3>3. CASE y = n
        BY <1>10, <1>12, <2>2, <3>1, <3>3
      <3>4. CASE x # n /\ y # n
        BY <1>10, <2>1, <2>2, <3>1, <3>4 DEF KeyOnce
      <3> QED BY <3>2, <3>3, <3>4
    <2> QED BY <2>2 DEF KeyOnce
  <1>20. Ranked(nu, u.dead, s)
    <2>1. PICK rank \in [Spots(s) -> Nat] : Downward(nd, t.dead, s, rank)
      BY <1>1 DEF Chains, Ranked
    <2>2. PICK r : r = [x \in Spots(s) |-> IF x = n THEN 2 * rank[mp] + 1 ELSE 2 * rank[x] + 2]
      OBVIOUS
    <2>3. /\ r \in [Spots(s) -> Nat] /\ r[n] = 2 * rank[mp] + 1
          /\ \A x \in Spots(s) : x # n => r[x] = 2 * rank[x] + 2
      <3>1. \A x \in Spots(s) : rank[x] \in Nat  OBVIOUS
      <3>2. \A q \in Nat : 2 * q + 1 \in Nat /\ 2 * q + 2 \in Nat  OBVIOUS
      <3>3. \A x \in Spots(s) : r[x] \in Nat
        BY <2>2, <3>1, <3>2
      <3> QED BY <2>2, <3>3
    <2>4. ASSUME NEW x \in Spots(s), nu[x].next # NIL PROVE r[nu[x].next] < r[x]
      <3>1. CASE x = mp
        <4>1. nu[x].next = n /\ r[n] = 2 * rank[mp] + 1 /\ r[mp] = 2 * rank[mp] + 2 /\ rank[mp] \in Nat
          BY <1>4, <1>10, <2>3, <3>1
        <4> QED BY <3>1, <4>1
      <3>2. CASE x # mp
        <4>1. PICK y \in Spots(s) : y = IF x = n THEN mp ELSE x  OBVIOUS
        <4>2. nu[x].next = nd[y].next
          BY <1>10, <3>2, <4>1
        <4>3. nd[y].next \in Spots(s) /\ nd[y].next # n /\ rank[nd[y].next] < rank[y]
          BY <1>2, <1>11, <2>1, <2>4, <4>2 DEF Downward
        <4>4. r[nd[y].next] = 2 * rank[nd[y].next] + 2 /\ r[x] >= 2 * rank[y] + 1
          <5>1. \A z \in Spots(s) : rank[z] \in Nat  OBVIOUS
          <5>2. r[nd[y].next] = 2 * rank[nd[y].next] + 2
            BY <2>3, <4>3
          <5>3. CASE x = n
            BY <2>3, <4>1, <5>1, <5>2, <5>3
          <5>4. CASE x # n
            <6>1. r[x] = 2 * rank[x] + 2 /\ y = x /\ rank[x] \in Nat
              BY <2>3, <4>1, <5>1, <5>4
            <6> QED BY <5>2, <6>1
          <5> QED BY <5>3, <5>4
        <4>5. rank[nd[y].next] \in Nat /\ rank[y] \in Nat /\ r[x] \in Nat
          BY <2>3, <4>3
        <4> QED BY <4>2, <4>3, <4>4, <4>5
      <3> QED BY <3>1, <3>2
    <2>5. ASSUME NEW x \in Spots(s) \ u.dead, NEW d \in u.dead, nu[x].key = nu[d].key
          PROVE  r[d] < r[x]
      <3>1. d \in Spots(s) /\ d \in t.dead /\ d # n /\ d # mp /\ nu[d].key = nd[d].key /\ x \notin t.dead
        BY <1>2, <1>4, <1>8, <1>10
      <3>2. PICK y \in Spots(s) : y = IF x = n THEN mp ELSE x  OBVIOUS
      <3>3. rank[d] < rank[y]
        <4>1. CASE x = n
          <5>1. nd[d].key = k
            BY <1>10, <2>5, <3>1, <4>1
          <5>2. Behind(nd, s, mp, d)
            BY <1>3, <3>1, <5>1, KeyMains
          <5> QED BY <1>2, <2>1, <3>1, <3>2, <4>1, <5>2, BehindLower
        <4>2. CASE x # n
          BY <1>10, <2>1, <2>5, <3>1, <3>2, <4>2 DEF Downward
        <4> QED BY <4>1, <4>2
      <3>4. r[d] = 2 * rank[d] + 2
        BY <2>3, <3>1
      <3>5. CASE x = n
        <4>1. r[x] = 2 * rank[y] + 1 /\ rank[y] \in Nat /\ rank[d] \in Nat
          BY <2>3, <3>1, <3>2, <3>5
        <4> QED BY <3>3, <3>4, <4>1
      <3>6. CASE x # n
        <4>1. r[x] = 2 * rank[y] + 2 /\ rank[y] \in Nat /\ rank[d] \in Nat
          BY <2>3, <3>1, <3>2, <3>6
        <4> QED BY <3>3, <3>4, <4>1
      <3> QED BY <3>5, <3>6
    <2>6. Downward(nu, u.dead, s, r)
      BY <2>4, <2>5 DEF Downward
    <2> QED BY <2>3, <2>6 DEF Ranked
  <1>21. Chains(nu, u.dead, s)
    BY <1>14, <1>15, <1>16, <1>17, <1>18, <1>19, <1>20 DEF Chains
  <1>22. NoneFreeAbove(u, s)
    <2>1. ASSUME NEW x \in Spots(s), x >= u.lastfree PROVE nu[x].key # NIL
      <3>1. CASE x = n
        BY <1>3, <1>10, <3>1
      <3>2. CASE x # n
        <4>1. x > n
          BY <1>8, <2>1, <3>2 DEF Spots
        <4> QED BY <1>10, <3>2, <4>1
      <3> QED BY <3>1, <3>2
    <2> QED BY <2>1 DEF NoneFreeAbove, nu
  <1>23. ArrayFirst(u, s)
    <2>1. ArrayFirst(t, s)
      BY DEF Sound
    <2>2. \A j : InArray(u, j) <=> InArray(t, j)
      BY <1>8 DEF InArray, SizeArray
    <2>3. ~InArray(t, k)
      BY DEF IsNew
    <2>4. ASSUME NEW x \in Spots(s), nu[x].key # NIL PROVE ~InArray(u, nu[x].key)
      BY <1>10, <2>1, <2>2, <2>3, <2>4 DEF ArrayFirst
    <2> QED BY <2>4 DEF ArrayFirst, nu
  <1>24. ArrayOfIndices(u)
    BY <1>8 DEF Sound, ArrayOfIndices
  <1>25. Sound(u, s)
    BY <1>8, <1>21, <1>22, <1>23, <1>24 DEF Sound, nu
  <1>26. Added(t, u, s, k, v)
    <2>1. n \in Spots(s) \ u.dead /\ nu[n].key = k /\ nu[n].value = v
      BY <1>4, <1>8, <1>10
    <2>2. ASSUME NEW x \in Spots(s) \ t.dead, nd[x].value # NIL
          PROVE  x \in Spots(s) \ u.dead /\ Same(nu[x], nd[x])
      <3>1. nd[x].key # NIL
        BY <2>2, ValueMeansKey, NilApart
      <3>2. x # n
        BY <3>1
      <3> QED BY <1>8, <1>10, <3>2 DEF Same
    <2>3. ASSUME NEW y \in Spots(s) \ u.dead, nu[y].key # k
          PROVE  y \in Spots(s) \ t.dead /\ Same(nu[y], nd[y])
      BY <1>8, <1>10, <2>3 DEF Same
    <2> QED BY <1>8, <2>1, <2>2, <2>3 DEF Added, nu
  <1> QED BY <1>25, <1>26 DEF u

\* The node before mp on the chain that has it.
LEMMA BeforeIs ==
    ASSUME NEW s \in Nat, NEW t, Sound(t, s), NEW mp \in Spots(s),
           NEW other \in Spots(s), other # mp, Behind(t.node, s, other, mp)
    PROVE  Before(t, other, mp) \in Spots(s) /\ t.node[Before(t, other, mp)].next = mp
  <1> DEFINE nd == t.node
             hit == {x \in Spots(s) : nd[x].next = mp}
             C == {z \in Spots(s) : z # mp /\ Behind(nd, s, other, z)}
  <1>1. t \in TablesOf(s) /\ Ranked(nd, t.dead, s)
    BY DEF Sound, Chains
  <1>2. DOMAIN nd = Spots(s) /\ \A x \in Spots(s) : nd[x].next \in Spots(s) \union {NIL}
    BY <1>1, TableIs
  <1>3. PICK x \in hit : Behind(nd, s, other, x)
    <2>1. SUFFICES ASSUME \A x \in hit : ~Behind(nd, s, other, x) PROVE FALSE  OBVIOUS
    <2>2. ASSUME NEW z \in C PROVE nd[z].next \in C \union {NIL}
      <3>1. nd[z].next # mp
        BY <2>1
      <3>2. CASE nd[z].next # NIL
        <4>1. nd[z].next \in Spots(s)
          BY <1>2, <3>2
        <4>2. ASSUME NEW D \in SUBSET Spots(s), other \in D, Closed(nd, D) PROVE nd[z].next \in D
          <5>1. z \in D
            BY <4>2 DEF Behind
          <5> QED BY <3>2, <4>2, <5>1 DEF Closed
        <4>3. Behind(nd, s, other, nd[z].next)
          BY <4>2 DEF Behind
        <4> QED BY <3>1, <4>1, <4>3
      <3> QED BY <3>2
    <2>3. other \in C
      <3>1. Behind(nd, s, other, other)
        BY DEF Behind
      <3> QED BY <3>1
    <2>4. Closed(nd, C) /\ C \in SUBSET Spots(s)
      <3>1. C \in SUBSET Spots(s)  OBVIOUS
      <3> HIDE DEF C
      <3> QED BY <2>2, <3>1 DEF Closed
    <2>5. mp \in C
      <3> HIDE DEF C
      <3> QED BY <2>3, <2>4 DEF Behind
    <2> QED BY <2>5
  <1>4. Before(t, other, mp) = Search(t, other, hit)
    <2>1. {n \in DOMAIN t.node : t.node[n].next = mp} = hit
      BY <1>2
    <2> QED BY <2>1, Zenon DEF Before
  <1>5. hit \subseteq Spots(s)  OBVIOUS
  <1>6. Search(t, other, hit) \in hit
    <2> HIDE DEF hit
    <2> QED BY <1>1, <1>3, <1>5, SearchFinds
  <1> QED BY <1>4, <1>6

\* The node at mp moves to the free node n, and the key takes its place.
LEMMA FillAfterMoveSound ==
    ASSUME NEW s \in Nat, NEW t, Sound(t, s), NEW k, IsNew(t, s, k), NEW v \in Cells,
           NEW mp \in Spots(s), mp = Main(s, k), t.node[mp].value # NIL,
           NEW other, other = Main(s, t.node[mp].key), other # mp,
           NEW n \in Spots(s), t.node[n].key = NIL,
           \A x \in Spots(s) : x > n => t.node[x].key # NIL
    PROVE  /\ Sound(FillAfterMove(t, other, mp, n, k, v), s)
           /\ Added(t, FillAfterMove(t, other, mp, n, k, v), s, k, v)
  <1> DEFINE u == FillAfterMove(t, other, mp, n, k, v)
             nd == t.node
  <1>1. t \in TablesOf(s) /\ Chains(nd, t.dead, s)
    BY DEF Sound
  <1>2. /\ nd \in NodesOf(s) /\ t.array \in Seq(Cells) /\ t.lastfree \in 0..s /\ t.dead \subseteq Spots(s)
        /\ \A x \in Spots(s) : /\ nd[x].next \in Spots(s) \union {NIL}
                               /\ nd[x].key \in Cells /\ nd[x].value \in Cells
    BY <1>1, TableIs
  <1>3. k \in Keys /\ k # NIL /\ k \in Cells /\ NIL \notin Spots(s)
    BY NilApart DEF IsNew, Cells
  <1>4. mp \notin t.dead /\ nd[mp].key \in Keys /\ n \notin t.dead /\ n # mp /\ nd[mp].key # NIL
    <2>1. mp \notin t.dead /\ nd[mp].key \in Keys
      BY ValueMeansKey
    <2>2. n \notin t.dead
      BY <1>1 DEF Chains, DeadEmpty
    <2> QED BY <2>1, <2>2, NilApart
  <1>5. /\ other \in Spots(s) /\ Behind(nd, s, other, mp)
        /\ nd[other].key # NIL /\ Main(s, nd[other].key) = other
    BY <1>4, KeyMains
  <1>6. PICK b : b = Before(t, other, mp)  OBVIOUS
  <1>7. b \in Spots(s) /\ nd[b].next = mp
    BY <1>5, <1>6, BeforeIs
  <1>8. /\ nd[n].next = NIL /\ nd[n].value = NIL /\ \A x \in Spots(s) : nd[x].next # n
        /\ b # n /\ b # mp /\ nd[mp].next # mp /\ nd[b].key # NIL
    <2>1. nd[n].next = NIL /\ nd[n].value = NIL /\ \A x \in Spots(s) : nd[x].next # n
      BY <1>1 DEF Chains, FreeApart
    <2>2. nd[mp].next # mp
      <3>1. PICK rank \in [Spots(s) -> Nat] : Downward(nd, t.dead, s, rank)
        BY <1>1 DEF Chains, Ranked
      <3>2. nd[mp].next # NIL => rank[nd[mp].next] < rank[mp]
        BY <3>1 DEF Downward
      <3>3. rank[mp] \in Nat  OBVIOUS
      <3>4. nd[mp].next = mp => rank[mp] < rank[mp]
        BY <1>3, <3>2
      <3> QED BY <3>3, <3>4
    <2>3. nd[b].key # NIL
      BY <1>1, <1>3, <1>7 DEF Chains, FreeApart
    <2> QED BY <1>3, <1>7, <2>1, <2>2, <2>3
  <1>9. PICK held : held = Holding(k, v, NIL)  OBVIOUS
  <1>10. PICK told : told = Holding(nd[b].key, nd[b].value, n)  OBVIOUS
  <1>11. /\ held.key = k /\ held.value = v /\ held.next = NIL
         /\ told.key = nd[b].key /\ told.value = nd[b].value /\ told.next = n
    BY <1>9, <1>10, HoldingIs
  <1>12. /\ u.array = t.array /\ u.lastfree = n /\ u.dead = t.dead
         /\ u.node = [nd EXCEPT ![b] = told, ![n] = nd[mp], ![mp] = held]
         /\ u \in TablesOf(s)
    <2>1. held \in [key : Cells, value : Cells, next : Spots(s) \union {NIL}]
      BY <1>2, <1>3, <1>9, HoldingType
    <2>2. told \in [key : Cells, value : Cells, next : Spots(s) \union {NIL}]
      BY <1>2, <1>7, <1>10, HoldingType
    <2>3. nd[mp] \in [key : Cells, value : Cells, next : Spots(s) \union {NIL}]
      BY <1>2 DEF NodesOf
    <2>4. [nd EXCEPT ![b] = told, ![n] = nd[mp], ![mp] = held] \in NodesOf(s)
      BY <1>2, <2>1, <2>2, <2>3 DEF NodesOf
    <2>5. u = [t EXCEPT !.lastfree = n, !.node = [nd EXCEPT ![b] = told, ![n] = nd[mp], ![mp] = held]]
      BY <1>1, <1>6, <1>9, <1>10 DEF FillAfterMove, TablesOf
    <2>6. n \in 0..s
      BY DEF Spots
    <2> HIDE DEF u
    <2> QED BY <1>1, <2>4, <2>5, <2>6 DEF TablesOf
  <1> DEFINE nu == u.node
  <1>13. /\ nu[n] = nd[mp] /\ nu[mp] = held /\ nu[b] = told /\ nu \in NodesOf(s)
         /\ \A x \in Spots(s) : x \notin {n, mp, b} => nu[x] = nd[x]
    <2>1. nu \in NodesOf(s)
      BY <1>12 DEF TablesOf
    <2> QED BY <1>2, <1>4, <1>7, <1>8, <1>12, <2>1 DEF NodesOf
  <1> HIDE DEF u, nu
  <1>14. /\ Same(nu[n], nd[mp]) /\ nu[n].next = nd[mp].next
         /\ nu[mp].key = k /\ nu[mp].value = v /\ nu[mp].next = NIL
         /\ nu[b].next = n
         /\ \A x \in Spots(s) : x # n /\ x # mp => nu[x].key = nd[x].key /\ nu[x].value = nd[x].value
         /\ \A x \in Spots(s) : x \notin {n, mp, b} => nu[x].next = nd[x].next
    BY <1>11, <1>13 DEF Same
  <1>15. nu[n].key = nd[mp].key /\ nu[n].value = nd[mp].value
    BY <1>14 DEF Same
  <1>16. \A x \in Spots(s) \ t.dead : nd[x].key # k
    BY DEF IsNew
  <1>17. \A x \in Spots(s) : nd[x].next = mp => x = b
    BY <1>1, <1>3, <1>7 DEF Chains, NextOnce
  <1>18. \A x \in Spots(s) : nd[x].key # NIL => Main(s, nd[x].key) # mp /\ Main(s, nd[x].key) # n
    <2>1. ASSUME NEW x \in Spots(s), nd[x].key # NIL
          PROVE  Main(s, nd[x].key) # mp /\ Main(s, nd[x].key) # n
      <3>1. PICK m : m = Main(s, nd[x].key) /\ nd[m].key # NIL /\ Main(s, nd[m].key) = m
        BY <2>1, KeyMains
      <3> QED BY <3>1
    <2> QED BY <2>1
  <1>19. ASSUME NEW m \in Spots(s), NEW x \in Spots(s), m \notin {n, mp}, x # n, Behind(nd, s, m, x),
                NEW y \in Spots(s), y = IF x = mp THEN n ELSE x
         PROVE  Behind(nu, s, m, y)
    <2>1. SUFFICES ASSUME NEW C \in SUBSET Spots(s), m \in C, Closed(nu, C) PROVE y \in C
      BY DEF Behind
    <2>2. PICK D : D = {z \in Spots(s) : (z \in C /\ z # n /\ z # mp) \/ (z = mp /\ n \in C)}
      OBVIOUS
    <2>3. ASSUME NEW z \in D PROVE nd[z].next \in D \union {NIL}
      <3>1. nd[z].next \in Spots(s) \union {NIL} /\ nd[z].next # n /\ z \in Spots(s) /\ z # n
        BY <1>2, <1>4, <1>8, <2>2
      <3>2. CASE z = mp
        <4>1. nu[n].next \in C \union {NIL}
          BY <2>1, <2>2, <3>2 DEF Closed
        <4>2. nd[z].next \in C \union {NIL} /\ nd[z].next # mp
          BY <1>8, <1>14, <3>2, <4>1
        <4> QED BY <2>2, <3>1, <4>2
      <3>3. CASE z = b
        <4>1. nu[b].next \in C \union {NIL}
          BY <1>8, <2>1, <2>2, <3>3 DEF Closed
        <4>2. n \in C
          BY <1>3, <1>14, <4>1
        <4> QED BY <1>7, <2>2, <3>3, <4>2
      <3>4. CASE z # mp /\ z # b
        <4>1. nu[z].next \in C \union {NIL}
          BY <2>1, <2>2, <3>4 DEF Closed
        <4>2. nd[z].next \in C \union {NIL}
          BY <1>14, <3>1, <3>4, <4>1
        <4>3. nd[z].next # mp
          BY <1>17, <3>1, <3>4
        <4> QED BY <2>2, <3>1, <4>2, <4>3
      <3> QED BY <3>2, <3>3, <3>4
    <2>4. Closed(nd, D)
      BY <2>3 DEF Closed
    <2>5. D \in SUBSET Spots(s) /\ m \in D
      BY <1>19, <2>1, <2>2
    <2>6. x \in D
      BY <1>19, <2>4, <2>5 DEF Behind
    <2> QED BY <1>19, <2>2, <2>6
  <1>20. FreeApart(nu, s)
    <2>1. FreeApart(nd, s)
      BY <1>1 DEF Chains
    <2>2. ASSUME NEW x \in Spots(s), nu[x].key = NIL
          PROVE  nu[x].value = NIL /\ nu[x].next = NIL /\ \A z \in Spots(s) : nu[z].next # x
      <3>1. x # n /\ x # mp /\ x # b /\ nd[x].key = NIL
        BY <1>3, <1>4, <1>8, <1>14, <1>15, <2>2
      <3>2. nd[x].value = NIL /\ nd[x].next = NIL /\ \A z \in Spots(s) : nd[z].next # x
        BY <2>1, <3>1 DEF FreeApart
      <3>3. ASSUME NEW z \in Spots(s) PROVE nu[z].next # x
        BY <1>3, <1>14, <3>1, <3>2
      <3> QED BY <1>14, <3>1, <3>2, <3>3
    <2> QED BY <2>2 DEF FreeApart
  <1>21. NextOnce(nu, s)
    <2>1. NextOnce(nd, s)
      BY <1>1 DEF Chains
    <2>2. ASSUME NEW x \in Spots(s), NEW y \in Spots(s), nu[x].next = nu[y].next, nu[x].next # NIL, x # y
          PROVE  FALSE
      <3>1. x # mp /\ y # mp
        BY <1>14, <2>2
      <3>2. CASE x = b
        BY <1>8, <1>14, <2>2, <3>1, <3>2
      <3>3. CASE y = b
        BY <1>8, <1>14, <2>2, <3>1, <3>3
      <3>4. CASE x # b /\ y # b
        <4>1. PICK p, q \in Spots(s) : p = (IF x = n THEN mp ELSE x) /\ q = (IF y = n THEN mp ELSE y)
          OBVIOUS
        <4>2. nu[x].next = nd[p].next /\ nu[y].next = nd[q].next
          BY <1>14, <3>1, <3>4, <4>1
        <4>3. p # q
          BY <2>2, <3>1, <4>1
        <4> QED BY <2>1, <2>2, <4>2, <4>3 DEF NextOnce
      <3> QED BY <3>2, <3>3, <3>4
    <2> QED BY <2>2 DEF NextOnce
  <1>22. OnItsChain(nu, s)
    <2>1. ASSUME NEW x \in Spots(s), nu[x].key # NIL PROVE Behind(nu, s, Main(s, nu[x].key), x)
      <3>1. CASE x = mp
        <4>1. Behind(nu, s, mp, mp)
          BY DEF Behind
        <4> QED BY <1>14, <3>1, <4>1
      <3>2. CASE x # mp
        <4>1. PICK p \in Spots(s) : p = IF x = n THEN mp ELSE x  OBVIOUS
        <4>2. nu[x].key = nd[p].key /\ nd[p].key # NIL
          BY <1>14, <1>15, <2>1, <3>2, <4>1
        <4>3. PICK m \in Spots(s) : m = Main(s, nd[p].key) /\ Behind(nd, s, m, p)
          BY <4>2, KeyMains
        <4>4. m \notin {n, mp}
          BY <1>18, <4>2, <4>3
        <4>5. p # n /\ x = IF p = mp THEN n ELSE p
          BY <1>4, <3>2, <4>1
        <4>6. Behind(nu, s, m, x)
          BY <1>19, <4>3, <4>4, <4>5
        <4> QED BY <4>2, <4>3, <4>6
      <3> QED BY <3>1, <3>2
    <2> QED BY <2>1 DEF OnItsChain
  <1>23. MainOwned(nu, s)
    <2>1. ASSUME NEW x \in Spots(s), nu[x].key # NIL, NEW m, m = Main(s, nu[x].key)
          PROVE  nu[m].key # NIL /\ Main(s, nu[m].key) = m
      <3>1. CASE x = mp
        BY <1>3, <1>14, <2>1, <3>1
      <3>2. CASE x # mp
        <4>1. PICK p \in Spots(s) : p = IF x = n THEN mp ELSE x  OBVIOUS
        <4>2. nu[x].key = nd[p].key /\ nd[p].key # NIL
          BY <1>14, <1>15, <2>1, <3>2, <4>1
        <4>3. m \in Spots(s) /\ nd[m].key # NIL /\ Main(s, nd[m].key) = m
          BY <2>1, <4>2, KeyMains
        <4>4. m # n /\ m # mp
          BY <1>18, <2>1, <4>2
        <4> QED BY <1>14, <4>3, <4>4
      <3> QED BY <3>1, <3>2
    <2> QED BY <2>1 DEF MainOwned
  <1>24. DeadEmpty(nu, u.dead)
    <2>1. DeadEmpty(nd, t.dead)
      BY <1>1 DEF Chains
    <2>2. ASSUME NEW x \in u.dead PROVE nu[x].key # NIL /\ nu[x].value = NIL
      <3>1. x \in t.dead /\ x \in Spots(s) /\ x # n /\ x # mp
        BY <1>2, <1>4, <1>12
      <3> QED BY <1>14, <2>1, <3>1 DEF DeadEmpty
    <2> QED BY <2>2 DEF DeadEmpty
  <1>25. KeyOnce(nu, u.dead, s)
    <2>1. KeyOnce(nd, t.dead, s)
      BY <1>1 DEF Chains
    <2>2. ASSUME NEW x \in Spots(s) \ u.dead, NEW y \in Spots(s) \ u.dead,
                 nu[x].key = nu[y].key, nu[x].key # NIL, x # y
          PROVE  FALSE
      <3>1. PICK p, q \in Spots(s) : p = (IF x = n THEN mp ELSE x) /\ q = (IF y = n THEN mp ELSE y)
        OBVIOUS
      <3>2. p \notin t.dead /\ q \notin t.dead
        BY <1>4, <1>12, <3>1
      <3>3. x # mp => nu[x].key = nd[p].key
        BY <1>14, <1>15, <3>1
      <3>4. y # mp => nu[y].key = nd[q].key
        BY <1>14, <1>15, <3>1
      <3>5. CASE x = mp
        BY <1>14, <1>16, <2>2, <3>2, <3>4, <3>5
      <3>6. CASE y = mp
        BY <1>14, <1>16, <2>2, <3>2, <3>3, <3>6
      <3>7. CASE x # mp /\ y # mp
        <4>1. p # q
          BY <2>2, <3>1, <3>7
        <4> QED BY <2>1, <2>2, <3>2, <3>3, <3>4, <3>7, <4>1 DEF KeyOnce
      <3> QED BY <3>5, <3>6, <3>7
    <2> QED BY <2>2 DEF KeyOnce
  <1>26. Ranked(nu, u.dead, s)
    <2>1. PICK rank \in [Spots(s) -> Nat] : Downward(nd, t.dead, s, rank)
      BY <1>1 DEF Chains, Ranked
    <2>2. PICK r : r = [x \in Spots(s) |-> IF x = n THEN rank[mp] ELSE IF x = mp THEN 0 ELSE rank[x]]
      OBVIOUS
    <2>3. /\ r \in [Spots(s) -> Nat] /\ r[n] = rank[mp]
          /\ \A x \in Spots(s) : x # n /\ x # mp => r[x] = rank[x]
      BY <2>2
    <2>4. ASSUME NEW x \in Spots(s), nu[x].next # NIL PROVE r[nu[x].next] < r[x]
      <3>1. x # mp
        BY <1>14, <2>4
      <3>2. CASE x = b
        <4>1. rank[mp] < rank[b]
          BY <1>3, <1>7, <2>1 DEF Downward
        <4>2. nu[x].next = n /\ r[x] = rank[b] /\ r[n] = rank[mp]
          BY <1>8, <1>14, <2>3, <3>2
        <4> QED BY <4>1, <4>2
      <3>3. CASE x # b
        <4>1. PICK y \in Spots(s) : y = IF x = n THEN mp ELSE x  OBVIOUS
        <4>2. nu[x].next = nd[y].next /\ y # b
          BY <1>8, <1>14, <3>1, <3>3, <4>1
        <4>3. nd[y].next \in Spots(s) /\ nd[y].next # n /\ nd[y].next # mp
          BY <1>2, <1>8, <1>17, <2>4, <4>2
        <4>4. rank[nd[y].next] < rank[y]
          BY <2>1, <2>4, <4>2 DEF Downward
        <4>5. r[nd[y].next] = rank[nd[y].next] /\ r[x] = rank[y]
          BY <2>3, <3>1, <4>1, <4>3
        <4> QED BY <4>2, <4>4, <4>5
      <3> QED BY <3>2, <3>3
    <2>5. ASSUME NEW x \in Spots(s) \ u.dead, NEW d \in u.dead, nu[x].key = nu[d].key
          PROVE  r[d] < r[x]
      <3>1. d \in Spots(s) /\ d \in t.dead /\ d # n /\ d # mp /\ x \notin t.dead
        BY <1>2, <1>4, <1>12
      <3>2. nu[d].key = nd[d].key /\ nd[d].key # NIL
        BY <1>1, <1>14, <3>1 DEF Chains, DeadEmpty
      <3>3. x # mp
        <4>1. Main(s, nd[d].key) # mp
          BY <1>18, <3>1, <3>2
        <4> QED BY <1>14, <2>5, <3>2, <4>1
      <3>4. PICK y \in Spots(s) : y = IF x = n THEN mp ELSE x  OBVIOUS
      <3>5. nd[y].key = nd[d].key /\ y \notin t.dead
        BY <1>4, <1>14, <1>15, <2>5, <3>1, <3>2, <3>3, <3>4
      <3>6. rank[d] < rank[y]
        BY <2>1, <3>1, <3>5 DEF Downward
      <3>7. r[d] = rank[d] /\ r[x] = rank[y]
        BY <2>3, <3>1, <3>3, <3>4
      <3> QED BY <3>6, <3>7
    <2>6. Downward(nu, u.dead, s, r)
      BY <2>4, <2>5 DEF Downward
    <2> QED BY <2>3, <2>6 DEF Ranked
  <1>27. Chains(nu, u.dead, s)
    BY <1>20, <1>21, <1>22, <1>23, <1>24, <1>25, <1>26 DEF Chains
  <1>28. NoneFreeAbove(u, s)
    <2>1. ASSUME NEW x \in Spots(s), x >= u.lastfree PROVE nu[x].key # NIL
      <3>1. CASE x = n \/ x = mp
        BY <1>3, <1>4, <1>14, <1>15, <3>1
      <3>2. CASE x # n /\ x # mp
        <4>1. x > n
          BY <1>12, <2>1, <3>2 DEF Spots
        <4> QED BY <1>14, <3>2, <4>1
      <3> QED BY <3>1, <3>2
    <2> QED BY <2>1 DEF NoneFreeAbove, nu
  <1>29. ArrayFirst(u, s)
    <2>1. ArrayFirst(t, s)
      BY DEF Sound
    <2>2. \A j : InArray(u, j) <=> InArray(t, j)
      BY <1>12 DEF InArray, SizeArray
    <2>3. ~InArray(t, k)
      BY DEF IsNew
    <2>4. ASSUME NEW x \in Spots(s), nu[x].key # NIL PROVE ~InArray(u, nu[x].key)
      <3>1. CASE x = mp
        BY <1>14, <2>2, <2>3, <3>1
      <3>2. CASE x = n
        BY <1>4, <1>15, <2>1, <2>2, <3>2 DEF ArrayFirst
      <3>3. CASE x # n /\ x # mp
        BY <1>14, <2>1, <2>2, <2>4, <3>3 DEF ArrayFirst
      <3> QED BY <3>1, <3>2, <3>3
    <2> QED BY <2>4 DEF ArrayFirst, nu
  <1>30. ArrayOfIndices(u)
    BY <1>12 DEF Sound, ArrayOfIndices
  <1>31. Sound(u, s)
    BY <1>12, <1>27, <1>28, <1>29, <1>30 DEF Sound, nu
  <1>32. Added(t, u, s, k, v)
    <2>1. mp \in Spots(s) \ u.dead /\ nu[mp].key = k /\ nu[mp].value = v
      BY <1>4, <1>12, <1>14
    <2>2. ASSUME NEW x \in Spots(s) \ t.dead, nd[x].value # NIL
          PROVE  \E y \in Spots(s) \ u.dead : Same(nu[y], nd[x])
      <3>1. x # n
        BY <1>8, <2>2
      <3>2. CASE x = mp
        BY <1>4, <1>12, <1>14, <3>2
      <3>3. CASE x # mp
        BY <1>12, <1>14, <3>1, <3>3 DEF Same
      <3> QED BY <3>2, <3>3
    <2>3. ASSUME NEW y \in Spots(s) \ u.dead, nu[y].key # k
          PROVE  \E x \in Spots(s) \ t.dead : Same(nu[y], nd[x])
      <3>1. y # mp
        BY <1>14, <2>3
      <3>2. CASE y = n
        BY <1>4, <1>14, <3>2
      <3>3. CASE y # n
        BY <1>12, <1>14, <3>1, <3>3 DEF Same
      <3> QED BY <3>2, <3>3
    <2> QED BY <1>12, <2>1, <2>2, <2>3 DEF Added, nu
  <1> QED BY <1>31, <1>32 DEF u

----------------------------------------------------------------------------
(* luaH_set() without rehash.                                              *)

LEMMA KeyAsked ==
    ASSUME NEW k \in Keys
    PROVE  k \in Asked /\ k # NIL /\ (k \notin Names => k \in Indices /\ k \in Nat /\ k >= 1)
  <1>1. CASE k \in Names
    BY <1>1, NilApart DEF Asked
  <1>2. CASE k \in Indices
    <2>1. k \in 1..MaxInt /\ MaxInt \in Nat
      BY <1>2, KeysAssumption
    <2> QED BY <1>2, <2>1, NilApart DEF Asked
  <1> QED BY <1>1, <1>2 DEF Keys

LEMMA AskedIs ==
    ASSUME NEW k \in Asked
    PROVE  k # NIL /\ k \in Names \union 1..(MaxInt + 1) /\ (k \notin Names => k \in Nat /\ k >= 1)
  <1>1. CASE k \in Names
    BY <1>1, KeysAssumption DEF Asked, Keys
  <1>2. CASE k \in 1..(MaxInt + 1)
    <2>1. k \in Nat /\ k >= 1 /\ NIL \notin Nat
      BY <1>2, KeysAssumption
    <2> QED BY <1>2, <2>1
  <1> QED BY <1>1, <1>2 DEF Asked

LEMMA AddedUpdates ==
    ASSUME NEW s \in Nat, NEW t, Sound(t, s), NEW u, Sound(u, s),
           NEW k, IsNew(t, s, k), NEW v, Added(t, u, s, k, v)
    PROVE  Updated(t, u, k, v)
  <1>1. /\ t \in TablesOf(s) /\ Chains(t.node, t.dead, s)
        /\ u \in TablesOf(s) /\ Chains(u.node, u.dead, s)
        /\ u.array = t.array
    BY DEF Sound, Added
  <1>2. \A j : InArray(u, j) <=> InArray(t, j)
    BY <1>1 DEF InArray, SizeArray
  <1>3. ~InArray(t, k) /\ k \in Keys
    BY DEF IsNew
  <1>4. ASSUME NEW j \in Asked PROVE Get(u, j) = IF j = k THEN v ELSE Get(t, j)
    <2>1. j # NIL /\ j \in Names \union 1..(MaxInt + 1)
      BY AskedIs
    <2>2. CASE InArray(t, j)
      <3>1. Get(t, j) = t.array[j] /\ Get(u, j) = u.array[j]
        BY <1>1, <1>2, <2>1, <2>2, GetIs
      <3> QED BY <1>1, <1>3, <2>2, <3>1
    <2>3. CASE ~InArray(t, j)
      <3>1. /\ \A x \in Spots(s) \ t.dead : t.node[x].key = j => Get(t, j) = t.node[x].value
            /\ Get(t, j) # NIL => \E x \in Spots(s) \ t.dead : t.node[x].key = j /\ Get(t, j) = t.node[x].value
        BY <1>1, <2>1, <2>3, GetIs
      <3>2. /\ \A x \in Spots(s) \ u.dead : u.node[x].key = j => Get(u, j) = u.node[x].value
            /\ Get(u, j) # NIL => \E x \in Spots(s) \ u.dead : u.node[x].key = j /\ Get(u, j) = u.node[x].value
        BY <1>1, <1>2, <2>1, <2>3, GetIs
      <3>3. CASE j = k
        BY <3>2, <3>3 DEF Added
      <3>4. CASE j # k /\ Get(t, j) # NIL
        <4>1. PICK x \in Spots(s) \ t.dead : t.node[x].key = j /\ Get(t, j) = t.node[x].value
          BY <3>1, <3>4
        <4>2. PICK y \in Spots(s) \ u.dead : Same(u.node[y], t.node[x])
          BY <3>4, <4>1 DEF Added
        <4>3. u.node[y].key = j /\ u.node[y].value = Get(t, j)
          BY <4>1, <4>2 DEF Same
        <4> QED BY <3>2, <3>4, <4>3
      <3>5. CASE j # k /\ Get(u, j) # NIL
        <4>1. PICK y \in Spots(s) \ u.dead : u.node[y].key = j /\ Get(u, j) = u.node[y].value
          BY <3>2, <3>5
        <4>2. PICK x \in Spots(s) \ t.dead : Same(u.node[y], t.node[x])
          BY <2>1, <3>5, <4>1 DEF Added
        <4>3. t.node[x].key = j /\ t.node[x].value = Get(u, j)
          BY <4>1, <4>2 DEF Same
        <4> QED BY <3>1, <3>5, <4>3
      <3> QED BY <3>3, <3>4, <3>5
    <2> QED BY <2>2, <2>3
  <1> QED BY <1>4 DEF Updated

\* getfreepos() gives the last free node.
LEMMA FreePositionIs ==
    ASSUME NEW s \in Nat, NEW t, Sound(t, s), FreePositions(t) # {}
    PROVE  /\ Max(FreePositions(t)) \in Spots(s)
           /\ t.node[Max(FreePositions(t))].key = NIL
           /\ \A x \in Spots(s) : x > Max(FreePositions(t)) => t.node[x].key # NIL
  <1>1. t.lastfree \in 0..s
    BY TableIs DEF Sound
  <1>2. PICK P : P = FreePositions(t)  OBVIOUS
  <1>3. P \subseteq 0..s /\ P # {}
    BY <1>1, <1>2 DEF FreePositions
  <1>4. Max(P) \in P /\ \A c \in P : c <= Max(P)
    BY <1>3, MaxIs
  <1>5. Max(P) \in Spots(s) /\ t.node[Max(P)].key = NIL
    BY <1>1, <1>2, <1>4 DEF FreePositions, Spots
  <1>6. ASSUME NEW x \in Spots(s), x > Max(P), t.node[x].key = NIL PROVE FALSE
    <2>0. NoneFreeAbove(t, s)
      BY DEF Sound
    <2>1. x < t.lastfree
      <3>1. ~(x >= t.lastfree)
        BY <1>6, <2>0 DEF NoneFreeAbove
      <3>2. x \in Int /\ t.lastfree \in Int
        BY <1>1 DEF Spots
      <3> QED BY <3>1, <3>2
    <2>2. x \in P
      <3>1. x \in 0..(t.lastfree - 1)
        BY <1>1, <2>1 DEF Spots
      <3> QED BY <1>2, <1>6, <3>1 DEF FreePositions
    <2>3. x <= Max(P)
      BY <1>4, <2>2
    <2>4. x \in Int /\ Max(P) \in Int
      BY <1>5 DEF Spots
    <2> QED BY <1>6, <2>3, <2>4
  <1> QED BY <1>2, <1>5, <1>6

LEMMA NewKeySound ==
    ASSUME NEW s \in Nat, NEW t, Sound(t, s), NEW k, IsNew(t, s, k), NEW v \in Cells,
           s # 0, ~Taken(t, MainPosition(t, k)) \/ FreePositions(t) # {}
    PROVE  Sound(NewKey(t, k, v), s) /\ Added(t, NewKey(t, k, v), s, k, v)
  <1>1. t \in TablesOf(s) /\ k \in Keys
    BY DEF Sound, IsNew
  <1>2. PICK mp \in Spots(s) : mp = Main(s, k) /\ mp = MainPosition(t, k)
    <2>1. s > 0  OBVIOUS
    <2> QED BY <1>1, <2>1, KeyMain, MainPositionIs
  <1>3. PICK n : n = Max(FreePositions(t))  OBVIOUS
  <1>4. PICK other : other = Main(s, t.node[mp].key) /\ other = MainPosition(t, t.node[mp].key)
    BY <1>1, MainPositionIs
  <1>5. CASE t.node[mp].value = NIL
    <2>1. NewKey(t, k, v) = Fill(t, mp, k, v)
      BY <1>2, <1>5 DEF NewKey, Taken
    <2> QED BY <1>2, <1>5, <2>1, FillSound
  <1>6. CASE t.node[mp].value # NIL
    <2>1. FreePositions(t) # {}
      BY <1>2, <1>6 DEF Taken
    <2>2. n \in Spots(s) /\ t.node[n].key = NIL /\ \A x \in Spots(s) : x > n => t.node[x].key # NIL
      BY <1>3, <2>1, FreePositionIs
    <2>3. CASE other = mp
      <3>1. NewKey(t, k, v) = FillBehind(t, mp, n, k, v)
        BY <1>2, <1>3, <1>4, <1>6, <2>3 DEF NewKey, Taken
      <3> QED BY <1>2, <1>4, <1>6, <2>2, <2>3, <3>1, FillBehindSound
    <2>4. CASE other # mp
      <3>1. NewKey(t, k, v) = FillAfterMove(t, other, mp, n, k, v)
        BY <1>2, <1>3, <1>4, <1>6, <2>4 DEF NewKey, Taken
      <3> QED BY <1>2, <1>4, <1>6, <2>2, <2>4, <3>1, FillAfterMoveSound
    <2> QED BY <2>3, <2>4
  <1> QED BY <1>5, <1>6

\* An assignment to a field that is there.
LEMMA SetInArray ==
    ASSUME NEW s \in Nat, NEW t, Sound(t, s), NEW k \in Keys, NEW v \in Cells, InArray(t, k)
    PROVE  /\ Sound(Insert(t, k, v), s) /\ Updated(t, Insert(t, k, v), k, v)
           /\ Insert(t, k, v).node = t.node /\ SameNodes(t, Insert(t, k, v), s)
           /\ SizeArray(Insert(t, k, v)) = SizeArray(t)
  <1>1. t \in TablesOf(s) /\ t.array \in Seq(Cells) /\ Len(t.array) \in Nat
    BY TableIs DEF Sound, SizeArray
  <1>2. k \in Indices /\ k \in 1..Len(t.array)
    BY KeyAsked DEF InArray, SizeArray
  <1>3. PICK u : u = [t EXCEPT !.array = [t.array EXCEPT ![k] = v]]  OBVIOUS
  <1>4. Insert(t, k, v) = u
    BY <1>3 DEF Insert
  <1>5. /\ [t.array EXCEPT ![k] = v] \in Seq(Cells) /\ Len([t.array EXCEPT ![k] = v]) = Len(t.array)
        /\ [t.array EXCEPT ![k] = v][k] = v
        /\ \A i \in 1..Len(t.array) : i # k => [t.array EXCEPT ![k] = v][i] = t.array[i]
    BY <1>1, <1>2
  <1>6. /\ u.array = [t.array EXCEPT ![k] = v] /\ u.node = t.node /\ u.dead = t.dead /\ u.lastfree = t.lastfree
        /\ u \in TablesOf(s)
    BY <1>1, <1>3, <1>5 DEF TablesOf
  <1>7. SizeArray(u) = SizeArray(t) /\ \A j : InArray(u, j) <=> InArray(t, j)
    BY <1>5, <1>6 DEF InArray, SizeArray
  <1>8. ArrayOfIndices(u)
    BY <1>2, <1>5, <1>6 DEF Sound, ArrayOfIndices
  <1>9. Sound(u, s)
    BY <1>6, <1>7, <1>8 DEF Sound, NoneFreeAbove, ArrayFirst
  <1>10. Updated(t, u, k, v)
    <2>1. ASSUME NEW j \in Asked PROVE Get(u, j) = IF j = k THEN v ELSE Get(t, j)
      <3>1. j \in Names \union 1..(MaxInt + 1) /\ (j \notin Names => j \in Nat /\ j >= 1)
        BY AskedIs
      <3>2. CASE InArray(t, j)
        <4>1. Get(t, j) = t.array[j] /\ Get(u, j) = u.array[j]
          BY <1>7, <3>2 DEF Get
        <4>2. j \in 1..Len(t.array)
          BY <1>1, <3>1, <3>2 DEF InArray, SizeArray
        <4> QED BY <1>5, <1>6, <4>1, <4>2
      <3>3. CASE ~InArray(t, j)
        <4>1. SizeNode(u) = SizeNode(t) /\ \A i : MainPosition(u, i) = MainPosition(t, i)
          BY <1>6 DEF SizeNode, MainPosition
        <4>2. Links(u) = Links(t)
          BY <1>6 DEF Links
        <4>3. Holders(u, j, FALSE) = Holders(t, j, FALSE)
          BY <1>6 DEF Holders
        <4>4. NodeOf(u, j) = NodeOf(t, j)
          BY <4>1, <4>2, <4>3 DEF NodeOf, OnChain, Search
        <4>5. Get(u, j) = Get(t, j)
          BY <1>6, <1>7, <3>3, <4>4 DEF Get
        <4> QED BY <3>3, <4>5
      <3> QED BY <3>2, <3>3
    <2> QED BY <2>1 DEF Updated
  <1> QED BY <1>4, <1>6, <1>7, <1>9, <1>10 DEF SameNodes

LEMMA SetInNode ==
    ASSUME NEW s \in Nat, NEW t, Sound(t, s), NEW k \in Keys, NEW v \in Cells, ~InArray(t, k),
           NodeOf(t, k) # NIL
    PROVE  /\ Sound(Insert(t, k, v), s) /\ Updated(t, Insert(t, k, v), k, v)
           /\ SameNodes(t, Insert(t, k, v), s)
           /\ SizeArray(Insert(t, k, v)) = SizeArray(t)
  <1> DEFINE nd == t.node
  <1>1. t \in TablesOf(s) /\ Chains(nd, t.dead, s)
    BY DEF Sound
  <1>2. /\ nd \in NodesOf(s) /\ t.array \in Seq(Cells) /\ t.lastfree \in 0..s /\ t.dead \subseteq Spots(s)
        /\ \A x \in Spots(s) : /\ nd[x].next \in Spots(s) \union {NIL}
                               /\ nd[x].key \in Cells /\ nd[x].value \in Cells
    BY <1>1, TableIs
  <1>3. k \in Names \union 1..(MaxInt + 1) /\ k # NIL
    BY KeyAsked DEF Asked
  <1>4. PICK p : p = NodeOf(t, k) /\ p \in Spots(s) /\ p \notin t.dead /\ nd[p].key = k
    BY <1>1, <1>3, NodeOfIs
  <1>5. PICK held : held = Holding(k, v, nd[p].next)  OBVIOUS
  <1>6. held.key = k /\ held.value = v /\ held.next = nd[p].next
    BY <1>5, HoldingIs
  <1>7. PICK u : u = [t EXCEPT !.node = [nd EXCEPT ![p] = held]]  OBVIOUS
  <1>8. Insert(t, k, v) = u
    BY <1>4, <1>5, <1>7 DEF Insert
  <1>9. /\ u.array = t.array /\ u.lastfree = t.lastfree /\ u.dead = t.dead
        /\ u.node = [nd EXCEPT ![p] = held] /\ u \in TablesOf(s)
    <2>1. k \in Cells
      BY DEF Cells
    <2>2. held \in [key : Cells, value : Cells, next : Spots(s) \union {NIL}]
      BY <1>2, <1>4, <1>5, <2>1, HoldingType
    <2>3. [nd EXCEPT ![p] = held] \in NodesOf(s)
      BY <1>2, <1>4, <2>2 DEF NodesOf
    <2> QED BY <1>1, <1>7, <2>3 DEF TablesOf
  <1> DEFINE nu == u.node
  <1>10. nu[p].value = v /\ \A x \in Spots(s) : /\ nu[x].key = nd[x].key /\ nu[x].next = nd[x].next
                                                /\ x # p => nu[x].value = nd[x].value
    BY <1>2, <1>4, <1>6, <1>9 DEF NodesOf
  <1> HIDE DEF nu
  <1>11. FreeApart(nu, s)
    <2>1. FreeApart(nd, s)
      BY <1>1 DEF Chains
    <2> QED BY <1>3, <1>4, <1>10, <2>1 DEF FreeApart
  <1>12. NextOnce(nu, s) /\ MainOwned(nu, s) /\ KeyOnce(nu, u.dead, s)
    <2>1. NextOnce(nd, s) /\ MainOwned(nd, s) /\ KeyOnce(nd, t.dead, s)
      BY <1>1 DEF Chains
    <2>2. NextOnce(nu, s)
      BY <1>10, <2>1 DEF NextOnce
    <2>3. KeyOnce(nu, u.dead, s)
      BY <1>9, <1>10, <2>1 DEF KeyOnce
    <2>4. ASSUME NEW x \in Spots(s), nu[x].key # NIL, NEW m, m = Main(s, nu[x].key)
          PROVE  nu[m].key # NIL /\ Main(s, nu[m].key) = m
      <3>1. m \in Spots(s) /\ nd[m].key # NIL /\ Main(s, nd[m].key) = m
        BY <1>10, <2>4, KeyMains
      <3> QED BY <1>10, <3>1
    <2> QED BY <2>2, <2>3, <2>4 DEF MainOwned
  <1>13. OnItsChain(nu, s)
    <2>1. \A C \in SUBSET Spots(s) : Closed(nu, C) <=> Closed(nd, C)
      BY <1>10 DEF Closed
    <2>2. \A m, x : Behind(nu, s, m, x) <=> Behind(nd, s, m, x)
      BY <2>1 DEF Behind
    <2>3. OnItsChain(nd, s)
      BY <1>1 DEF Chains
    <2> QED BY <1>10, <2>2, <2>3 DEF OnItsChain
  <1>14. DeadEmpty(nu, u.dead)
    <2>1. DeadEmpty(nd, t.dead)
      BY <1>1 DEF Chains
    <2> QED BY <1>2, <1>4, <1>9, <1>10, <2>1 DEF DeadEmpty
  <1>15. Ranked(nu, u.dead, s)
    <2>1. PICK rank \in [Spots(s) -> Nat] : Downward(nd, t.dead, s, rank)
      BY <1>1 DEF Chains, Ranked
    <2>2. Downward(nu, u.dead, s, rank)
      BY <1>2, <1>9, <1>10, <2>1 DEF Downward
    <2> QED BY <2>2 DEF Ranked
  <1>16. Chains(nu, u.dead, s)
    BY <1>11, <1>12, <1>13, <1>14, <1>15 DEF Chains
  <1>17. SizeArray(u) = SizeArray(t) /\ \A j : InArray(u, j) <=> InArray(t, j)
    BY <1>9 DEF InArray, SizeArray
  <1>18. NoneFreeAbove(u, s) /\ ArrayFirst(u, s) /\ ArrayOfIndices(u)
    <2>1. NoneFreeAbove(t, s) /\ ArrayFirst(t, s) /\ ArrayOfIndices(t)
      BY DEF Sound
    <2>2. NoneFreeAbove(u, s)
      BY <1>9, <1>10, <2>1 DEF NoneFreeAbove, nu
    <2>3. ArrayFirst(u, s)
      BY <1>10, <1>17, <2>1 DEF ArrayFirst, nu
    <2>4. ArrayOfIndices(u)
      BY <1>9, <2>1 DEF ArrayOfIndices
    <2> QED BY <2>2, <2>3, <2>4
  <1>19. Sound(u, s)
    BY <1>9, <1>16, <1>18 DEF Sound, nu
  <1>20. Updated(t, u, k, v)
    <2>1. ASSUME NEW j \in Asked PROVE Get(u, j) = IF j = k THEN v ELSE Get(t, j)
      <3>1. j \in Names \union 1..(MaxInt + 1) /\ j # NIL
        BY AskedIs
      <3>2. CASE InArray(t, j)
        BY <1>9, <1>17, <3>2 DEF Get
      <3>3. CASE ~InArray(t, j)
        <4>1. NodeOf(t, j) # NIL => NodeOf(t, j) \in Spots(s) \ t.dead /\ nd[NodeOf(t, j)].key = j
          BY <1>1, <3>1, NodeOfIs
        <4>2. /\ NodeOf(u, j) # NIL => NodeOf(u, j) \in Spots(s) \ u.dead /\ nu[NodeOf(u, j)].key = j
              /\ \A x \in Spots(s) \ u.dead : nu[x].key = j => NodeOf(u, j) = x
          BY <1>9, <1>16, <3>1, NodeOfIs DEF nu
        <4>3. \A x \in Spots(s) \ t.dead : nd[x].key = j => NodeOf(t, j) = x
          BY <1>1, <3>1, NodeOfIs
        <4>4. NIL \notin Spots(s)
          BY NilApart
        <4>5. NodeOf(u, j) = NodeOf(t, j)
          BY <1>9, <1>10, <4>1, <4>2, <4>3
        <4>6. /\ Get(u, j) = IF NodeOf(t, j) = NIL THEN NIL ELSE nu[NodeOf(t, j)].value
              /\ Get(t, j) = IF NodeOf(t, j) = NIL THEN NIL ELSE nd[NodeOf(t, j)].value
          BY <1>17, <3>3, <4>5 DEF Get, nu
        <4>7. CASE j = k
          BY <1>4, <1>10, <4>4, <4>6, <4>7
        <4>8. CASE j # k
          BY <1>4, <1>10, <4>1, <4>6, <4>8
        <4> QED BY <4>7, <4>8
      <3> QED BY <3>2, <3>3
    <2> QED BY <2>1 DEF Updated
  <1>21. SameNodes(t, u, s)
    BY <1>9, <1>10 DEF SameNodes, nu
  <1> QED BY <1>8, <1>17, <1>19, <1>20, <1>21

\* luaH_set() of a key for which there is a place.
LEMMA InsertSound ==
    ASSUME NEW s \in Nat, NEW t, Sound(t, s), NEW k \in Keys, NEW v \in Cells, ~Full(t, k)
    PROVE  /\ Sound(Insert(t, k, v), s) /\ Updated(t, Insert(t, k, v), k, v)
           /\ SizeArray(Insert(t, k, v)) = SizeArray(t)
           /\ InArray(t, k) => Insert(t, k, v).node = t.node
           /\ InArray(t, k) \/ NodeOf(t, k) # NIL => SameNodes(t, Insert(t, k, v), s)
           /\ \A y \in Spots(s) \ Insert(t, k, v).dead :
                 Insert(t, k, v).node[y].key \notin {NIL, k} =>
                     \E x \in Spots(s) \ t.dead : t.node[x].key = Insert(t, k, v).node[y].key
           /\ t.dead = {} => Insert(t, k, v).dead = {}
  <1> DEFINE u == Insert(t, k, v)
  <1>1. CASE InArray(t, k)
    <2>1. /\ Sound(u, s) /\ Updated(t, u, k, v) /\ u.node = t.node /\ SameNodes(t, u, s)
          /\ SizeArray(u) = SizeArray(t)
      BY <1>1, SetInArray
    <2> HIDE DEF u
    <2>2. u.dead = t.dead
      BY <2>1 DEF SameNodes
    <2>3. \A y \in Spots(s) \ u.dead : u.node[y].key \notin {NIL, k} =>
                     \E x \in Spots(s) \ t.dead : t.node[x].key = u.node[y].key
      BY <2>1, <2>2
    <2> QED BY <2>1, <2>2, <2>3 DEF u
  <1>2. CASE ~InArray(t, k) /\ NodeOf(t, k) # NIL
    <2>1. /\ Sound(u, s) /\ Updated(t, u, k, v) /\ SameNodes(t, u, s) /\ SizeArray(u) = SizeArray(t)
      BY <1>2, SetInNode
    <2> HIDE DEF u
    <2>2. u.dead = t.dead /\ \A x \in Spots(s) : u.node[x].key = t.node[x].key
      BY <2>1 DEF SameNodes
    <2>3. \A y \in Spots(s) \ u.dead : u.node[y].key \notin {NIL, k} =>
                     \E x \in Spots(s) \ t.dead : t.node[x].key = u.node[y].key
      BY <2>1, <2>2
    <2> QED BY <1>2, <2>1, <2>2, <2>3 DEF u
  <1>3. CASE ~InArray(t, k) /\ NodeOf(t, k) = NIL
    <2>1. t \in TablesOf(s) /\ Chains(t.node, t.dead, s) /\ SizeNode(t) = s
      BY TableIs DEF Sound
    <2>2. k \in Names \union 1..(MaxInt + 1)
      BY KeyAsked DEF Asked
    <2>3. \A x \in Spots(s) \ t.dead : t.node[x].key # k
      <3>1. \A x \in Spots(s) \ t.dead : t.node[x].key = k => NodeOf(t, k) = x
        BY <2>1, <2>2, NodeOfIs
      <3> QED BY <1>3, <3>1, NilApart
    <2>4. IsNew(t, s, k)
      BY <1>3, <2>3 DEF IsNew
    <2>5. s # 0 \/ FreePositions(t) # {}
      BY <1>3, <2>1 DEF Full
    <2>6. s # 0
      <3>1. ASSUME s = 0 PROVE FreePositions(t) = {}
        <4>1. t.lastfree \in 0..0
          BY <2>1, <3>1, TableIs
        <4> QED BY <4>1 DEF FreePositions
      <3> QED BY <2>5, <3>1
    <2>7. ~Taken(t, MainPosition(t, k)) \/ FreePositions(t) # {}
      BY <1>3, <2>1, <2>6 DEF Full
    <2>8. u = NewKey(t, k, v)
      BY <1>3 DEF Insert
    <2>9. Sound(u, s) /\ Added(t, u, s, k, v)
      BY <2>4, <2>6, <2>7, <2>8, NewKeySound
    <2> HIDE DEF u
    <2>10. Updated(t, u, k, v)
      BY <2>4, <2>9, AddedUpdates
    <2>11. SizeArray(u) = SizeArray(t)
      BY <2>9 DEF Added, SizeArray
    <2>12. \A y \in Spots(s) \ u.dead : u.node[y].key \notin {NIL, k} =>
                     \E x \in Spots(s) \ t.dead : t.node[x].key = u.node[y].key
      BY <2>9 DEF Added, Same
    <2>13. t.dead = {} => u.dead = {}
      <3>1. ASSUME t.dead = {} PROVE NewKey(t, k, v).dead = {}
        <4>1. \A a, b, c, d, e, f : Fill(t, a, k, v).dead = {} /\ FillBehind(t, b, c, k, v).dead = {}
                                    /\ FillAfterMove(t, d, e, f, k, v).dead = {}
          BY <2>1, <3>1 DEF Fill, FillBehind, FillAfterMove, TablesOf
        <4> QED BY <4>1 DEF NewKey
      <3> QED BY <2>8, <3>1
    <2> QED BY <1>3, <2>9, <2>10, <2>11, <2>12, <2>13 DEF u
  <1> QED BY <1>1, <1>2, <1>3

----------------------------------------------------------------------------
(* A table of free nodes, and room for the keys that are to come.          *)

\* There are as many nodes as asked for, or more.
LEMMA NodeCountIs ==
    ASSUME NEW size \in Nat
    PROVE  NodeCount(size) \in Nat /\ size <= NodeCount(size)
  <1>1. CASE size = 0
    BY <1>1 DEF NodeCount
  <1>2. CASE size # 0
    <2>1. CeilLog2(size) \in Nat /\ size <= TwoTo(CeilLog2(size))
      BY CeilLog2Is
    <2>2. TwoTo(CeilLog2(size)) \in Nat
      BY <2>1, TwoToExceeds
    <2> QED BY <1>2, <2>1, <2>2 DEF NodeCount
  <1> QED BY <1>1, <1>2

LEMMA SpotsCount ==
    ASSUME NEW s \in Nat
    PROVE  IsFiniteSet(Spots(s)) /\ Cardinality(Spots(s)) = s
  <1>1. 0 \in Int /\ s - 1 \in Int  OBVIOUS
  <1>2. IsFiniteSet(0..(s - 1)) /\ Cardinality(0..(s - 1)) = IF 0 > s - 1 THEN 0 ELSE (s - 1) - 0 + 1
    BY <1>1, FS_Interval
  <1>3. (IF 0 > s - 1 THEN 0 ELSE (s - 1) - 0 + 1) = s  OBVIOUS
  <1> QED BY <1>2, <1>3 DEF Spots

\* luaH_resize() of a new table: the nodes are free.
LEMMA WithNodesSound ==
    ASSUME NEW array, array \in Seq(Cells), \A i \in 1..Len(array) : array[i] # NIL => i \in Indices,
           NEW size \in Nat, NEW s, s = NodeCount(size)
    PROVE  /\ Sound(WithNodes(array, size), s)
           /\ WithNodes(array, size).array = array /\ WithNodes(array, size).dead = {}
           /\ \A y \in Spots(s) : WithNodes(array, size).node[y].key = NIL
  <1>1. s \in Nat
    BY NodeCountIs
  <1>2. PICK nd : nd = [i \in 0..(s - 1) |-> Free]  OBVIOUS
  <1>3. PICK u : u = [array |-> array, node |-> nd, lastfree |-> s, dead |-> {}]  OBVIOUS
  <1>4. WithNodes(array, size) = u
    BY <1>2, <1>3 DEF WithNodes, NodeCount
  <1>5. Free.key = NIL /\ Free.value = NIL /\ Free.next = NIL
    BY HoldingIs DEF Free
  <1>6. \A y \in Spots(s) : nd[y].key = NIL /\ nd[y].value = NIL /\ nd[y].next = NIL
    BY <1>2, <1>5 DEF Spots
  <1>7. nd \in NodesOf(s)
    <2>1. NIL \in Cells
      BY DEF Cells
    <2>2. Free \in [key : Cells, value : Cells, next : Spots(s) \union {NIL}]
      BY <1>1, <2>1, HoldingType DEF Free
    <2> QED BY <1>2, <2>2 DEF NodesOf, Spots
  <1>8. u.array = array /\ u.node = nd /\ u.lastfree = s /\ u.dead = {}
    BY <1>3
  <1>9. u \in TablesOf(s)
    <2>1. s \in 0..s /\ {} \in SUBSET Spots(s)
      BY <1>1
    <2> QED BY <1>3, <1>7, <2>1 DEF TablesOf
  <1>10. FreeApart(nd, s)
    BY <1>1, <1>6, NilApart DEF FreeApart
  <1>11. NextOnce(nd, s) /\ OnItsChain(nd, s) /\ MainOwned(nd, s)
    BY <1>6 DEF NextOnce, OnItsChain, MainOwned
  <1>12. DeadEmpty(nd, {}) /\ KeyOnce(nd, {}, s)
    BY <1>6 DEF DeadEmpty, KeyOnce
  <1>13. Ranked(nd, {}, s)
    <2>1. PICK rank \in [Spots(s) -> Nat] : rank = [x \in Spots(s) |-> 0]  OBVIOUS
    <2>2. Downward(nd, {}, s, rank)
      BY <1>6 DEF Downward
    <2> QED BY <2>2 DEF Ranked
  <1>14. Chains(u.node, u.dead, s)
    BY <1>8, <1>10, <1>11, <1>12, <1>13 DEF Chains
  <1>15. NoneFreeAbove(u, s)
    <2>1. \A n \in Spots(s) : ~(n >= s)
      BY <1>1 DEF Spots
    <2> QED BY <1>8, <2>1 DEF NoneFreeAbove
  <1>16. ArrayFirst(u, s) /\ ArrayOfIndices(u)
    BY <1>6, <1>8 DEF ArrayFirst, ArrayOfIndices
  <1> QED BY <1>4, <1>6, <1>8, <1>9, <1>14, <1>15, <1>16 DEF Sound

\* If the keys of the nodes are among no more keys than there are nodes, all of
\* them different, another of those has a free node: no rehash.
LEMMA NotFull ==
    ASSUME NEW s \in Nat, NEW t, Sound(t, s), t.dead = {},
           NEW G, IsFiniteSet(G), Cardinality(G) <= s, NEW k \in G, k \in Keys,
           \A y \in Spots(s) : t.node[y].key \in G \union {NIL}
    PROVE  ~Full(t, k)
  <1> SUFFICES ASSUME Full(t, k) PROVE FALSE  OBVIOUS
  <1>1. t \in TablesOf(s) /\ Chains(t.node, t.dead, s) /\ NoneFreeAbove(t, s)
    BY DEF Sound
  <1>2. ~InArray(t, k) /\ NodeOf(t, k) = NIL /\ FreePositions(t) = {}
    BY DEF Full
  <1>3. t.lastfree \in 0..s
    BY <1>1, TableIs
  <1>4. ASSUME NEW y \in Spots(s) PROVE t.node[y].key # NIL
    <2>0. y \in Int /\ y >= 0
      BY DEF Spots
    <2>1. CASE y >= t.lastfree
      BY <1>1, <2>1 DEF NoneFreeAbove
    <2>2. CASE ~(y >= t.lastfree)
      <3>1. y \in 0..(t.lastfree - 1)
        BY <1>3, <2>0, <2>2
      <3>2. y \notin FreePositions(t)
        BY <1>2
      <3> QED BY <3>1, <3>2 DEF FreePositions
    <2> QED BY <2>1, <2>2
  <1>5. k \in Names \union 1..(MaxInt + 1)
    BY KeyAsked DEF Asked
  <1>6. \A y \in Spots(s) : t.node[y].key # k
    <2>1. \A x \in Spots(s) \ t.dead : t.node[x].key = k => NodeOf(t, k) = x
      BY <1>1, <1>5, NodeOfIs
    <2> QED BY <1>2, <2>1, NilApart
  <1>7. PICK f : f = [y \in Spots(s) |-> t.node[y].key]  OBVIOUS
  <1>8. f \in [Spots(s) -> G \ {k}]
    BY <1>4, <1>6, <1>7
  <1>9. IsFiniteSet(G \ {k}) /\ Cardinality(G \ {k}) = Cardinality(G) - 1 /\ Cardinality(G) \in Nat
    BY FS_RemoveElement, FS_CardinalityType
  <1>10. IsFiniteSet(Spots(s)) /\ Cardinality(Spots(s)) = s
    BY SpotsCount
  <1>11. Cardinality(G \ {k}) < Cardinality(Spots(s))
    BY <1>9, <1>10
  <1>12. \E x, y \in Spots(s) : x # y /\ f[x] = f[y]
    BY <1>8, <1>9, <1>10, <1>11, FS_PigeonHole
  <1>13. PICK x, y \in Spots(s) : x # y /\ t.node[x].key = t.node[y].key
    BY <1>7, <1>12
  <1>14. KeyOnce(t.node, t.dead, s)
    BY <1>1 DEF Chains
  <1> QED BY <1>4, <1>13, <1>14 DEF KeyOnce

----------------------------------------------------------------------------
(* luaH_resize().                                                          *)

\* The items are inserted one after the other.
LEMMA ResizeIs ==
    ASSUME NEW t, NEW nasize, NEW nhsize, NEW n \in Nat, n = ItemCount(t, nasize)
    PROVE  \E after : /\ Resize(t, nasize, nhsize) = after[n]
                      /\ after[0] = WithNodes(Kept(t, nasize), nhsize)
                      /\ \A i \in 1..n : after[i] = ValuesAfter(after, t, nasize, i)
  <1> DEFINE Is(after, d) == IsResize(after, t, nasize, nhsize, d)
             Bad == {d \in 0..n : ~ \E after : Is(after, d)}
  <1>1. Bad = {}
    <2>1. SUFFICES ASSUME Bad # {} PROVE FALSE  OBVIOUS
    <2>2. Bad \subseteq Nat  OBVIOUS
    <2>3. PICK d \in Bad : \A c \in Bad : d <= c
      <3> HIDE DEF Bad
      <3> QED BY <2>1, <2>2, LeastExists
    <2>4. CASE d = 0
      <3>1. PICK after : after = [i \in 0..0 |-> WithNodes(Kept(t, nasize), nhsize)]  OBVIOUS
      <3>2. after = [i \in 0..0 |-> IF i = 0 THEN WithNodes(Kept(t, nasize), nhsize) ELSE ValuesAfter(after, t, nasize, i)]
        BY <3>1
      <3>3. Is(after, 0)
        BY <3>2 DEF IsResize
      <3> QED BY <2>4, <3>3
    <2>5. CASE d # 0
      <3>0. d \in 0..n /\ d - 1 \in 0..n /\ ~(d <= d - 1)
        BY <2>5
      <3>1. d - 1 \notin Bad
        BY <2>3, <3>0
      <3>2. PICK after : Is(after, d - 1)
        BY <3>0, <3>1
      <3>3. PICK more : more = [i \in 0..d |-> IF i = d THEN ValuesAfter(after, t, nasize, d) ELSE after[i]]
        OBVIOUS
      <3>4. ASSUME NEW i \in 0..d
            PROVE  more[i] = IF i = 0 THEN WithNodes(Kept(t, nasize), nhsize) ELSE ValuesAfter(more, t, nasize, i)
        <4>1. CASE i = d
          <5>1. d - 1 \in 0..d /\ d - 1 # d
            BY <3>0
          <5>2. more[d - 1] = after[d - 1]
            BY <3>3, <5>1
          <5>3. ValuesAfter(more, t, nasize, d) = ValuesAfter(after, t, nasize, d)
            BY <5>2 DEF ValuesAfter
          <5> QED BY <2>5, <3>3, <4>1, <5>3
        <4>2. CASE i # d
          <5>1. i \in 0..(d - 1)
            BY <4>2
          <5>2. after[i] = IF i = 0 THEN WithNodes(Kept(t, nasize), nhsize) ELSE ValuesAfter(after, t, nasize, i)
            BY <3>2, <5>1 DEF IsResize
          <5>3. more[i] = after[i]
            BY <3>3, <4>2
          <5>4. CASE i = 0
            BY <5>2, <5>3, <5>4
          <5>5. CASE i # 0
            <6>1. i - 1 \in 0..d /\ i - 1 # d
              BY <5>1, <5>5
            <6>2. more[i - 1] = after[i - 1]
              BY <3>3, <6>1
            <6>3. ValuesAfter(more, t, nasize, i) = ValuesAfter(after, t, nasize, i)
              BY <6>2 DEF ValuesAfter
            <6> QED BY <5>2, <5>3, <5>5, <6>3
          <5> QED BY <5>4, <5>5
        <4> QED BY <4>1, <4>2
      <3>5. DOMAIN more = 0..d /\ more = [i \in DOMAIN more |-> more[i]]
        BY <3>3
      <3>6. more = [i \in 0..d |-> IF i = 0 THEN WithNodes(Kept(t, nasize), nhsize) ELSE ValuesAfter(more, t, nasize, i)]
        BY <3>4, <3>5
      <3>7. Is(more, d)
        BY <3>6 DEF IsResize
      <3> QED BY <3>7
    <2> QED BY <2>4, <2>5
  <1>2. PICK after : Is(after, n) /\ Resize(t, nasize, nhsize) = after[n]
    <2>1. n \notin Bad
      BY <1>1
    <2>2. \E after : Is(after, n)
      BY <2>1
    <2>3. Is(CHOOSE after : Is(after, n), n)
      BY <2>2
    <2>4. Resize(t, nasize, nhsize) = (CHOOSE after : Is(after, n))[n]
      BY Zenon DEF Resize, IsResize, ValuesAfter, Kept
    <2> QED BY <2>3, <2>4
  <1>3. after[0] = WithNodes(Kept(t, nasize), nhsize) /\ \A i \in 1..n : after[i] = ValuesAfter(after, t, nasize, i)
    BY <1>2 DEF IsResize
  <1> QED BY <1>2, <1>3

\* An item with a value is a field of the table, and a field of the table that
\* does not stay in the array part is one of the items.
LEMMA ItemsAre ==
    ASSUME NEW s \in Nat, NEW t, Sound(t, s), NEW nasize \in Nat
    PROVE  /\ ItemCount(t, nasize) \in Nat
           /\ \A i \in 1..ItemCount(t, nasize) :
                 Item(t, nasize, i).value # NIL =>
                    /\ Item(t, nasize, i).key \in Keys /\ Item(t, nasize, i).value \in Cells
                    /\ Item(t, nasize, i).value = Get(t, Item(t, nasize, i).key)
           /\ \A j \in Asked :
                 Get(t, j) # NIL /\ ~(InArray(t, j) /\ j <= nasize) =>
                    \E i \in 1..ItemCount(t, nasize) :
                       Item(t, nasize, i).key = j /\ Item(t, nasize, i).value = Get(t, j)
  <1>1. t \in TablesOf(s) /\ Chains(t.node, t.dead, s) /\ ArrayFirst(t, s) /\ ArrayOfIndices(t)
    BY DEF Sound
  <1>2. /\ t.array \in Seq(Cells) /\ SizeNode(t) = s /\ DOMAIN t.node = Spots(s)
        /\ \A y \in Spots(s) : t.node[y].key \in Cells /\ t.node[y].value \in Cells
    BY <1>1, TableIs
  <1>3. PICK len \in Nat : len = Len(t.array) /\ len = SizeArray(t)
    BY <1>1, TableIs DEF SizeArray
  <1>4. PICK v \in Nat : v = Vanishing(t, nasize) /\ v = IF nasize < len THEN len - nasize ELSE 0
    BY <1>3 DEF Vanishing
  <1>5. PICK n \in Nat : n = ItemCount(t, nasize) /\ n = v + s
    <2>1. v + s \in Nat  OBVIOUS
    <2>2. ItemCount(t, nasize) = v + s
      BY <1>2, <1>4 DEF ItemCount
    <2> QED BY <2>1, <2>2
  <1>6. ASSUME NEW i \in 1..n, i <= v
        PROVE  /\ nasize + i \in 1..len
               /\ Item(t, nasize, i).key = nasize + i /\ Item(t, nasize, i).value = t.array[nasize + i]
    <2>1. nasize + i \in 1..len
      BY <1>4, <1>6
    <2> QED BY <1>4, <1>6, <2>1 DEF Item
  <1>7. ASSUME NEW i \in 1..n, ~(i <= v)
        PROVE  /\ n - i \in Spots(s)
               /\ Item(t, nasize, i).key = t.node[n - i].key /\ Item(t, nasize, i).value = t.node[n - i].value
    <2>1. n - i \in Spots(s)
      BY <1>5, <1>7 DEF Spots
    <2> QED BY <1>4, <1>5, <1>7, <2>1 DEF Item
  <1>8. ASSUME NEW i \in 1..n, Item(t, nasize, i).value # NIL
        PROVE  /\ Item(t, nasize, i).key \in Keys /\ Item(t, nasize, i).value \in Cells
               /\ Item(t, nasize, i).value = Get(t, Item(t, nasize, i).key)
    <2>1. CASE i <= v
      <3>1. PICK j \in 1..len : j = nasize + i /\ Item(t, nasize, i).key = j /\ Item(t, nasize, i).value = t.array[j]
        BY <1>6, <2>1
      <3>2. j \in Indices
        BY <1>1, <1>3, <1>8, <3>1 DEF ArrayOfIndices
      <3>3. j \in Keys /\ j \notin Names
        BY <3>2, IndexIs
      <3>4. InArray(t, j)
        BY <1>3, <3>3 DEF InArray
      <3>5. Get(t, j) = t.array[j]
        BY <3>4 DEF Get
      <3>6. t.array[j] \in Cells
        <4>1. \A q \in Seq(Cells) : \A x \in 1..Len(q) : q[x] \in Cells  OBVIOUS
        <4>2. j \in 1..Len(t.array)
          BY <1>3
        <4> QED BY <1>2, <4>1, <4>2
      <3> QED BY <3>1, <3>3, <3>5, <3>6
    <2>2. CASE ~(i <= v)
      <3>1. PICK y \in Spots(s) : Item(t, nasize, i).key = t.node[y].key /\ Item(t, nasize, i).value = t.node[y].value
        BY <1>7, <2>2
      <3>2. y \notin t.dead /\ t.node[y].key \in Keys
        BY <1>8, <3>1, ValueMeansKey
      <3>3. ~InArray(t, t.node[y].key)
        BY <1>1, <3>2, NilApart DEF ArrayFirst
      <3>4. t.node[y].key \in Names \union 1..(MaxInt + 1)
        BY <3>2, KeyAsked DEF Asked
      <3>5. Get(t, t.node[y].key) = t.node[y].value
        BY <1>1, <3>2, <3>3, <3>4, GetIs
      <3> QED BY <1>2, <3>1, <3>2, <3>5
    <2> QED BY <2>1, <2>2
  <1>9. ASSUME NEW j \in Asked, Get(t, j) # NIL, ~(InArray(t, j) /\ j <= nasize)
        PROVE  \E i \in 1..n : Item(t, nasize, i).key = j /\ Item(t, nasize, i).value = Get(t, j)
    <2>1. j \in Names \union 1..(MaxInt + 1) /\ (j \notin Names => j \in Nat /\ j >= 1)
      BY AskedIs
    <2>2. CASE InArray(t, j)
      <3>1. j \in Nat /\ j <= len /\ j > nasize
        BY <1>3, <1>9, <2>1, <2>2 DEF InArray
      <3>2. PICK i \in 1..n : i <= v /\ nasize + i = j
        <4>1. nasize < len
          BY <3>1
        <4>2. v = len - nasize
          BY <1>4, <4>1
        <4>3. j - nasize \in 1..n /\ j - nasize <= v /\ nasize + (j - nasize) = j
          BY <1>5, <3>1, <4>2
        <4> QED BY <4>3
      <3>3. Item(t, nasize, i).key = j /\ Item(t, nasize, i).value = t.array[j]
        BY <1>6, <3>2
      <3>4. Get(t, j) = t.array[j]
        BY <2>2 DEF Get
      <3> QED BY <3>3, <3>4
    <2>3. CASE ~InArray(t, j)
      <3>1. PICK y \in Spots(s) : t.node[y].key = j /\ Get(t, j) = t.node[y].value
        BY <1>1, <1>9, <2>1, <2>3, GetIs
      <3>2. PICK i \in 1..n : ~(i <= v) /\ n - i = y
        <4>1. n - y \in 1..n /\ ~(n - y <= v) /\ n - (n - y) = y
          BY <1>5 DEF Spots
        <4> QED BY <4>1
      <3>3. Item(t, nasize, i).key = t.node[y].key /\ Item(t, nasize, i).value = t.node[y].value
        BY <1>7, <3>2
      <3> QED BY <3>1, <3>3
    <2> QED BY <2>2, <2>3
  <1> QED BY <1>5, <1>8, <1>9

LEMMA KeptIs ==
    ASSUME NEW s \in Nat, NEW t, Sound(t, s), NEW nasize \in Nat
    PROVE  /\ Kept(t, nasize) \in Seq(Cells) /\ Len(Kept(t, nasize)) = nasize
           /\ \A i \in 1..nasize : Kept(t, nasize)[i] = IF i <= SizeArray(t) THEN t.array[i] ELSE NIL
           /\ \A i \in 1..nasize : Kept(t, nasize)[i] # NIL => i \in Indices
  <1>1. t \in TablesOf(s) /\ ArrayOfIndices(t)
    BY DEF Sound
  <1>2. t.array \in Seq(Cells) /\ SizeArray(t) = Len(t.array) /\ Len(t.array) \in Nat
    BY <1>1, TableIs DEF SizeArray
  <1>3. PICK kept : kept = [i \in 1..nasize |-> IF i <= SizeArray(t) THEN t.array[i] ELSE NIL]
    OBVIOUS
  <1>4. kept = Kept(t, nasize)
    BY <1>3 DEF Kept
  <1>5. ASSUME NEW i \in 1..nasize
        PROVE  kept[i] \in Cells /\ (kept[i] # NIL => i \in Indices)
    <2>1. CASE i <= SizeArray(t)
      <3>1. i \in 1..Len(t.array) /\ kept[i] = t.array[i]
        BY <1>2, <1>3, <2>1
      <3>2. \A q \in Seq(Cells) : \A x \in 1..Len(q) : q[x] \in Cells  OBVIOUS
      <3> QED BY <1>1, <1>2, <3>1, <3>2 DEF ArrayOfIndices
    <2>2. CASE ~(i <= SizeArray(t))
      BY <1>3, <2>2 DEF Cells
    <2> QED BY <2>1, <2>2
  <1>6. kept \in [1..nasize -> Cells]
    BY <1>3, <1>5
  <1>7. \A f \in [1..nasize -> Cells] : f \in Seq(Cells) /\ Len(f) = nasize  OBVIOUS
  <1>8. kept \in Seq(Cells) /\ Len(kept) = nasize
    BY <1>6, <1>7
  <1> QED BY <1>3, <1>4, <1>5, <1>8

LEMMA ReinsertedNone ==
    ASSUME NEW s \in Nat, NEW t, Sound(t, s), NEW nasize \in Nat, NEW nhsize \in Nat,
           NEW s2, s2 = NodeCount(nhsize), NEW G
    PROVE  Reinserted(WithNodes(Kept(t, nasize), nhsize), t, s2, nasize, G, 0)
  <1>1. PICK kept : kept = Kept(t, nasize)  OBVIOUS
  <1>2. /\ kept \in Seq(Cells) /\ Len(kept) = nasize
        /\ \A i \in 1..nasize : kept[i] = IF i <= SizeArray(t) THEN t.array[i] ELSE NIL
        /\ \A i \in 1..nasize : kept[i] # NIL => i \in Indices
    BY <1>1, KeptIs
  <1>3. PICK u : u = WithNodes(kept, nhsize)  OBVIOUS
  <1>4. Sound(u, s2) /\ u.array = kept /\ u.dead = {} /\ \A y \in Spots(s2) : u.node[y].key = NIL
    BY <1>2, <1>3, WithNodesSound
  <1>5. SizeArray(u) = nasize
    BY <1>2, <1>4 DEF SizeArray
  <1>6. s2 \in Nat /\ u \in TablesOf(s2) /\ Chains(u.node, u.dead, s2)
    BY <1>4, NodeCountIs DEF Sound
  <1>7. ASSUME NEW j \in Asked
        PROVE  Get(u, j) = IF InArray(t, j) /\ j <= nasize THEN Get(t, j) ELSE NIL
    <2>1. j # NIL /\ j \in Names \union 1..(MaxInt + 1) /\ (j \notin Names => j \in Nat /\ j >= 1)
      BY AskedIs
    <2>2. CASE InArray(u, j)
      <3>1. j \in 1..nasize /\ j \notin Names
        BY <1>5, <2>1, <2>2 DEF InArray
      <3>2. Get(u, j) = kept[j]
        BY <1>4, <2>2 DEF Get
      <3>3. InArray(t, j) <=> j <= SizeArray(t)
        BY <3>1 DEF InArray
      <3>4. InArray(t, j) => Get(t, j) = t.array[j]
        BY DEF Get
      <3>5. j <= nasize
        BY <3>1
      <3> QED BY <1>2, <3>1, <3>2, <3>3, <3>4, <3>5
    <2>3. CASE ~InArray(u, j)
      <3>1. ~(InArray(t, j) /\ j <= nasize)
        BY <1>5, <2>3 DEF InArray
      <3>2. (\A x \in Spots(s2) \ u.dead : u.node[x].key # j) => Get(u, j) = NIL
        BY <1>6, <2>1, <2>3, GetIs
      <3> QED BY <1>4, <2>1, <3>1, <3>2
    <2> QED BY <2>2, <2>3
  <1>8. Reinserted(u, t, s2, nasize, G, 0)
    <2>1. \A p \in 1..0 : FALSE  OBVIOUS
    <2> QED BY <1>4, <1>5, <1>7, <2>1 DEF Reinserted
  <1> QED BY <1>1, <1>3, <1>8

LEMMA ReinsertedOne ==
    ASSUME NEW s \in Nat, NEW t, Sound(t, s), NEW nasize \in Nat, NEW s2 \in Nat,
           NEW G, IsFiniteSet(G), Cardinality(G) <= s2,
           \A j \in Keys : Get(t, j) # NIL /\ ~(j \notin Names /\ j <= nasize) => j \in G,
           NEW i \in 1..ItemCount(t, nasize), NEW u, Reinserted(u, t, s2, nasize, G, i - 1),
           Item(t, nasize, i).value # NIL
    PROVE  Reinserted(Insert(u, Item(t, nasize, i).key, Item(t, nasize, i).value), t, s2, nasize, G, i)
  <1>1. PICK k, v : k = Item(t, nasize, i).key /\ v = Item(t, nasize, i).value  OBVIOUS
  <1>2. k \in Keys /\ v \in Cells /\ v = Get(t, k) /\ v # NIL
    BY <1>1, ItemsAre
  <1>3. /\ Sound(u, s2) /\ u.dead = {} /\ SizeArray(u) = nasize
        /\ \A y \in Spots(s2) : u.node[y].key \in G \union {NIL}
    BY DEF Reinserted
  <1>4. ~Full(u, k)
    <2>1. CASE k \notin Names /\ k <= nasize
      BY <1>3, <2>1 DEF Full, InArray
    <2>2. CASE ~(k \notin Names /\ k <= nasize)
      <3>1. k \in G
        BY <1>2, <2>2
      <3> QED BY <1>2, <1>3, <3>1, NotFull
    <2> QED BY <2>1, <2>2
  <1>5. PICK w : w = Insert(u, k, v)  OBVIOUS
  <1>6. /\ Sound(w, s2) /\ Updated(u, w, k, v) /\ SizeArray(w) = SizeArray(u)
        /\ InArray(u, k) => w.node = u.node
        /\ \A y \in Spots(s2) \ w.dead : w.node[y].key \notin {NIL, k} =>
              \E x \in Spots(s2) \ u.dead : u.node[x].key = w.node[y].key
        /\ w.dead = {}
    BY <1>2, <1>3, <1>4, <1>5, InsertSound
  <1>7. ASSUME NEW y \in Spots(s2) PROVE w.node[y].key \in G \union {NIL}
    <2>1. CASE InArray(u, k)
      BY <1>3, <1>6, <2>1
    <2>2. CASE ~InArray(u, k)
      <3>1. k \in G
        BY <1>2, <1>3, <2>2 DEF InArray
      <3> QED BY <1>3, <1>6, <3>1
    <2> QED BY <2>1, <2>2
  <1>8. \A j \in Asked : Get(w, j) = IF j = k THEN v ELSE Get(u, j)
    BY <1>6 DEF Updated
  <1>9. \A j \in Asked : Get(w, j) # NIL => Get(w, j) = Get(t, j)
    BY <1>2, <1>8 DEF Reinserted
  <1>10. \A j \in Asked : InArray(t, j) /\ j <= nasize => Get(w, j) = Get(t, j)
    BY <1>2, <1>8 DEF Reinserted
  <1>11. ASSUME NEW p \in 1..i, Item(t, nasize, p).value # NIL
         PROVE  Get(w, Item(t, nasize, p).key) = Item(t, nasize, p).value
    <2>1. PICK j, x : j = Item(t, nasize, p).key /\ x = Item(t, nasize, p).value  OBVIOUS
    <2>2. p \in 1..ItemCount(t, nasize)
      BY ItemsAre
    <2>3. j \in Keys /\ x = Get(t, j)
      BY <1>11, <2>1, <2>2, ItemsAre
    <2>4. j \in Asked
      BY <2>3, KeyAsked
    <2>5. CASE p = i
      BY <1>1, <1>8, <2>1, <2>4, <2>5
    <2>6. CASE p # i
      <3>1. p \in 1..(i - 1)
        BY <2>2, <2>6, ItemsAre
      <3>2. Get(u, j) = x
        BY <1>11, <2>1, <3>1 DEF Reinserted
      <3> QED BY <1>2, <1>8, <2>1, <2>3, <2>4, <3>2
    <2> QED BY <2>5, <2>6
  <1>12. Reinserted(w, t, s2, nasize, G, i)
    BY <1>3, <1>6, <1>7, <1>9, <1>10, <1>11 DEF Reinserted
  <1> QED BY <1>1, <1>5, <1>12

\* A resized table is sound, of the size asked for, and no field is lost, if
\* there are nodes for all keys that do not go to the array part.
LEMMA ResizeSound ==
    ASSUME NEW s \in Nat, NEW t, Sound(t, s), NEW nasize \in Nat, NEW nhsize \in Nat,
           NEW s2, s2 = NodeCount(nhsize),
           NEW G, IsFiniteSet(G), Cardinality(G) <= nhsize,
           \A j \in Keys : Get(t, j) # NIL /\ ~(j \notin Names /\ j <= nasize) => j \in G
    PROVE  /\ s2 \in Nat /\ nhsize <= s2
           /\ Sound(Resize(t, nasize, nhsize), s2) /\ Resize(t, nasize, nhsize).dead = {}
           /\ SizeArray(Resize(t, nasize, nhsize)) = nasize
           /\ \A y \in Spots(s2) : Resize(t, nasize, nhsize).node[y].key \in G \union {NIL}
           /\ \A j \in Asked : Get(Resize(t, nasize, nhsize), j) = Get(t, j)
  <1>1. s2 \in Nat /\ nhsize <= s2
    BY NodeCountIs
  <1>2. PICK n \in Nat : n = ItemCount(t, nasize)
    BY ItemsAre
  <1>3. PICK after : /\ Resize(t, nasize, nhsize) = after[n]
                     /\ after[0] = WithNodes(Kept(t, nasize), nhsize)
                     /\ \A i \in 1..n : after[i] = ValuesAfter(after, t, nasize, i)
    BY <1>2, ResizeIs
  <1>4. Cardinality(G) <= s2
    <2>1. Cardinality(G) \in Nat
      BY FS_CardinalityType
    <2> QED BY <1>1, <2>1
  <1> DEFINE Bad == {d \in 0..n : ~Reinserted(after[d], t, s2, nasize, G, d)}
  <1>5. Bad = {}
    <2>1. SUFFICES ASSUME Bad # {} PROVE FALSE  OBVIOUS
    <2>2. Bad \subseteq Nat  OBVIOUS
    <2>3. PICK d \in Bad : \A c \in Bad : d <= c
      <3> HIDE DEF Bad
      <3> QED BY <2>1, <2>2, LeastExists
    <2>4. Reinserted(after[0], t, s2, nasize, G, 0)
      BY <1>3, ReinsertedNone
    <2>5. d # 0
      BY <2>3, <2>4
    <2>6. d \in 1..n /\ d - 1 \in 0..n /\ ~(d <= d - 1)
      BY <2>5
    <2>7. d - 1 \notin Bad
      BY <2>3, <2>6
    <2>8. Reinserted(after[d - 1], t, s2, nasize, G, d - 1)
      BY <2>6, <2>7
    <2>9. after[d] = ValuesAfter(after, t, nasize, d)
      BY <1>3, <2>6
    <2>10. CASE Item(t, nasize, d).value = NIL
      <3>1. after[d] = after[d - 1]
        BY <2>9, <2>10 DEF ValuesAfter
      <3>2. \A p \in 1..d : Item(t, nasize, p).value # NIL => p \in 1..(d - 1)
        <4>1. ASSUME NEW p \in 1..d, Item(t, nasize, p).value # NIL PROVE p \in 1..(d - 1)
          <5>1. p # d
            BY <2>10, <4>1
          <5> QED BY <2>6, <5>1
        <4> QED BY <4>1
      <3>3. Reinserted(after[d], t, s2, nasize, G, d)
        BY <2>8, <3>1, <3>2 DEF Reinserted
      <3> QED BY <3>3
    <2>11. CASE Item(t, nasize, d).value # NIL
      <3>1. after[d] = Insert(after[d - 1], Item(t, nasize, d).key, Item(t, nasize, d).value)
        BY <2>9, <2>11 DEF ValuesAfter
      <3>2. PICK u : u = after[d - 1]  OBVIOUS
      <3>3. Reinserted(u, t, s2, nasize, G, d - 1) /\ d \in 1..ItemCount(t, nasize)
        BY <1>2, <2>6, <2>8, <3>2
      <3>4. Reinserted(Insert(u, Item(t, nasize, d).key, Item(t, nasize, d).value), t, s2, nasize, G, d)
        BY <1>1, <1>4, <2>11, <3>3, ReinsertedOne
      <3>5. Reinserted(after[d], t, s2, nasize, G, d)
        BY <3>1, <3>2, <3>4
      <3> QED BY <3>5
    <2> QED BY <2>10, <2>11
  <1>6. PICK u : u = Resize(t, nasize, nhsize)  OBVIOUS
  <1>7. Reinserted(u, t, s2, nasize, G, n)
    <2>1. n \in 0..n /\ n \notin Bad
      BY <1>5
    <2> QED BY <1>3, <1>6, <2>1
  <1>8. /\ Sound(u, s2) /\ u.dead = {} /\ SizeArray(u) = nasize
        /\ \A y \in Spots(s2) : u.node[y].key \in G \union {NIL}
        /\ \A j \in Asked : Get(u, j) # NIL => Get(u, j) = Get(t, j)
        /\ \A j \in Asked : InArray(t, j) /\ j <= nasize => Get(u, j) = Get(t, j)
        /\ \A p \in 1..n : Item(t, nasize, p).value # NIL =>
              Get(u, Item(t, nasize, p).key) = Item(t, nasize, p).value
    BY <1>7 DEF Reinserted
  <1>9. ASSUME NEW j \in Asked PROVE Get(u, j) = Get(t, j)
    <2>1. CASE Get(t, j) = NIL \/ (InArray(t, j) /\ j <= nasize)
      BY <1>8, <2>1
    <2>2. CASE Get(t, j) # NIL /\ ~(InArray(t, j) /\ j <= nasize)
      <3>1. PICK p \in 1..n : Item(t, nasize, p).key = j /\ Item(t, nasize, p).value = Get(t, j)
        BY <1>2, <2>2, ItemsAre
      <3> QED BY <1>8, <2>2, <3>1
    <2> QED BY <2>1, <2>2
  <1> QED BY <1>1, <1>6, <1>8, <1>9

----------------------------------------------------------------------------
(* rehash() and luaH_set().                                                *)

LEMMA CountedIs ==
    ASSUME NEW s \in Nat, NEW t, Sound(t, s), NEW k \in Keys
    PROVE  /\ IsFiniteSet(Counted(t, k)) /\ IsFiniteSet(UsedIndices(t)) /\ IsFiniteSet(UsedNodes(t))
           /\ Cardinality(Counted(t, k)) <= Cardinality(UsedIndices(t)) + Cardinality(UsedNodes(t)) + 1
           /\ \A j \in Keys : Get(t, j) # NIL => j \in Counted(t, k)
           /\ Integral(t, k) = Counted(t, k) \intersect Indices
  <1>1. t \in TablesOf(s) /\ Chains(t.node, t.dead, s) /\ ArrayOfIndices(t)
    BY DEF Sound
  <1>2. t.array \in Seq(Cells) /\ SizeArray(t) = Len(t.array) /\ Len(t.array) \in Nat /\ DOMAIN t.node = Spots(s)
    BY <1>1, TableIs DEF SizeArray
  <1>3. IsFiniteSet(UsedIndices(t)) /\ Cardinality(UsedIndices(t)) \in Nat
    <2>1. IsFiniteSet(1..Len(t.array))
      <3>1. 1 \in Int /\ Len(t.array) \in Int
        BY <1>2
      <3> QED BY <3>1, FS_Interval
    <2>2. UsedIndices(t) \in SUBSET (1..Len(t.array))
      BY <1>2 DEF UsedIndices
    <2>3. IsFiniteSet(UsedIndices(t))
      BY <2>1, <2>2, FS_Subset
    <2> QED BY <2>3, FS_CardinalityType
  <1>4. IsFiniteSet(UsedNodes(t)) /\ Cardinality(UsedNodes(t)) \in Nat
    <2>1. UsedNodes(t) \in SUBSET Spots(s)
      BY <1>2 DEF UsedNodes
    <2>2. IsFiniteSet(UsedNodes(t))
      BY <2>1, SpotsCount, FS_Subset
    <2> QED BY <2>2, FS_CardinalityType
  <1>5. PICK K : K = {t.node[n].key : n \in UsedNodes(t)}  OBVIOUS
  <1>6. IsFiniteSet(K) /\ Cardinality(K) <= Cardinality(UsedNodes(t)) /\ Cardinality(K) \in Nat
    <2>1. PICK f : f = [n \in UsedNodes(t) |-> t.node[n].key]  OBVIOUS
    <2>2. f \in Surjection(UsedNodes(t), K)
      BY <1>5, <2>1 DEF Surjection
    <2>3. IsFiniteSet(K) /\ Cardinality(K) <= Cardinality(UsedNodes(t))
      BY <1>4, <2>2, FS_Surjection
    <2> QED BY <2>3, FS_CardinalityType
  <1>7. PICK U : U = UsedIndices(t) \union K  OBVIOUS
  <1>8. /\ IsFiniteSet(U) /\ Cardinality(U) \in Nat
        /\ Cardinality(U) <= Cardinality(UsedIndices(t)) + Cardinality(UsedNodes(t))
    <2>1. /\ IsFiniteSet(U)
          /\ Cardinality(U) = Cardinality(UsedIndices(t)) + Cardinality(K) - Cardinality(UsedIndices(t) \cap K)
      BY <1>3, <1>6, <1>7, FS_Union
    <2>2. Cardinality(UsedIndices(t) \cap K) \in Nat
      <3>1. IsFiniteSet(UsedIndices(t) \cap K)
        BY <1>3, FS_Intersection
      <3> QED BY <3>1, FS_CardinalityType
    <2>3. Cardinality(U) \in Nat
      BY <2>1, FS_CardinalityType
    <2> QED BY <1>3, <1>4, <1>6, <2>1, <2>2, <2>3
  <1>9. Counted(t, k) = U \cup {k}
    BY <1>5, <1>7 DEF Counted
  <1>10. IsFiniteSet(U \cup {k}) /\ Cardinality(U \cup {k}) <= Cardinality(U) + 1 /\ Cardinality(U \cup {k}) \in Nat
    <2>1. IsFiniteSet(U \cup {k}) /\ Cardinality(U \cup {k}) = IF k \in U THEN Cardinality(U) ELSE Cardinality(U) + 1
      BY <1>8, FS_AddElement
    <2> QED BY <1>8, <2>1
  <1>11. Cardinality(U \cup {k}) <= Cardinality(UsedIndices(t)) + Cardinality(UsedNodes(t)) + 1
    BY <1>3, <1>4, <1>8, <1>10
  <1>12. ASSUME NEW j \in Keys, Get(t, j) # NIL PROVE j \in U
    <2>1. j \in Names \union 1..(MaxInt + 1) /\ (j \notin Names => j \in Nat /\ j >= 1)
      BY KeyAsked DEF Asked
    <2>2. CASE InArray(t, j)
      <3>1. j \in 1..Len(t.array) /\ Get(t, j) = t.array[j]
        BY <1>2, <2>1, <2>2 DEF InArray, Get
      <3> QED BY <1>2, <1>7, <1>12, <3>1 DEF UsedIndices
    <2>3. CASE ~InArray(t, j)
      <3>1. PICK y \in Spots(s) : t.node[y].key = j /\ Get(t, j) = t.node[y].value
        BY <1>1, <1>12, <2>1, <2>3, GetIs
      <3>2. y \in UsedNodes(t)
        BY <1>2, <1>12, <3>1 DEF UsedNodes
      <3> QED BY <1>5, <1>7, <3>1, <3>2
    <2> QED BY <2>2, <2>3
  <1>13. Integral(t, k) = (U \cup {k}) \intersect Indices
    <2>1. UsedIndices(t) \subseteq Indices
      BY <1>1, <1>2 DEF UsedIndices, ArrayOfIndices
    <2> QED BY <1>5, <1>7, <2>1 DEF Integral
  <1> QED BY <1>3, <1>4, <1>9, <1>10, <1>11, <1>12, <1>13

\* computesizes() gives a size and the number of keys that go there.
LEMMA ComputeSizesIs ==
    ASSUME NEW m \in Nat, NEW used, used \subseteq 1..m
    PROVE  \E n \in Nat : ComputeSizes(used) = <<n, Cardinality({k \in used : k <= n})>>
  <1>1. PICK dense : dense = {i \in {CeilLog2(k) : k \in used} :
                                 Cardinality({k \in used : k <= TwoTo(i)}) > TwoTo(i) \div 2}
    OBVIOUS
  <1>2. PICK n : n = IF dense = {} THEN 0 ELSE TwoTo(Max(dense))  OBVIOUS
  <1>3. ComputeSizes(used) = <<n, Cardinality({k \in used : k <= n})>>
    BY <1>1, <1>2 DEF ComputeSizes
  <1>4. dense \subseteq 0..m
    <2>1. ASSUME NEW k \in used PROVE CeilLog2(k) \in 0..m
      <3>1. k \in Nat /\ k <= m  OBVIOUS
      <3>2. CeilLog2(k) \in 0..k
        BY <3>1, CeilLog2Is
      <3> QED BY <3>1, <3>2
    <2> QED BY <1>1, <2>1
  <1>5. n \in Nat
    <2>1. CASE dense = {}
      BY <1>2, <2>1
    <2>2. CASE dense # {}
      <3>0. Max(dense) \in dense
        BY <1>4, <2>2, MaxIs
      <3>1. Max(dense) \in Nat
        <4>1. Max(dense) \in 0..m
          BY <1>4, <3>0
        <4>2. \A x \in 0..m : x \in Nat  OBVIOUS
        <4> QED BY <4>1, <4>2
      <3> QED BY <1>2, <2>2, <3>1, TwoToExceeds
    <2> QED BY <2>1, <2>2
  <1> QED BY <1>3, <1>5

\* A rehash loses nothing, and makes room for k.
LEMMA RehashSound ==
    ASSUME NEW s \in Nat, NEW t, Sound(t, s), NEW k \in Keys
    PROVE  \E s2 \in Nat : /\ Sound(Rehash(t, k), s2) /\ ~Full(Rehash(t, k), k)
                           /\ \A j \in Asked : Get(Rehash(t, k), j) = Get(t, j)
  <1>1. PICK A : A = Counted(t, k)  OBVIOUS
  <1>2. PICK total : total = Cardinality(UsedIndices(t)) + Cardinality(UsedNodes(t)) + 1  OBVIOUS
  <1>3. /\ IsFiniteSet(A) /\ Cardinality(A) \in Nat /\ Cardinality(A) <= total /\ total \in Nat
        /\ \A j \in Keys : Get(t, j) # NIL => j \in A
        /\ Integral(t, k) = A \intersect Indices
        /\ k \in A
    <2>1. /\ IsFiniteSet(A) /\ IsFiniteSet(UsedIndices(t)) /\ IsFiniteSet(UsedNodes(t))
          /\ Cardinality(A) <= total
          /\ \A j \in Keys : Get(t, j) # NIL => j \in A
          /\ Integral(t, k) = A \intersect Indices
      BY <1>1, <1>2, CountedIs
    <2>2. Cardinality(A) \in Nat /\ Cardinality(UsedIndices(t)) \in Nat /\ Cardinality(UsedNodes(t)) \in Nat
      BY <2>1, FS_CardinalityType
    <2>3. total \in Nat
      BY <1>2, <2>2
    <2>4. k \in A
      BY <1>1 DEF Counted
    <2> QED BY <2>1, <2>2, <2>3, <2>4
  <1>4. PICK used : used = A \intersect Indices  OBVIOUS
  <1>5. used \subseteq 1..MaxInt /\ MaxInt \in Nat
    BY <1>4, KeysAssumption
  <1>6. PICK n \in Nat : ComputeSizes(used) = <<n, Cardinality({x \in used : x <= n})>>
    BY <1>5, ComputeSizesIs
  <1>7. PICK Low : Low = {x \in used : x <= n}  OBVIOUS
  <1>8. PICK G : G = A \ Low  OBVIOUS
  <1>9. IsFiniteSet(Low) /\ Cardinality(Low) \in Nat /\ Cardinality(Low) <= Cardinality(A)
    <2>1. Low \in SUBSET A
      BY <1>4, <1>7
    <2>2. IsFiniteSet(Low) /\ Cardinality(Low) <= Cardinality(A)
      BY <1>3, <2>1, FS_Subset
    <2> QED BY <2>2, FS_CardinalityType
  <1>10. IsFiniteSet(G) /\ Cardinality(G) = Cardinality(A) - Cardinality(Low)
    <2>1. A \cap Low = Low
      BY <1>4, <1>7
    <2>2. IsFiniteSet(G) /\ Cardinality(G) = Cardinality(A) - Cardinality(A \cap Low)
      BY <1>3, <1>8, FS_Difference
    <2> QED BY <2>1, <2>2
  <1>11. PICK nh : nh = total - Cardinality(Low)  OBVIOUS
  <1>12. nh \in Nat /\ Cardinality(G) <= nh /\ Cardinality(G) \in Nat
    BY <1>3, <1>9, <1>10, <1>11
  <1>13. ASSUME NEW j \in A, j \in Keys, ~(j \notin Names /\ j <= n) PROVE j \in G
    <2>1. j \notin Low
      <3>1. ASSUME j \in Low PROVE FALSE
        <4>1. j \in Indices /\ j <= n
          BY <1>4, <1>7, <3>1
        <4>2. j \notin Names
          BY <4>1, IndexIs
        <4> QED BY <1>13, <4>1, <4>2
      <3> QED BY <3>1
    <2> QED BY <1>8, <2>1
  <1>14. \A j \in Keys : Get(t, j) # NIL /\ ~(j \notin Names /\ j <= n) => j \in G
    BY <1>3, <1>13
  <1>15. Rehash(t, k) = Resize(t, n, nh)
    <2>1. ComputeSizes(used)[1] = n /\ ComputeSizes(used)[2] = Cardinality(Low)
      BY <1>6, <1>7
    <2>2. Rehash(t, k) = Resize(t, ComputeSizes(Integral(t, k))[1], total - ComputeSizes(Integral(t, k))[2])
      BY <1>2 DEF Rehash, Integral
    <2>3. Integral(t, k) = used
      BY <1>3, <1>4
    <2> QED BY <1>11, <2>1, <2>2, <2>3
  <1>16. PICK s2 : s2 = NodeCount(nh)  OBVIOUS
  <1>17. PICK u : u = Resize(t, n, nh)  OBVIOUS
  <1>18. /\ s2 \in Nat /\ nh <= s2
         /\ Sound(u, s2) /\ u.dead = {} /\ SizeArray(u) = n
         /\ \A y \in Spots(s2) : u.node[y].key \in G \union {NIL}
         /\ \A j \in Asked : Get(u, j) = Get(t, j)
    BY <1>10, <1>12, <1>14, <1>16, <1>17, ResizeSound
  <1>19. ~Full(u, k)
    <2>1. CASE k \notin Names /\ k <= n
      BY <1>18, <2>1 DEF Full, InArray
    <2>2. CASE ~(k \notin Names /\ k <= n)
      <3>1. k \in G
        BY <1>3, <1>13, <2>2
      <3>2. Cardinality(G) <= s2
        BY <1>12, <1>18
      <3> QED BY <1>10, <1>18, <3>1, <3>2, NotFull
    <2> QED BY <2>1, <2>2
  <1> QED BY <1>15, <1>17, <1>18, <1>19

\* An assignment gives the key its value, and no other key another one.
LEMMA PutSound ==
    ASSUME NEW s \in Nat, NEW t, Sound(t, s), NEW k \in Keys, NEW v \in Cells
    PROVE  \E s2 \in Nat : Sound(Put(t, k, v), s2) /\ Updated(t, Put(t, k, v), k, v)
  <1>1. CASE ~Full(t, k)
    <2>1. Put(t, k, v) = Insert(t, k, v)
      BY <1>1 DEF Put
    <2>2. Sound(Insert(t, k, v), s) /\ Updated(t, Insert(t, k, v), k, v)
      BY <1>1, InsertSound
    <2> QED BY <2>1, <2>2
  <1>2. CASE Full(t, k)
    <2>1. PICK u : u = Rehash(t, k)  OBVIOUS
    <2>2. PICK s2 \in Nat : Sound(u, s2) /\ ~Full(u, k) /\ \A j \in Asked : Get(u, j) = Get(t, j)
      BY <2>1, RehashSound
    <2>3. PICK w : w = Insert(u, k, v)  OBVIOUS
    <2>4. Sound(w, s2) /\ Updated(u, w, k, v)
      BY <2>2, <2>3, InsertSound
    <2>5. Put(t, k, v) = w
      BY <1>2, <2>1, <2>3 DEF Put
    <2>6. Updated(t, w, k, v)
      BY <2>2, <2>4 DEF Updated
    <2> QED BY <2>4, <2>5, <2>6
  <1> QED BY <1>1, <1>2

----------------------------------------------------------------------------
(* luaH_getn().                                                            *)

\* What each round of a loop that ends keeps, the loop keeps.
LEMMA WhileKeeps ==
    ASSUME NEW S, NEW Goes \in [S -> S], NEW stop, NEW rank \in [S -> Nat],
           \A x \in S : x \notin stop => rank[Goes[x]] < rank[x],
           NEW good, \A x \in S : x \in good /\ x \notin stop => Goes[x] \in good
    PROVE  \A x \in S : x \in good => While(Goes, stop)[x] \in good
  <1> DEFINE Bad == {x \in S : x \in good /\ While(Goes, stop)[x] \notin good}
             Ranks == {rank[x] : x \in Bad}
  <1>1. SUFFICES ASSUME Bad # {} PROVE FALSE  OBVIOUS
  <1>2. Ranks \subseteq Nat /\ Ranks # {}
    BY <1>1
  <1>3. PICK r \in Ranks : \A c \in Ranks : r <= c
    <2> HIDE DEF Ranks
    <2> QED BY <1>2, LeastExists
  <1>4. PICK x \in Bad : r = rank[x]  OBVIOUS
  <1>5. While(Goes, stop)[x] = IF x \in stop THEN x ELSE While(Goes, stop)[Goes[x]]
    BY WhileIs
  <1>6. x \notin stop /\ While(Goes, stop)[Goes[x]] \notin good /\ Goes[x] \in S /\ Goes[x] \in good
    BY <1>5
  <1>7. Goes[x] \in Bad /\ rank[Goes[x]] < rank[x]
    BY <1>6
  <1>8. rank[Goes[x]] \in Ranks
    BY <1>7
  <1>9. rank[x] <= rank[Goes[x]] /\ rank[x] \in Nat /\ rank[Goes[x]] \in Nat
    BY <1>3, <1>4, <1>6, <1>8
  <1> QED BY <1>7, <1>9

\* The binary search between a border below and nil above finds a border.
LEMMA BisectIs ==
    ASSUME NEW t, NEW i \in Nat, NEW j \in Nat, i < j, i = 0 \/ Get(t, i) # NIL, Get(t, j) = NIL
    PROVE  \E n \in 0..(j - 1) : /\ n = Bisect(t, i, j) /\ Get(t, n + 1) = NIL
                                 /\ n = 0 \/ Get(t, n) # NIL
  <1>1. PICK pairs : pairs = (0..j) \X (0..j)  OBVIOUS
  <1>2. PICK halve : halve = [p \in pairs |-> LET m == (p[1] + p[2]) \div 2
                                              IN  IF Get(t, m) = NIL THEN <<p[1], m>> ELSE <<m, p[2]>>]
    OBVIOUS
  <1>3. PICK stop : stop = {p \in pairs : p[2] - p[1] <= 1}  OBVIOUS
  <1>4. PICK rank : rank = [p \in pairs |-> IF p[1] < p[2] THEN p[2] - p[1] ELSE 0]  OBVIOUS
  <1>5. PICK good : good = {p \in pairs : /\ p[1] < p[2] /\ Get(t, p[2]) = NIL
                                          /\ p[1] = 0 \/ Get(t, p[1]) # NIL}
    OBVIOUS
  <1>6. Bisect(t, i, j) = While(halve, stop)[<<i, j>>][1]
    BY <1>1, <1>2, <1>3 DEF Bisect
  <1>7. ASSUME NEW p \in pairs
        PROVE  \E a \in 0..j, b \in 0..j, m \in 0..j :
                  /\ p = <<a, b>> /\ p[1] = a /\ p[2] = b /\ m = (a + b) \div 2
                  /\ halve[p] = IF Get(t, m) = NIL THEN <<a, m>> ELSE <<m, b>>
                  /\ b - a > 1 => a < m /\ m < b
    <2>1. PICK a \in 0..j, b \in 0..j : p = <<a, b>> /\ p[1] = a /\ p[2] = b
      BY <1>1
    <2>2. PICK m : m = (a + b) \div 2  OBVIOUS
    <2>3. m \in 0..j /\ (b - a > 1 => a < m /\ m < b)
      BY <2>2
    <2>4. halve[p] = IF Get(t, m) = NIL THEN <<a, m>> ELSE <<m, b>>
      BY <1>2, <2>1, <2>2
    <2> QED BY <2>1, <2>2, <2>3, <2>4
  <1>8. halve \in [pairs -> pairs]
    <2>1. ASSUME NEW p \in pairs PROVE halve[p] \in pairs
      <3>1. PICK a \in 0..j, b \in 0..j, m \in 0..j :
                  /\ p = <<a, b>> /\ p[1] = a /\ p[2] = b /\ m = (a + b) \div 2
                  /\ halve[p] = IF Get(t, m) = NIL THEN <<a, m>> ELSE <<m, b>>
                  /\ b - a > 1 => a < m /\ m < b
        BY <1>7, Zenon
      <3> QED BY <1>1, <3>1
    <2> QED BY <1>2, <2>1
  <1>9. rank \in [pairs -> Nat]
    <2>1. ASSUME NEW p \in pairs PROVE rank[p] \in Nat
      <3>1. PICK a \in 0..j, b \in 0..j : p[1] = a /\ p[2] = b
        BY <1>7
      <3> QED BY <1>4, <3>1
    <2> QED BY <1>4, <2>1
  <1>10. ASSUME NEW p \in pairs, p \notin stop PROVE rank[halve[p]] < rank[p]
    <2>1. PICK a \in 0..j, b \in 0..j, m \in 0..j :
                  /\ p = <<a, b>> /\ p[1] = a /\ p[2] = b /\ m = (a + b) \div 2
                  /\ halve[p] = IF Get(t, m) = NIL THEN <<a, m>> ELSE <<m, b>>
                  /\ b - a > 1 => a < m /\ m < b
      BY <1>7, Zenon
    <2>2. b - a > 1
      BY <1>3, <1>10, <2>1
    <2>3. a < m /\ m < b /\ a < b
      BY <2>1, <2>2
    <2>4. rank[p] = b - a
      BY <1>4, <2>1, <2>3
    <2>5. <<a, m>> \in pairs /\ <<m, b>> \in pairs
      BY <1>1
    <2>6. rank[<<a, m>>] = m - a /\ rank[<<m, b>>] = b - m
      BY <1>4, <2>3, <2>5
    <2>7. m - a < b - a /\ b - m < b - a
      BY <2>3
    <2> QED BY <2>1, <2>4, <2>6, <2>7
  <1>11. ASSUME NEW p \in pairs, p \in good, p \notin stop PROVE halve[p] \in good
    <2>1. PICK a \in 0..j, b \in 0..j, m \in 0..j :
                  /\ p = <<a, b>> /\ p[1] = a /\ p[2] = b /\ m = (a + b) \div 2
                  /\ halve[p] = IF Get(t, m) = NIL THEN <<a, m>> ELSE <<m, b>>
                  /\ b - a > 1 => a < m /\ m < b
      BY <1>7, Zenon
    <2>2. b - a > 1
      BY <1>3, <1>11, <2>1
    <2>3. a < m /\ m < b
      BY <2>1, <2>2
    <2>4. Get(t, b) = NIL /\ (a = 0 \/ Get(t, a) # NIL)
      BY <1>5, <1>11, <2>1
    <2>5. <<a, m>> \in pairs /\ <<m, b>> \in pairs
      BY <1>1
    <2>6. CASE Get(t, m) = NIL
      <3>1. halve[p] = <<a, m>>
        BY <2>1, <2>6
      <3> QED BY <1>5, <2>3, <2>4, <2>5, <2>6, <3>1
    <2>7. CASE Get(t, m) # NIL
      <3>1. halve[p] = <<m, b>>
        BY <2>1, <2>7
      <3> QED BY <1>5, <2>3, <2>4, <2>5, <2>7, <3>1
    <2> QED BY <2>6, <2>7
  <1>12. PICK x : x = <<i, j>>  OBVIOUS
  <1>13. x \in pairs /\ x \in good
    BY <1>1, <1>5, <1>12
  <1>14. PICK y : y = While(halve, stop)[x]  OBVIOUS
  <1>15. y \in stop
    BY <1>8, <1>9, <1>10, <1>13, <1>14, WhileEnds
  <1>16. y \in good
    BY <1>8, <1>9, <1>10, <1>11, <1>13, <1>14, WhileKeeps
  <1>17. PICK a \in 0..j, b \in 0..j : y[1] = a /\ y[2] = b
    BY <1>3, <1>7, <1>15
  <1>18. b - a <= 1 /\ a < b /\ Get(t, b) = NIL /\ (a = 0 \/ Get(t, a) # NIL)
    BY <1>3, <1>5, <1>15, <1>16, <1>17
  <1>19. b = a + 1 /\ a \in 0..(j - 1)
    BY <1>18
  <1>20. a = Bisect(t, i, j)
    BY <1>6, <1>12, <1>14, <1>17
  <1> QED BY <1>18, <1>19, <1>20

\* So does the search of the hash part, as no index is greater than MAX_INT.
LEMMA UnboundIs ==
    ASSUME NEW t, NEW j \in Nat, j = 0 \/ Get(t, j) # NIL, Get(t, MaxInt + 1) = NIL
    PROVE  \E n \in 0..MaxInt : /\ n = Unbound(t, j, j + 1) /\ Get(t, n + 1) = NIL
                                /\ n = 0 \/ Get(t, n) # NIL
  <1>0. MaxInt \in Nat
    BY KeysAssumption
  <1>1. PICK pairs : pairs = Nat \X (Nat \ {0})  OBVIOUS
  <1>2. PICK double : double = [p \in pairs |-> <<p[2], 2 * p[2]>>]  OBVIOUS
  <1>3. PICK stop : stop = {p \in pairs : p[2] > MaxInt \/ Get(t, p[2]) = NIL}  OBVIOUS
  <1>4. PICK rank : rank = [p \in pairs |-> IF p[2] > MaxInt THEN 0 ELSE MaxInt + 1 - p[2]]  OBVIOUS
  <1>5. PICK good : good = {p \in pairs : p[1] < p[2] /\ (p[1] = 0 \/ Get(t, p[1]) # NIL)}  OBVIOUS
  <1>6. PICK last : last = While(double, stop)[<<j, j + 1>>]  OBVIOUS
  <1>7. Unbound(t, j, j + 1) = IF last[2] > MaxInt THEN Min({n \in 1..(MaxInt + 1) : Get(t, n) = NIL}) - 1
                               ELSE Bisect(t, last[1], last[2])
    BY <1>1, <1>2, <1>3, <1>6 DEF Unbound
  <1>8. ASSUME NEW p \in pairs
        PROVE  \E a \in Nat, b \in Nat : /\ b > 0 /\ p[1] = a /\ p[2] = b /\ double[p] = <<b, 2 * b>>
                                         /\ 2 * b \in Nat /\ 2 * b > b /\ <<b, 2 * b>> \in pairs
    <2>1. PICK a \in Nat, b \in Nat : b # 0 /\ p[1] = a /\ p[2] = b
      BY <1>1
    <2>2. 2 * b \in Nat /\ 2 * b > b /\ b > 0
      BY <2>1
    <2>3. <<b, 2 * b>> \in pairs
      BY <1>1, <2>1, <2>2
    <2>4. double[p] = <<b, 2 * b>>
      BY <1>2, <2>1
    <2> QED BY <2>1, <2>2, <2>3, <2>4
  <1>9. double \in [pairs -> pairs]
    <2>1. \A p \in pairs : double[p] \in pairs
      BY <1>8
    <2> QED BY <1>2, <2>1
  <1>10. rank \in [pairs -> Nat]
    <2>1. ASSUME NEW p \in pairs PROVE rank[p] \in Nat
      <3>1. PICK b \in Nat : p[2] = b
        BY <1>8
      <3> QED BY <1>0, <1>4, <3>1
    <2> QED BY <1>4, <2>1
  <1>11. ASSUME NEW p \in pairs, p \notin stop PROVE rank[double[p]] < rank[p]
    <2>1. PICK b \in Nat : b > 0 /\ p[2] = b /\ double[p] = <<b, 2 * b>> /\ 2 * b \in Nat /\ 2 * b > b /\ <<b, 2 * b>> \in pairs
      BY <1>8
    <2>2. ~(b > MaxInt)
      BY <1>3, <1>11, <2>1
    <2>3. rank[p] = MaxInt + 1 - b
      BY <1>4, <2>1, <2>2
    <2>4. PICK c \in Nat : c = 2 * b /\ c > b /\ double[p] = <<b, c>> /\ <<b, c>> \in pairs
      BY <2>1
    <2>5. rank[<<b, c>>] = IF c > MaxInt THEN 0 ELSE MaxInt + 1 - c
      BY <1>4, <2>4
    <2>6. (IF c > MaxInt THEN 0 ELSE MaxInt + 1 - c) < MaxInt + 1 - b
      BY <1>0, <2>2, <2>4
    <2> QED BY <2>3, <2>4, <2>5, <2>6
  <1>12. ASSUME NEW p \in pairs, p \in good, p \notin stop PROVE double[p] \in good
    <2>1. PICK b \in Nat : b > 0 /\ p[2] = b /\ double[p] = <<b, 2 * b>> /\ 2 * b \in Nat /\ 2 * b > b /\ <<b, 2 * b>> \in pairs
      BY <1>8
    <2>2. Get(t, b) # NIL
      BY <1>3, <1>12, <2>1
    <2> QED BY <1>5, <2>1, <2>2
  <1>13. PICK x : x = <<j, j + 1>>  OBVIOUS
  <1>14. x \in pairs /\ x \in good
    <2>1. j + 1 \in Nat /\ j + 1 # 0 /\ j < j + 1  OBVIOUS
    <2>2. x[1] = j /\ x[2] = j + 1 /\ x \in pairs
      BY <1>1, <1>13, <2>1
    <2> QED BY <1>5, <2>1, <2>2
  <1>15. last \in stop
    BY <1>6, <1>9, <1>10, <1>11, <1>13, <1>14, WhileEnds
  <1>16. last \in good
    BY <1>6, <1>9, <1>10, <1>11, <1>12, <1>13, <1>14, WhileKeeps
  <1>17. PICK a \in Nat, b \in Nat : b > 0 /\ last[1] = a /\ last[2] = b
    BY <1>3, <1>8, <1>15
  <1>18. a < b /\ (a = 0 \/ Get(t, a) # NIL) /\ (b > MaxInt \/ Get(t, b) = NIL)
    BY <1>3, <1>5, <1>15, <1>16, <1>17
  <1>19. CASE b > MaxInt
    <2>1. PICK T : T = {n \in 1..(MaxInt + 1) : Get(t, n) = NIL}  OBVIOUS
    <2>2. MaxInt + 1 \in T /\ T \subseteq Nat
      BY <1>0, <2>1
    <2>3. PICK m : m = Min(T) /\ m \in T /\ \A c \in T : m <= c
      BY <2>2, MinIs
    <2>4. m \in 1..(MaxInt + 1) /\ Get(t, m) = NIL
      BY <2>1, <2>3
    <2>5. PICK n \in 0..MaxInt : n = m - 1 /\ n + 1 = m
      <3>1. m - 1 \in 0..MaxInt /\ (m - 1) + 1 = m
        BY <1>0, <2>4
      <3> QED BY <3>1
    <2>6. n = 0 \/ Get(t, n) # NIL
      <3>1. ASSUME n # 0, Get(t, n) = NIL PROVE FALSE
        <4>1. n \in 1..(MaxInt + 1)
          BY <1>0, <3>1
        <4>2. n \in T
          BY <2>1, <3>1, <4>1
        <4>3. m <= n
          BY <2>3, <4>2
        <4> QED BY <2>5, <4>3
      <3> QED BY <3>1
    <2>7. Unbound(t, j, j + 1) = n
      BY <1>7, <1>17, <1>19, <2>1, <2>3, <2>5
    <2> QED BY <2>4, <2>5, <2>6, <2>7
  <1>20. CASE ~(b > MaxInt)
    <2>1. Get(t, b) = NIL
      BY <1>18, <1>20
    <2>2. PICK n \in 0..(b - 1) : n = Bisect(t, a, b) /\ Get(t, n + 1) = NIL /\ (n = 0 \/ Get(t, n) # NIL)
      BY <1>17, <1>18, <2>1, BisectIs
    <2>3. n \in 0..MaxInt
      BY <1>0, <1>20
    <2>4. Unbound(t, j, j + 1) = n
      BY <1>7, <1>17, <1>20, <2>2
    <2> QED BY <2>2, <2>3, <2>4
  <1> QED BY <1>19, <1>20

----------------------------------------------------------------------------
(* The collector marks the key of a node dead.                             *)

LEMMA KillSound ==
    ASSUME NEW s \in Nat, NEW t, Sound(t, s), NEW n \in Spots(s),
           t.node[n].key # NIL, t.node[n].value = NIL
    PROVE  /\ Sound(Killed(t, n), s) /\ Killed(t, n).node = t.node /\ Killed(t, n).array = t.array
           /\ Killed(t, n).dead = t.dead \union {n}
           /\ \A j \in Asked : Get(Killed(t, n), j) = Get(t, j)
  <1> DEFINE nd == t.node
  <1>1. t \in TablesOf(s) /\ Chains(nd, t.dead, s)
    BY DEF Sound
  <1>2. t.dead \subseteq Spots(s)
    BY <1>1, TableIs
  <1>3. PICK dead : dead = t.dead \union {n}  OBVIOUS
  <1>4. PICK u : u = [t EXCEPT !.dead = dead]  OBVIOUS
  <1>5. Killed(t, n) = u
    BY <1>3, <1>4 DEF Killed
  <1>6. u.node = nd /\ u.array = t.array /\ u.lastfree = t.lastfree /\ u.dead = dead /\ u \in TablesOf(s)
    <2>1. dead \in SUBSET Spots(s)
      BY <1>2, <1>3
    <2> QED BY <1>1, <1>4, <2>1 DEF TablesOf
  <1>7. /\ FreeApart(nd, s) /\ NextOnce(nd, s) /\ OnItsChain(nd, s) /\ MainOwned(nd, s)
        /\ DeadEmpty(nd, t.dead) /\ KeyOnce(nd, t.dead, s) /\ Ranked(nd, t.dead, s)
    BY <1>1 DEF Chains
  <1>8. DeadEmpty(nd, dead)
    BY <1>3, <1>7 DEF DeadEmpty
  <1>9. KeyOnce(nd, dead, s)
    BY <1>3, <1>7 DEF KeyOnce
  <1>10. Ranked(nd, dead, s)
    <2>1. PICK rank \in [Spots(s) -> Nat] : Downward(nd, t.dead, s, rank)
      BY <1>7 DEF Ranked
    <2>2. ASSUME NEW x \in Spots(s) \ dead, NEW d \in dead, nd[x].key = nd[d].key
          PROVE  rank[d] < rank[x]
      <3>1. x \in Spots(s) \ t.dead /\ x # n
        BY <1>3
      <3>2. CASE d \in t.dead
        BY <2>1, <2>2, <3>1, <3>2 DEF Downward
      <3>3. CASE d \notin t.dead
        <4>1. d = n /\ n \in Spots(s) \ t.dead
          BY <1>3, <3>3
        <4>2. nd[x].key = nd[n].key /\ nd[x].key # NIL
          BY <2>2, <4>1
        <4>3. x = n
          BY <1>7, <3>1, <4>1, <4>2 DEF KeyOnce
        <4> QED BY <3>1, <4>3
      <3> QED BY <3>2, <3>3
    <2>3. Downward(nd, dead, s, rank)
      BY <2>1, <2>2 DEF Downward
    <2> QED BY <2>3 DEF Ranked
  <1>11. Chains(u.node, u.dead, s)
    BY <1>6, <1>7, <1>8, <1>9, <1>10 DEF Chains
  <1>12. SizeArray(u) = SizeArray(t) /\ \A j : InArray(u, j) <=> InArray(t, j)
    BY <1>6 DEF InArray, SizeArray
  <1>13. NoneFreeAbove(u, s) /\ ArrayFirst(u, s) /\ ArrayOfIndices(u)
    <2>1. NoneFreeAbove(t, s) /\ ArrayFirst(t, s) /\ ArrayOfIndices(t)
      BY DEF Sound
    <2> QED BY <1>6, <1>12, <2>1 DEF NoneFreeAbove, ArrayFirst, ArrayOfIndices
  <1>14. Sound(u, s)
    BY <1>6, <1>11, <1>13 DEF Sound
  <1>15. ASSUME NEW j \in Asked PROVE Get(u, j) = Get(t, j)
    <2>1. j # NIL /\ j \in Names \union 1..(MaxInt + 1)
      BY AskedIs
    <2>2. CASE InArray(t, j)
      BY <1>6, <1>12, <2>2 DEF Get
    <2>3. CASE ~InArray(t, j)
      <3>1. /\ \A x \in Spots(s) \ t.dead : nd[x].key = j => Get(t, j) = nd[x].value
            /\ (\A x \in Spots(s) \ t.dead : nd[x].key # j) => Get(t, j) = NIL
        BY <1>1, <2>1, <2>3, GetIs
      <3>2. /\ \A x \in Spots(s) \ dead : nd[x].key = j => Get(u, j) = nd[x].value
            /\ (\A x \in Spots(s) \ dead : nd[x].key # j) => Get(u, j) = NIL
        BY <1>6, <1>11, <1>12, <2>1, <2>3, GetIs
      <3>3. CASE \E x \in Spots(s) \ dead : nd[x].key = j
        <4>1. PICK x \in Spots(s) \ dead : nd[x].key = j
          BY <3>3
        <4>2. x \in Spots(s) \ t.dead
          BY <1>3
        <4> QED BY <3>1, <3>2, <4>1, <4>2
      <3>4. CASE ~ \E x \in Spots(s) \ dead : nd[x].key = j
        <4>1. Get(u, j) = NIL
          BY <3>2, <3>4
        <4>2. ASSUME NEW x \in Spots(s) \ t.dead, nd[x].key = j PROVE Get(t, j) = NIL
          <5>1. x = n
            BY <1>3, <3>4, <4>2
          <5> QED BY <3>1, <4>2, <5>1
        <4> QED BY <3>1, <4>1, <4>2
      <3> QED BY <3>3, <3>4
    <2> QED BY <2>2, <2>3
  <1> QED BY <1>3, <1>5, <1>6, <1>14, <1>15

----------------------------------------------------------------------------
(* luaH_next().                                                            *)

\* Where a field that is not nil has its value.
LEMMA FieldIs ==
    ASSUME NEW s \in Nat, NEW t, Sound(t, s), NEW k \in Keys, Get(t, k) # NIL
    PROVE  /\ InArray(t, k) => k \in UsedIndices(t) /\ k \in Nat
           /\ ~InArray(t, k) =>
                /\ NodeOf(t, k) \in Spots(s) /\ NodeOf(t, k) \in UsedNodes(t)
                /\ t.node[NodeOf(t, k)].key = k /\ NodeOf(t, k) \notin t.dead
                /\ OnChain(t, k, TRUE) = NodeOf(t, k)
  <1>1. t \in TablesOf(s) /\ Chains(t.node, t.dead, s)
    BY DEF Sound
  <1>2. k \in Names \union 1..(MaxInt + 1) /\ (k \notin Names => k \in Nat /\ k >= 1)
    BY KeyAsked DEF Asked
  <1>3. SizeArray(t) \in Nat /\ DOMAIN t.node = Spots(s)
    BY <1>1, TableIs
  <1>4. ASSUME InArray(t, k) PROVE k \in UsedIndices(t) /\ k \in Nat
    <2>1. k \in 1..SizeArray(t)
      BY <1>2, <1>3, <1>4 DEF InArray
    <2>2. t.array[k] # NIL
      BY <1>4 DEF Get
    <2> QED BY <2>1, <2>2 DEF UsedIndices
  <1>5. ASSUME ~InArray(t, k)
        PROVE  /\ NodeOf(t, k) \in Spots(s) /\ NodeOf(t, k) \in UsedNodes(t)
               /\ t.node[NodeOf(t, k)].key = k /\ NodeOf(t, k) \notin t.dead
               /\ OnChain(t, k, TRUE) = NodeOf(t, k)
    <2>1. PICK x \in Spots(s) \ t.dead : t.node[x].key = k /\ Get(t, k) = t.node[x].value
      BY <1>1, <1>2, <1>5, GetIs
    <2>2. NodeOf(t, k) = x
      BY <1>1, <1>2, <2>1, NodeOfIs
    <2>3. OnChain(t, k, TRUE) = x
      BY <1>1, <2>1, OnChainIs
    <2>4. x \in UsedNodes(t)
      BY <1>3, <2>1 DEF UsedNodes
    <2> QED BY <2>1, <2>2, <2>3, <2>4
  <1> QED BY <1>4, <1>5

\* A node that is not nil is that of its key.
LEMMA UsedNodeIs ==
    ASSUME NEW s \in Nat, NEW t, Sound(t, s), NEW x \in UsedNodes(t)
    PROVE  /\ x \in Spots(s) /\ t.node[x].key \in Keys /\ ~InArray(t, t.node[x].key)
           /\ NodeOf(t, t.node[x].key) = x /\ OnChain(t, t.node[x].key, TRUE) = x
           /\ Get(t, t.node[x].key) # NIL
  <1>1. t \in TablesOf(s) /\ Chains(t.node, t.dead, s) /\ ArrayFirst(t, s)
    BY DEF Sound
  <1>2. x \in Spots(s) /\ t.node[x].value # NIL
    BY <1>1, TableIs DEF UsedNodes
  <1>3. PICK k : k = t.node[x].key  OBVIOUS
  <1>4. x \notin t.dead /\ k \in Keys
    BY <1>2, <1>3, ValueMeansKey
  <1>5. ~InArray(t, k)
    BY <1>1, <1>2, <1>3, <1>4, NilApart DEF ArrayFirst
  <1>6. k \in Names \union 1..(MaxInt + 1)
    BY <1>4, KeyAsked DEF Asked
  <1>7. NodeOf(t, k) = x
    BY <1>1, <1>2, <1>3, <1>4, <1>6, NodeOfIs
  <1>8. OnChain(t, k, TRUE) = x
    BY <1>1, <1>2, <1>3, <1>4, OnChainIs
  <1>9. Get(t, k) = t.node[x].value
    BY <1>1, <1>2, <1>3, <1>4, <1>5, <1>6, GetIs
  <1> QED BY <1>2, <1>3, <1>4, <1>5, <1>7, <1>8, <1>9

\* luaH_next() does not fail; it gives the field after p, or NIL if none is left.
LEMMA NextKeyIs ==
    ASSUME NEW s \in Nat, NEW t, Sound(t, s), NEW p, Placed(t, s, p)
    PROVE  /\ NextKey(t, p) \in Keys \union {NIL}
           /\ NextKey(t, p) = NIL => \A j \in Keys : Get(t, j) # NIL => Passed(t, p, j)
           /\ NextKey(t, p) # NIL =>
                /\ Get(t, NextKey(t, p)) # NIL /\ Placed(t, s, NextKey(t, p))
                /\ ~Passed(t, p, NextKey(t, p))
                /\ \A j \in Keys : Get(t, j) # NIL =>
                      (Passed(t, NextKey(t, p), j) <=> Passed(t, p, j) \/ j = NextKey(t, p))
  <1>1. t \in TablesOf(s) /\ ArrayOfIndices(t)
    BY DEF Sound
  <1>2. SizeArray(t) \in Nat /\ DOMAIN t.node = Spots(s) /\ SizeArray(t) = Len(t.array)
    BY <1>1, TableIs DEF SizeArray
  <1>4. PICK n : n = IF p = NIL \/ InArray(t, p) THEN NIL ELSE OnChain(t, p, TRUE)  OBVIOUS
  <1>5. PICK inArr : inArr = {i \in UsedIndices(t) : p = NIL \/ (InArray(t, p) /\ i > p)}  OBVIOUS
  <1>6. PICK inHash : inHash = {i \in UsedNodes(t) : n # NIL => i > n}  OBVIOUS
  <1>7. ~(p # NIL /\ ~InArray(t, p) /\ n = NIL)
    BY <1>4, NilApart DEF Placed
  <1>8. NextKey(t, p) = IF (p = NIL \/ InArray(t, p)) /\ inArr # {} THEN Min(inArr)
                        ELSE IF inHash # {} THEN t.node[Min(inHash)].key ELSE NIL
    BY <1>4, <1>5, <1>6, <1>7 DEF NextKey
  <1>9. p = NIL \/ (InArray(t, p) /\ p \in Keys /\ p \in Nat)
                \/ (p # NIL /\ ~InArray(t, p) /\ n \in Spots(s) /\ n = OnChain(t, p, TRUE))
    <2>1. p = NIL \/ p \in Keys
      BY DEF Placed
    <2>2. CASE p = NIL
      BY <2>2
    <2>3. CASE p # NIL /\ InArray(t, p)
      BY <2>1, <2>3, KeyAsked DEF InArray
    <2>4. CASE p # NIL /\ ~InArray(t, p)
      BY <1>4, <2>4 DEF Placed
    <2> QED BY <2>2, <2>3, <2>4
  <1>10. inArr \subseteq Nat /\ inHash \subseteq Nat /\ Spots(s) \subseteq Nat
    BY <1>2, <1>5, <1>6, NilApart DEF UsedIndices, UsedNodes
  \* What was passed, among the fields in the array part and in the nodes.
  <1>12. ASSUME NEW j \in Keys, Get(t, j) # NIL, InArray(t, j)
         PROVE  j \in UsedIndices(t) /\ j \in Nat
                /\ (Passed(t, p, j) <=> ~((p = NIL \/ InArray(t, p)) /\ j \in inArr))
    <2>1. j \in UsedIndices(t) /\ j \in Nat
      BY <1>12, FieldIs
    <2>2. Passed(t, p, j) <=> p # NIL /\ (InArray(t, p) => j <= p)
      BY <1>12 DEF Passed
    <2>3. CASE p = NIL
      BY <1>5, <2>1, <2>2, <2>3
    <2>4. CASE p # NIL /\ InArray(t, p)
      <3>1. p \in Nat
        BY <1>9, <2>4
      <3>2. j <= p <=> ~(j > p)
        BY <2>1, <3>1
      <3> QED BY <1>5, <2>1, <2>2, <2>4, <3>2
    <2>5. CASE p # NIL /\ ~InArray(t, p)
      BY <2>1, <2>2, <2>5
    <2> QED BY <2>3, <2>4, <2>5
  <1>13. ASSUME NEW j \in Keys, Get(t, j) # NIL, ~InArray(t, j)
         PROVE  NodeOf(t, j) \in UsedNodes(t) /\ NodeOf(t, j) \in Nat /\ t.node[NodeOf(t, j)].key = j
                /\ (Passed(t, p, j) <=> NodeOf(t, j) \notin inHash)
    <2>0. NodeOf(t, j) \in Spots(s) /\ NodeOf(t, j) \in UsedNodes(t) /\ t.node[NodeOf(t, j)].key = j
      BY <1>13, FieldIs
    <2>1. PICK y \in Spots(s) : y = NodeOf(t, j) /\ y \in UsedNodes(t) /\ t.node[y].key = j
      BY <2>0
    <2>2. y \in Nat
      BY <1>10
    <2>3. Passed(t, p, j) <=> p # NIL /\ ~InArray(t, p) /\ y <= OnChain(t, p, TRUE)
      BY <1>13, <2>1 DEF Passed
    <2>4. CASE p = NIL \/ InArray(t, p)
      BY <1>4, <1>6, <2>1, <2>2, <2>3, <2>4
    <2>5. CASE p # NIL /\ ~InArray(t, p)
      <3>1. n \in Nat /\ n = OnChain(t, p, TRUE) /\ n # NIL
        BY <1>7, <1>9, <1>10, <2>5
      <3>2. y <= n <=> ~(y > n)
        <4>1. \A a, b \in Nat : a <= b <=> ~(a > b)  OBVIOUS
        <4> QED BY <2>2, <3>1, <4>1
      <3> QED BY <1>6, <2>1, <2>2, <2>3, <2>5, <3>1, <3>2
    <2> QED BY <2>1, <2>4, <2>5
  <1>14. CASE (p = NIL \/ InArray(t, p)) /\ inArr # {}
    <2>1. PICK k : k = Min(inArr) /\ k \in inArr /\ k \in Nat /\ \A c \in inArr : k <= c
      BY <1>10, <1>14, MinIs
    <2>2. k \in UsedIndices(t)
      BY <1>5, <2>1
    <2>3. k \in Keys /\ k # NIL /\ InArray(t, k) /\ Get(t, k) # NIL
      <3>1. k \in 1..SizeArray(t) /\ t.array[k] # NIL
        BY <2>2 DEF UsedIndices
      <3>2. k \in Indices
        BY <1>1, <1>2, <3>1 DEF ArrayOfIndices
      <3>3. k \in Keys /\ k \notin Names
        BY <3>2, IndexIs
      <3>4. InArray(t, k)
        BY <3>1, <3>3 DEF InArray
      <3>5. k # NIL
        BY <3>3, NilApart
      <3> QED BY <3>1, <3>3, <3>4, <3>5 DEF Get
    <2>4. NextKey(t, p) = k
      BY <1>8, <1>14, <2>1
    <2>5. ~Passed(t, p, k)
      BY <1>12, <1>14, <2>1, <2>3
    <2>6. Placed(t, s, k)
      BY <2>3 DEF Placed
    <2>7. ASSUME NEW j \in Keys, Get(t, j) # NIL
          PROVE  Passed(t, k, j) <=> Passed(t, p, j) \/ j = k
      <3>1. CASE InArray(t, j)
        <4>1. j \in UsedIndices(t) /\ j \in Nat /\ (Passed(t, p, j) <=> j \notin inArr)
          BY <1>12, <1>14, <2>7, <3>1
        <4>2. Passed(t, k, j) <=> j <= k
          BY <2>3, <3>1 DEF Passed
        <4>3. CASE j \in inArr
          <5>1. k <= j
            BY <2>1, <4>3
          <5>2. j <= k <=> j = k
            BY <2>1, <4>1, <5>1
          <5> QED BY <4>1, <4>2, <4>3, <5>2
        <4>4. CASE j \notin inArr
          <5>1. j <= k
            <6>1. p # NIL /\ InArray(t, p) /\ ~(j > p)
              BY <1>5, <1>14, <4>1, <4>4
            <6>2. k > p /\ p \in Nat
              BY <1>5, <1>9, <2>1, <6>1
            <6> QED BY <2>1, <4>1, <6>1, <6>2
          <5> QED BY <4>1, <4>2, <4>4, <5>1
        <4> QED BY <4>3, <4>4
      <3>2. CASE ~InArray(t, j)
        <4>1. ~Passed(t, k, j) /\ ~Passed(t, p, j)
          BY <1>14, <2>3, <3>2 DEF Passed
        <4> QED BY <2>3, <3>2, <4>1
      <3> QED BY <3>1, <3>2
    <2> QED BY <2>3, <2>4, <2>5, <2>6, <2>7
  <1>15. CASE ~((p = NIL \/ InArray(t, p)) /\ inArr # {}) /\ inHash # {}
    <2>1. PICK m : m = Min(inHash) /\ m \in inHash /\ m \in Nat /\ \A c \in inHash : m <= c
      BY <1>10, <1>15, MinIs
    <2>2. m \in UsedNodes(t)
      BY <1>6, <2>1
    <2>3. PICK k : k = t.node[m].key  OBVIOUS
    <2>4. k \in Keys /\ k # NIL /\ ~InArray(t, k) /\ NodeOf(t, k) = m /\ OnChain(t, k, TRUE) = m
          /\ Get(t, k) # NIL /\ m \in Spots(s)
      <3>1. /\ m \in Spots(s) /\ t.node[m].key \in Keys /\ ~InArray(t, t.node[m].key)
            /\ NodeOf(t, t.node[m].key) = m /\ OnChain(t, t.node[m].key, TRUE) = m
            /\ Get(t, t.node[m].key) # NIL
        BY <2>2, UsedNodeIs
      <3>2. NIL \notin Keys
        BY NilApart
      <3> QED BY <2>3, <3>1, <3>2
    <2>5. NextKey(t, p) = k
      BY <1>8, <1>15, <2>1, <2>3
    <2>6. ~Passed(t, p, k)
      BY <1>13, <2>1, <2>4
    <2>7. Placed(t, s, k)
      BY <2>4 DEF Placed
    <2>8. ASSUME NEW j \in Keys, Get(t, j) # NIL
          PROVE  Passed(t, k, j) <=> Passed(t, p, j) \/ j = k
      <3>1. CASE InArray(t, j)
        <4>1. Passed(t, p, j)
          BY <1>12, <1>15, <2>8, <3>1
        <4>2. Passed(t, k, j)
          BY <2>4, <3>1 DEF Passed
        <4> QED BY <4>1, <4>2
      <3>2. CASE ~InArray(t, j)
        <4>1. PICK y \in Nat : /\ y = NodeOf(t, j) /\ t.node[y].key = j /\ y \in UsedNodes(t)
                               /\ (Passed(t, p, j) <=> y \notin inHash)
          BY <1>13, <2>8, <3>2
        <4>2. Passed(t, k, j) <=> y <= m
          BY <2>4, <3>2, <4>1 DEF Passed
        <4>3. j = k <=> y = m
          BY <2>3, <2>4, <4>1
        <4>4. CASE y \in inHash
          <5>1. m <= y
            BY <2>1, <4>4
          <5>2. y <= m <=> y = m
            BY <2>1, <4>1, <5>1
          <5> QED BY <4>1, <4>2, <4>3, <4>4, <5>2
        <4>5. CASE y \notin inHash
          <5>1. n # NIL /\ ~(y > n)
            BY <1>6, <4>1, <4>5
          <5>2. n \in Nat /\ m > n
            <6>1. n \in Spots(s)
              BY <1>4, <1>9, <5>1
            <6> QED BY <1>6, <1>10, <2>1, <5>1, <6>1
          <5>3. y <= m
            BY <2>1, <4>1, <5>1, <5>2
          <5> QED BY <4>1, <4>2, <4>5, <5>3
        <4> QED BY <4>4, <4>5
      <3> QED BY <3>1, <3>2
    <2> QED BY <2>4, <2>5, <2>6, <2>7, <2>8
  <1>16. CASE ~((p = NIL \/ InArray(t, p)) /\ inArr # {}) /\ inHash = {}
    <2>1. NextKey(t, p) = NIL
      BY <1>8, <1>16
    <2>2. ASSUME NEW j \in Keys, Get(t, j) # NIL PROVE Passed(t, p, j)
      <3>1. CASE InArray(t, j)
        BY <1>12, <1>16, <2>2, <3>1
      <3>2. CASE ~InArray(t, j)
        BY <1>13, <1>16, <2>2, <3>2
      <3> QED BY <3>1, <3>2
    <2> QED BY <2>1, <2>2
  <1> QED BY <1>14, <1>15, <1>16

----------------------------------------------------------------------------
(* The invariant.                                                          *)

LEMMA ValueIs ==
    ASSUME Reflects, NEW k \in Keys
    PROVE  Get(table, k) = map[k] /\ map[k] \in Cells
  BY KeyAsked DEF Reflects

\* Tables whose nodes have the same keys and links are traversed the same way.
LEMMA KeyChainSame ==
    ASSUME NEW s \in Nat, NEW t \in TablesOf(s), NEW u \in TablesOf(s),
           \A x \in Spots(s) : u.node[x].key = t.node[x].key /\ u.node[x].next = t.node[x].next,
           NEW k
    PROVE  OnChain(u, k, TRUE) = OnChain(t, k, TRUE)
  <1>1. DOMAIN t.node = Spots(s) /\ DOMAIN u.node = Spots(s) /\ SizeNode(t) = s /\ SizeNode(u) = s
    BY TableIs
  <1>2. MainPosition(u, k) = MainPosition(t, k)
    BY MainPositionIs
  <1>3. Links(u) = Links(t)
    <2>1. NIL \notin Spots(s)
      BY NilApart
    <2>2. \A n \in Spots(s) \union {NIL} :
             (IF n = NIL THEN NIL ELSE u.node[n].next) = (IF n = NIL THEN NIL ELSE t.node[n].next)
      OBVIOUS
    <2> QED BY <1>1, <2>2 DEF Links
  <1>4. Holders(u, k, TRUE) = Holders(t, k, TRUE)
    BY <1>1 DEF Holders
  <1> QED BY <1>1, <1>2, <1>3, <1>4 DEF OnChain, Search

LEMMA FieldChain ==
    ASSUME NEW s \in Nat, NEW t, Sound(t, s), NEW k \in Keys, Get(t, k) # NIL, ~InArray(t, k)
    PROVE  NodeOf(t, k) = OnChain(t, k, TRUE)
  <1>1. OnChain(t, k, TRUE) = NodeOf(t, k)
    BY FieldIs
  <1> QED BY <1>1

LEMMA PassedSame ==
    ASSUME NEW s \in Nat, NEW t, Sound(t, s), NEW u, Sound(u, s), SizeArray(u) = SizeArray(t),
           \A x \in Spots(s) : u.node[x].key = t.node[x].key /\ u.node[x].next = t.node[x].next,
           NEW p
    PROVE  /\ Placed(u, s, p) <=> Placed(t, s, p)
           /\ \A k \in Keys : Get(t, k) # NIL /\ Get(u, k) # NIL => (Passed(u, p, k) <=> Passed(t, p, k))
  <1>1. t \in TablesOf(s) /\ u \in TablesOf(s)
    BY DEF Sound
  <1>2. \A k : OnChain(u, k, TRUE) = OnChain(t, k, TRUE)
    BY <1>1, KeyChainSame
  <1>3. \A k : InArray(u, k) <=> InArray(t, k)
    BY DEF InArray
  <1>4. Placed(u, s, p) <=> Placed(t, s, p)
    BY <1>2, <1>3 DEF Placed
  <1>5. ASSUME NEW k \in Keys, Get(t, k) # NIL, Get(u, k) # NIL
        PROVE  Passed(u, p, k) <=> Passed(t, p, k)
    <2>1. CASE InArray(t, k)
      BY <1>3, <2>1 DEF Passed
    <2>2. CASE ~InArray(t, k)
      <3>1. NodeOf(t, k) = OnChain(t, k, TRUE)
        BY <1>5, <2>2, FieldChain
      <3>2. NodeOf(u, k) = OnChain(u, k, TRUE)
        <4>1. ~InArray(u, k)
          BY <1>3, <2>2
        <4> QED BY <1>5, <4>1, FieldChain
      <3> QED BY <1>2, <1>3, <2>2, <3>1, <3>2 DEF Passed
    <2> QED BY <2>1, <2>2
  <1> QED BY <1>4, <1>5

LEMMA InitIs == Init => IInv
  <1> SUFFICES ASSUME Init PROVE IInv  OBVIOUS
  <1>1. PICK size \in Sizes : table = WithNodes(Nils(size[1]), size[2])
    BY DEF Init
  <1>2. map = [k \in Keys |-> NIL] /\ seen = Idle
    BY DEF Init
  <1>3. PICK a \in Nat, h \in Nat : table = WithNodes(Nils(a), h)
    <2>1. size \in Nat \X Nat
      BY KeysAssumption
    <2>2. size[1] \in Nat /\ size[2] \in Nat
      BY <2>1
    <2> QED BY <1>1, <2>2
  <1>4. PICK s : s = NodeCount(h)  OBVIOUS
  <1>5. s \in Nat
    BY <1>4, NodeCountIs
  <1>6. PICK array : array = Nils(a)  OBVIOUS
  <1>7. array \in Seq(Cells) /\ Len(array) = a /\ \A i \in 1..a : array[i] = NIL
    <2>1. array = [i \in 1..a |-> NIL]
      BY <1>6 DEF Nils
    <2>2. NIL \in Cells
      BY DEF Cells
    <2> QED BY <2>1, <2>2
  <1>8. Sound(table, s) /\ table.array = array /\ table.dead = {} /\ \A y \in Spots(s) : table.node[y].key = NIL
    BY <1>3, <1>4, <1>6, <1>7, WithNodesSound
  <1>9. table \in TablesOf(s) /\ Chains(table.node, table.dead, s)
    BY <1>8 DEF Sound
  <1>10. ASSUME NEW j \in Asked PROVE Get(table, j) = NIL
    <2>1. j # NIL /\ j \in Names \union 1..(MaxInt + 1) /\ (j \notin Names => j \in Nat /\ j >= 1)
      BY AskedIs
    <2>2. CASE InArray(table, j)
      <3>1. j \in 1..a
        BY <1>7, <1>8, <2>1, <2>2 DEF InArray, SizeArray
      <3> QED BY <1>7, <1>8, <2>2, <3>1 DEF Get
    <2>3. CASE ~InArray(table, j)
      <3>1. (\A x \in Spots(s) \ table.dead : table.node[x].key # j) => Get(table, j) = NIL
        BY <1>5, <1>9, <2>1, <2>3, GetIs
      <3> QED BY <1>8, <2>1, <3>1
    <2> QED BY <2>2, <2>3
  <1>11. Reflects
    <2>1. map \in [Keys -> Cells] /\ \A j \in Keys : map[j] = NIL
      BY <1>2 DEF Cells
    <2> QED BY <1>10, <2>1 DEF Reflects
  <1> QED BY <1>2, <1>5, <1>8, <1>11 DEF IInv, Travels

\* An assignment; in a traversal, of a field that is there.
LEMMA AssignKeeps ==
    ASSUME IInv, NEW k \in Keys, NEW v \in Cells, Assign(k, v)
    PROVE  IInv'
  <1>1. PICK s \in Nat : Sound(table, s) /\ Travels(s)
    BY DEF IInv
  <1>2. Reflects /\ map \in [Keys -> Cells]
    BY DEF IInv, Reflects
  <1>3. /\ seen # Idle => map[k] # NIL
        /\ table' = Put(table, k, v) /\ map' = [map EXCEPT ![k] = v] /\ at' = at
        /\ seen' = IF v = NIL /\ seen # Idle THEN <<seen[1], seen[2], seen[3] \ {k}>> ELSE seen
    BY DEF Assign
  <1>4. map' \in [Keys -> Cells] /\ \A j \in Keys : map'[j] = IF j = k THEN v ELSE map[j]
    BY <1>2, <1>3
  <1>5. ASSUME NEW u, u = Put(table, k, v), Updated(table, u, k, v)
        PROVE  \A j \in Asked : Get(u, j) = IF j \in Keys THEN map'[j] ELSE NIL
    <2>1. ASSUME NEW j \in Asked PROVE Get(u, j) = IF j \in Keys THEN map'[j] ELSE NIL
      <3>1. Get(u, j) = IF j = k THEN v ELSE Get(table, j)
        BY <1>5 DEF Updated
      <3>2. Get(table, j) = IF j \in Keys THEN map[j] ELSE NIL
        BY <1>2 DEF Reflects
      <3> QED BY <1>4, <3>1, <3>2
    <2> QED BY <2>1
  <1>6. CASE seen = Idle
    <2>1. PICK s2 \in Nat : Sound(table', s2) /\ Updated(table, table', k, v)
      BY <1>1, <1>3, PutSound
    <2>2. Reflects'
      BY <1>3, <1>4, <1>5, <2>1 DEF Reflects
    <2>3. seen' = Idle
      BY <1>3, <1>6
    <2> QED BY <2>1, <2>2, <2>3 DEF IInv, Travels, Idle
  <1>7. CASE seen # Idle
    <2>1. /\ seen[1] = "going" /\ seen[3] \subseteq {j \in Keys : map[j] # NIL}
          /\ Placed(table, s, at)
          /\ \A j \in Keys : map[j] # NIL => (j \in seen[2] <=> Passed(table, at, j))
      BY <1>1, <1>7 DEF Travels
    <2>2. Get(table, k) # NIL
      BY <1>2, <1>3, <1>7, ValueIs
    <2>3. InArray(table, k) \/ NodeOf(table, k) # NIL
      BY <2>2 DEF Get
    <2>4. ~Full(table, k)
      BY <2>3 DEF Full
    <2>5. table' = Insert(table, k, v)
      BY <1>3, <2>4 DEF Put
    <2>6. /\ Sound(table', s) /\ Updated(table, table', k, v)
          /\ SizeArray(table') = SizeArray(table) /\ SameNodes(table, table', s)
      BY <1>1, <2>3, <2>4, <2>5, InsertSound
    <2>7. Reflects'
      BY <1>3, <1>4, <1>5, <2>6 DEF Reflects
    <2>8. \A x \in Spots(s) : table'.node[x].key = table.node[x].key /\ table'.node[x].next = table.node[x].next
      BY <2>6 DEF SameNodes
    <2>9. /\ Placed(table', s, at)
          /\ \A j \in Keys : Get(table, j) # NIL /\ Get(table', j) # NIL => (Passed(table', at, j) <=> Passed(table, at, j))
      BY <1>1, <2>1, <2>6, <2>8, PassedSame
    <2>10. seen'[1] = "going" /\ seen'[2] = seen[2] /\ seen'[3] = IF v = NIL THEN seen[3] \ {k} ELSE seen[3]
      BY <1>3, <1>7, <2>1
    <2>11. seen'[3] \subseteq {j \in Keys : map'[j] # NIL}
      BY <1>4, <2>1, <2>10
    <2>12. ASSUME NEW j \in Keys, map'[j] # NIL PROVE j \in seen'[2] <=> Passed(table', at', j)
      <3>1. map[j] # NIL
        BY <1>3, <1>4, <1>7, <2>12
      <3>2. Get(table, j) # NIL
        BY <1>2, <3>1, ValueIs
      <3>3. Get(table', j) # NIL
        BY <2>7, <2>12, KeyAsked DEF Reflects
      <3> QED BY <1>3, <2>1, <2>9, <2>10, <3>1, <3>2, <3>3
    <2>13. Travels(s)'
      BY <1>3, <2>9, <2>10, <2>11, <2>12 DEF Travels
    <2> QED BY <2>6, <2>7, <2>13 DEF IInv
  <1> QED BY <1>6, <1>7

LEMMA SetListKeeps ==
    ASSUME IInv, NEW n \in Indices, SetList(n)
    PROVE  IInv'
  <1>1. PICK s \in Nat : Sound(table, s)
    BY DEF IInv
  <1>2. Reflects
    BY DEF IInv
  <1>3. /\ seen = Idle /\ seen' = seen /\ map' = map /\ \A k \in Keys : map[k] = NIL
        /\ table' = Resize(table, n, SizeNode(table))
    BY DEF SetList
  <1>4. n \in Nat
    BY IndexIs
  <1>5. SizeNode(table) = s
    BY <1>1, TableIs DEF Sound
  <1>6. \A j \in Keys : Get(table, j) = NIL
    BY <1>2, <1>3, ValueIs
  <1>7. PICK s2 : s2 = NodeCount(s)  OBVIOUS
  <1>8. IsFiniteSet({}) /\ Cardinality({}) <= s
    <2>1. 0 <= s  OBVIOUS
    <2> QED BY <2>1, FS_EmptySet
  <1>9. \A j \in Keys : Get(table, j) # NIL /\ ~(j \notin Names /\ j <= n) => j \in {}
    BY <1>6
  <1>10. s2 \in Nat /\ Sound(table', s2) /\ \A j \in Asked : Get(table', j) = Get(table, j)
    BY <1>1, <1>3, <1>4, <1>5, <1>7, <1>8, <1>9, ResizeSound
  <1>11. Reflects'
    BY <1>2, <1>3, <1>10 DEF Reflects
  <1> QED BY <1>3, <1>10, <1>11 DEF IInv, Travels, Idle

LEMMA KillKeeps ==
    ASSUME IInv, KillKey
    PROVE  IInv'
  <1>1. PICK s \in Nat : Sound(table, s) /\ Travels(s)
    BY DEF IInv
  <1>2. Reflects
    BY DEF IInv
  <1>3. PICK n \in DOMAIN table.node : table.node[n].key \in Names /\ table.node[n].value = NIL
                                       /\ table' = Killed(table, n)
    BY DEF KillKey, Killed
  <1>4. map' = map /\ at' = at /\ seen' = seen
    BY DEF KillKey
  <1>5. n \in Spots(s) /\ table.node[n].key # NIL
    <2>1. DOMAIN table.node = Spots(s)
      BY <1>1, TableIs DEF Sound
    <2>2. NIL \notin Names
      BY KeysAssumption DEF Keys
    <2> QED BY <1>3, <2>1, <2>2
  <1>6. /\ Sound(table', s) /\ table'.node = table.node /\ table'.array = table.array
        /\ \A j \in Asked : Get(table', j) = Get(table, j)
    BY <1>1, <1>3, <1>5, KillSound
  <1>7. Reflects'
    BY <1>2, <1>4, <1>6 DEF Reflects
  <1>8. SizeArray(table') = SizeArray(table)
    BY <1>6 DEF SizeArray
  <1>9. /\ Placed(table', s, at) <=> Placed(table, s, at)
        /\ \A j \in Keys : Get(table, j) # NIL /\ Get(table', j) # NIL => (Passed(table', at, j) <=> Passed(table, at, j))
    BY <1>1, <1>6, <1>8, PassedSame
  <1>10. ASSUME NEW j \in Keys, map[j] # NIL PROVE Passed(table', at, j) <=> Passed(table, at, j)
    <2>1. Get(table, j) # NIL
      BY <1>2, <1>10, ValueIs
    <2>2. Get(table', j) # NIL
      BY <1>6, <2>1, KeyAsked
    <2> QED BY <1>9, <2>1, <2>2
  <1>11. Travels(s)'
    BY <1>1, <1>4, <1>9, <1>10 DEF Travels, Idle
  <1> QED BY <1>6, <1>7, <1>11 DEF IInv

LEMMA TraversalKeeps ==
    ASSUME IInv, Begin \/ Step \/ End
    PROVE  IInv'
  <1>1. PICK s \in Nat : Sound(table, s) /\ Travels(s)
    BY DEF IInv
  <1>2. Reflects
    BY DEF IInv
  <1>3. table' = table /\ map' = map
    BY DEF Begin, Step, End
  <1>4. Reflects'
    BY <1>2, <1>3 DEF Reflects
  <1>5. \A j \in Keys : Get(table, j) = map[j]
    BY <1>2, ValueIs
  <1>6. CASE Begin
    <2>1. at' = NIL /\ seen' = <<"going", {}, {k \in Keys : map[k] # NIL}>>
      BY <1>6 DEF Begin
    <2>2. seen'[1] = "going" /\ seen'[2] = {} /\ seen'[3] = {k \in Keys : map[k] # NIL}
      BY <2>1
    <2>3. Placed(table, s, NIL) /\ \A k : ~Passed(table, NIL, k)
      BY DEF Placed, Passed
    <2>4. Travels(s)'
      BY <1>3, <2>1, <2>2, <2>3 DEF Travels
    <2> QED BY <1>1, <1>3, <1>4, <2>4 DEF IInv
  <1>7. CASE Step
    <2>1. PICK k : k = NextKey(table, at)  OBVIOUS
    <2>2. /\ seen[1] = "going" /\ k \notin {NIL, Invalid} /\ at' = k
          /\ seen' = IF k \in seen[2] THEN <<"twice", {}, {}>> ELSE <<"going", seen[2] \union {k}, seen[3]>>
      BY <1>7, <2>1 DEF Step
    <2>3. seen # Idle
      BY <2>2 DEF Idle
    <2>4. /\ seen[3] \subseteq {j \in Keys : map[j] # NIL} /\ Placed(table, s, at)
          /\ \A j \in Keys : map[j] # NIL => (j \in seen[2] <=> Passed(table, at, j))
      BY <1>1, <2>3 DEF Travels
    <2>5. /\ k \in Keys /\ Get(table, k) # NIL /\ Placed(table, s, k) /\ ~Passed(table, at, k)
          /\ \A j \in Keys : Get(table, j) # NIL => (Passed(table, k, j) <=> Passed(table, at, j) \/ j = k)
      BY <1>1, <2>1, <2>2, <2>4, NextKeyIs
    <2>6. k \notin seen[2]
      BY <1>5, <2>4, <2>5
    <2>7. seen' = <<"going", seen[2] \union {k}, seen[3]>>
      BY <2>2, <2>6
    <2>8. seen'[1] = "going" /\ seen'[2] = seen[2] \union {k} /\ seen'[3] = seen[3]
      BY <2>7
    <2>9. ASSUME NEW j \in Keys, map[j] # NIL PROVE j \in seen'[2] <=> Passed(table, k, j)
      BY <1>5, <2>4, <2>5, <2>8, <2>9
    <2>10. Travels(s)'
      BY <1>3, <2>2, <2>4, <2>5, <2>8, <2>9 DEF Travels
    <2> QED BY <1>1, <1>3, <1>4, <2>10 DEF IInv
  <1>8. CASE End
    <2>1. /\ seen[1] = "going" /\ NextKey(table, at) = NIL
          /\ seen' = IF seen[3] \subseteq seen[2] THEN Idle ELSE <<"missed", {}, {}>>
      BY <1>8 DEF End
    <2>2. seen # Idle
      BY <2>1 DEF Idle
    <2>3. /\ seen[3] \subseteq {j \in Keys : map[j] # NIL} /\ Placed(table, s, at)
          /\ \A j \in Keys : map[j] # NIL => (j \in seen[2] <=> Passed(table, at, j))
      BY <1>1, <2>2 DEF Travels
    <2>4. \A j \in Keys : Get(table, j) # NIL => Passed(table, at, j)
      BY <1>1, <2>1, <2>3, NextKeyIs
    <2>5. seen[3] \subseteq seen[2]
      BY <1>5, <2>3, <2>4
    <2>6. seen' = Idle
      BY <2>1, <2>5
    <2> QED BY <1>1, <1>3, <1>4, <2>6 DEF IInv, Travels, Idle
  <1> QED BY <1>6, <1>7, <1>8

LEMMA NextKeeps == IInv /\ [Next]_vars => IInv'
  <1> SUFFICES ASSUME IInv, [Next]_vars PROVE IInv'  OBVIOUS
  <1>1. ASSUME NEW k \in Keys, Assign(k, k) \/ Assign(k, NIL) PROVE IInv'
    <2>1. k \in Cells /\ NIL \in Cells
      BY DEF Cells
    <2> QED BY <1>1, <2>1, AssignKeeps
  <1>2. ASSUME NEW n \in Indices, SetList(n) PROVE IInv'
    BY <1>2, SetListKeeps
  <1>3. CASE KillKey
    BY <1>3, KillKeeps
  <1>4. CASE Begin \/ Step \/ End
    BY <1>4, TraversalKeeps
  <1>5. CASE UNCHANGED vars
    <2>1. table' = table /\ map' = map /\ at' = at /\ seen' = seen
      BY <1>5 DEF vars
    <2>2. Reflects'
      BY <2>1 DEF IInv, Reflects
    <2>3. PICK s \in Nat : Sound(table, s) /\ Travels(s)
      BY DEF IInv
    <2>4. Travels(s)'
      BY <2>1, <2>3 DEF Travels, Idle
    <2> QED BY <2>1, <2>2, <2>3, <2>4 DEF IInv
  <1> QED BY <1>1, <1>2, <1>3, <1>4, <1>5 DEF Next

----------------------------------------------------------------------------
(* The theorems.                                                           *)

\* Whatever a program does with a table, its nodes form chains on which each key
\* can be found, and it holds what was assigned: ltable.c keeps this invariant.
THEOREM TableStaysSound == Spec => []IInv
  <1>1. Init => IInv
    BY InitIs
  <1>2. IInv /\ [Next]_vars => IInv'
    BY NextKeeps
  <1> QED BY <1>1, <1>2, PTL DEF Spec

\* A rehash finds room for the key that it was called for: luaH_newkey() calls
\* itself, by way of luaH_set(), no deeper than once.
THEOREM RehashOnce == Spec => [](\A k \in Keys : ~Full(Rehash(table, k), k))
  <1>1. IInv => \A k \in Keys : ~Full(Rehash(table, k), k)
    <2>1. ASSUME IInv, NEW k \in Keys PROVE ~Full(Rehash(table, k), k)
      <3>1. PICK s \in Nat : Sound(table, s)
        BY <2>1 DEF IInv
      <3>2. \E s2 \in Nat : /\ Sound(Rehash(table, k), s2) /\ ~Full(Rehash(table, k), k)
                            /\ \A j \in Asked : Get(Rehash(table, k), j) = Get(table, j)
        BY <3>1, RehashSound
      <3> QED BY <3>2
    <2> QED BY <2>1
  <1> QED BY <1>1, TableStaysSound, PTL

LEMMA ReadIs ==
    ASSUME Reflects, NEW s \in Nat, Sound(table, s), NEW i \in Nat, i >= 1,
           InArray(table, i) \/ i <= MaxInt + 1
    PROVE  Get(table, i) = ValueAt(i)
  <1>1. table \in TablesOf(s) /\ ArrayOfIndices(table)
    BY DEF Sound
  <1>2. MaxInt \in Nat /\ i \notin Names
    BY KeysAssumption
  <1>3. i \in Keys <=> i \in Indices
    BY <1>2 DEF Keys
  <1>4. CASE i <= MaxInt + 1
    <2>1. i \in Asked
      BY <1>2, <1>4 DEF Asked
    <2> QED BY <1>3, <2>1 DEF Reflects, ValueAt
  <1>5. CASE InArray(table, i) /\ ~(i <= MaxInt + 1)
    <2>1. i \notin Indices
      BY <1>2, <1>5, KeysAssumption
    <2>2. i \in 1..Len(table.array)
      <3>1. i <= Len(table.array) /\ Len(table.array) \in Nat
        BY <1>1, <1>5, TableIs DEF InArray, SizeArray
      <3> QED BY <3>1
    <2>3. table.array[i] = NIL
      BY <1>1, <2>1, <2>2 DEF ArrayOfIndices
    <2> QED BY <1>5, <2>1, <2>3 DEF Get, ValueAt
  <1> QED BY <1>4, <1>5

LEMMA LengthIs ==
    ASSUME IInv
    PROVE  LengthIsBorder
  <1>1. PICK s \in Nat : Sound(table, s)
    BY DEF IInv
  <1>2. Reflects
    BY DEF IInv
  <1>3. PICK j \in Nat : j = SizeArray(table)
    BY <1>1, TableIs DEF Sound
  <1>4. SizeNode(table) = s
    BY <1>1, TableIs DEF Sound
  <1>5. MaxInt \in Nat
    BY KeysAssumption
  <1>6. PICK n : n = GetN(table)  OBVIOUS
  <1>7. n = IF j > 0 /\ table.array[j] = NIL THEN Bisect(table, 0, j)
            ELSE IF s = 0 THEN j ELSE Unbound(table, j, j + 1)
    BY <1>3, <1>4, <1>6 DEF GetN
  <1>8. \A i \in Nat : i <= j => InArray(table, i)
    BY <1>3, KeysAssumption DEF InArray
  <1>9. InArray(table, j) /\ Get(table, j) = table.array[j]
    <2>1. InArray(table, j)
      BY <1>8
    <2> QED BY <2>1 DEF Get
  <1>10. n \in Nat /\ (n = 0 \/ ValueAt(n) # NIL) /\ ValueAt(n + 1) = NIL
    <2>1. CASE j > 0 /\ table.array[j] = NIL
      <3>1. PICK m \in 0..(j - 1) : m = Bisect(table, 0, j) /\ Get(table, m + 1) = NIL
                                    /\ (m = 0 \/ Get(table, m) # NIL)
        <4>1. 0 \in Nat /\ 0 < j /\ Get(table, j) = NIL
          BY <1>9, <2>1
        <4> QED BY <4>1, BisectIs
      <3>2. n = m /\ m \in Nat /\ m <= j /\ m + 1 \in Nat /\ m + 1 <= j /\ m + 1 >= 1
        BY <1>7, <2>1, <3>1
      <3>3. Get(table, m + 1) = ValueAt(m + 1)
        BY <1>1, <1>2, <1>8, <3>2, ReadIs
      <3>4. m # 0 => Get(table, m) = ValueAt(m)
        <4>1. m # 0 => m >= 1
          BY <3>2
        <4> QED BY <1>1, <1>2, <1>8, <3>2, <4>1, ReadIs
      <3> QED BY <3>1, <3>2, <3>3, <3>4
    <2>2. CASE ~(j > 0 /\ table.array[j] = NIL) /\ s = 0
      <3>1. n = j
        BY <1>7, <2>2
      <3>2. j # 0 => Get(table, j) = ValueAt(j)
        <4>1. j # 0 => j >= 1  OBVIOUS
        <4> QED BY <1>1, <1>2, <1>9, <4>1, ReadIs
      <3>3. j = 0 \/ ValueAt(j) # NIL
        BY <1>9, <2>2, <3>2
      <3>4. ValueAt(j + 1) = NIL
        <4>1. CASE j + 1 \in Indices
          <5>1. ~(j + 1 <= j)  OBVIOUS
          <5>2. ~InArray(table, j + 1)
            BY <1>3, <5>1 DEF InArray
          <5>3. Get(table, j + 1) = NIL
            BY <1>4, <2>2, <5>2 DEF Get, NodeOf, OnChain
          <5>4. Get(table, j + 1) = map[j + 1]
            BY <1>2, <4>1, IndexIs, ValueIs
          <5> QED BY <4>1, <5>3, <5>4 DEF ValueAt
        <4>2. CASE j + 1 \notin Indices
          BY <4>2 DEF ValueAt
        <4> QED BY <4>1, <4>2
      <3> QED BY <3>1, <3>3, <3>4
    <2>3. CASE ~(j > 0 /\ table.array[j] = NIL) /\ s # 0
      <3>1. j = 0 \/ Get(table, j) # NIL
        BY <1>9, <2>3
      <3>2. Get(table, MaxInt + 1) = NIL
        <4>1. MaxInt + 1 \in Nat /\ MaxInt + 1 >= 1 /\ MaxInt + 1 <= MaxInt + 1 /\ MaxInt + 1 \notin 1..MaxInt
          BY <1>5
        <4>2. MaxInt + 1 \notin Indices
          BY <4>1, KeysAssumption
        <4>3. Get(table, MaxInt + 1) = ValueAt(MaxInt + 1)
          BY <1>1, <1>2, <4>1, ReadIs
        <4> QED BY <4>2, <4>3 DEF ValueAt
      <3>3. PICK m \in 0..MaxInt : m = Unbound(table, j, j + 1) /\ Get(table, m + 1) = NIL
                                   /\ (m = 0 \/ Get(table, m) # NIL)
        BY <3>1, <3>2, UnboundIs
      <3>4. n = m
        BY <1>7, <2>3, <3>3
      <3>5. m \in Nat /\ m <= MaxInt + 1 /\ m + 1 \in Nat /\ m + 1 <= MaxInt + 1 /\ m + 1 >= 1
        BY <1>5, <3>3
      <3>6. Get(table, m + 1) = ValueAt(m + 1)
        BY <1>1, <1>2, <3>5, ReadIs
      <3>7. m # 0 => Get(table, m) = ValueAt(m)
        <4>1. m # 0 => m >= 1
          BY <3>5
        <4> QED BY <1>1, <1>2, <3>5, <4>1, ReadIs
      <3> QED BY <3>3, <3>4, <3>5, <3>6, <3>7
    <2> QED BY <2>1, <2>2, <2>3
  <1> QED BY <1>6, <1>10 DEF LengthIsBorder, ValueAt

\* A table is the map of what was assigned to it, whatever moved a key, and its
\* length, as luaH_getn() finds it, is a border.
THEOREM TablesAreRight == Spec => []TableRight
  <1>1. IInv => IsTheMap
    <2>1. IInv => Reflects
      BY DEF IInv
    <2>2. Reflects => IsTheMap
      BY ValueIs DEF IsTheMap
    <2> QED BY <2>1, <2>2
  <1>2. IInv => TableRight
    BY <1>1, LengthIs DEF TableRight
  <1> QED BY <1>2, TableStaysSound, PTL

\* A traversal, in which fields are changed and cleared and the collector kills
\* keys, goes on from where it was, visits no field twice and misses none.
THEOREM TraversalsAreComplete == Spec => []TraversalComplete
  <1>1. IInv => TraversalComplete
    <2> SUFFICES ASSUME IInv PROVE TraversalComplete  OBVIOUS
    <2>1. PICK s \in Nat : Sound(table, s) /\ Travels(s)
      BY DEF IInv
    <2>2. CASE seen = Idle
      BY <2>2 DEF TraversalComplete, Idle
    <2>3. CASE seen # Idle
      <3>1. seen[1] = "going" /\ Placed(table, s, at)
        BY <2>1, <2>3 DEF Travels
      <3>2. NextKey(table, at) \in Keys \union {NIL}
        BY <2>1, <3>1, NextKeyIs
      <3>3. NextKey(table, at) # Invalid
        BY <3>2, KeysAssumption
      <3> QED BY <3>1, <3>3 DEF TraversalComplete
    <2> QED BY <2>2, <2>3
  <1> QED BY <1>1, TableStaysSound, PTL

----------------------------------------------------------------------------
(* Sequences.                                                              *)

LEMMA SequenceIs ==
    ASSUME NEW s, Sequence(s)
    PROVE  Len(s) \in Nat
  BY DEF Sequence

LEMMA SequenceGrows ==
    ASSUME NEW s, Sequence(s), NEW x
    PROVE  Sequence(Append(s, x))
  <1>1. PICK S : s \in Seq(S)
    BY DEF Sequence
  <1>2. s \in Seq(S \union {x})
    BY <1>1, SeqMonotonic, S \subseteq S \union {x}
  <1>3. Append(s, x) \in Seq(S \union {x})
    BY <1>2, AppendProperties, x \in S \union {x}
  <1> QED BY <1>3 DEF Sequence

LEMMA SequenceCut ==
    ASSUME NEW s, NEW m \in Nat, NEW n \in Nat
    PROVE  Sequence(SubSeq(s, m, n))
  <1>1. PICK S : S = {s[i] : i \in m..n}  OBVIOUS
  <1>2. \A i \in m..n : s[i] \in S
    BY <1>1
  <1>3. m \in Int /\ n \in Int  OBVIOUS
  <1>4. SubSeq(s, m, n) \in Seq(S)
    BY <1>2, <1>3, SubSeqProperties
  <1> QED BY <1>4 DEF Sequence

\* What is added to a sequence can be taken off again.
LEMMA CutBack ==
    ASSUME NEW S, NEW a \in Seq(S), NEW b \in Seq(S)
    PROVE  SubSeq(a \o b, 1, Len(a)) = a
  <1>1. CASE Len(a) = 0
    <2>1. SubSeq(a \o b, 1, 0) = << >>
      BY SubSeqEmpty, 1 \in Int, 0 \in Int
    <2>2. a = << >>
      BY <1>1
    <2> QED BY <1>1, <2>1, <2>2
  <1>2. CASE Len(a) # 0
    <2>1. Len(a) \in 1..Len(a) /\ 1 \in 1..Len(a)
      BY <1>2
    <2>2. SubSeq(a \o b, 1, Len(a)) = SubSeq(a, 1, Len(a))
      BY <2>1, SubSeqOfConcat1
    <2> QED BY <2>2, SubSeqFull
  <1> QED BY <1>1, <1>2

LEMMA FrontOfAppend ==
    ASSUME NEW S, NEW a \in Seq(S), NEW x \in S
    PROVE  /\ Append(a, x) \in Seq(S) /\ Append(a, x) # << >> /\ Len(Append(a, x)) = Len(a) + 1
           /\ Front(Append(a, x)) = a /\ Last(Append(a, x)) = x
           /\ \A i \in 1..Len(a) : Append(a, x)[i] = a[i]
  <1>1. /\ Append(a, x) \in Seq(S) /\ Append(a, x) # << >> /\ Len(Append(a, x)) = Len(a) + 1
        /\ Append(a, x)[Len(a) + 1] = x
        /\ \A i \in 1..Len(a) : Append(a, x)[i] = a[i]
    BY AppendProperties
  <1>2. <<x>> \in Seq(S) /\ Append(a, x) = a \o <<x>>
    BY AppendIsConcat
  <1>3. Front(Append(a, x)) = a
    <2>1. Len(Append(a, x)) - 1 = Len(a)
      BY <1>1
    <2>2. Front(Append(a, x)) = SubSeq(a \o <<x>>, 1, Len(a))
      BY <1>2, <2>1 DEF Front
    <2> QED BY <1>2, <2>2, CutBack
  <1> QED BY <1>1, <1>3 DEF Last

LEMMA FrontIs ==
    ASSUME NEW S, NEW a \in Seq(S), a # << >>
    PROVE  /\ Front(a) \in Seq(S) /\ Len(a) \in Nat \ {0} /\ Len(Front(a)) = Len(a) - 1
           /\ \A i \in 1..(Len(a) - 1) : Front(a)[i] = a[i]
           /\ Last(a) = a[Len(a)] /\ Last(a) \in S
  <1>1. Len(a) \in Nat \ {0} /\ \A i \in 1..Len(a) : a[i] \in S
    BY EmptySeq, ElementOfSeq
  <1>2. PICK n : n = Len(a) - 1  OBVIOUS
  <1>3. n \in Nat /\ n \in Int /\ 1 \in Int /\ 1..n \subseteq 1..Len(a)
    BY <1>1, <1>2
  <1>4. \A i \in 1..n : a[i] \in S
    BY <1>1, <1>3
  <1>5. /\ SubSeq(a, 1, n) \in Seq(S)
        /\ Len(SubSeq(a, 1, n)) = IF 1 <= n THEN n - 1 + 1 ELSE 0
        /\ \A i \in 1 .. n - 1 + 1 : SubSeq(a, 1, n)[i] = a[1 + i - 1]
    BY <1>3, <1>4, SubSeqProperties
  <1>6. Len(SubSeq(a, 1, n)) = n
    BY <1>3, <1>5
  <1>7. \A i \in 1..n : SubSeq(a, 1, n)[i] = a[i]
    <2>1. \A i \in 1..n : i \in 1..(n - 1 + 1) /\ 1 + i - 1 = i
      BY <1>3
    <2> QED BY <1>5, <2>1
  <1>8. Front(a) = SubSeq(a, 1, n)
    BY <1>2 DEF Front
  <1> QED BY <1>1, <1>2, <1>5, <1>6, <1>7, <1>8 DEF Last

----------------------------------------------------------------------------
(* The functions that are being read, without what is not needed to tell   *)
(* which variables they have: snapshots.                                   *)

LEMMA WithLastIs ==
    ASSUME NEW X, NEW S \in Seq(X), S # << >>, NEW f \in X
    PROVE  /\ WithLast(S, f) \in Seq(X) /\ WithLast(S, f) # << >>
           /\ Len(WithLast(S, f)) = Len(S) /\ Last(WithLast(S, f)) = f
           /\ \A i \in 1..(Len(S) - 1) : WithLast(S, f)[i] = S[i]
           /\ Last(S) \in X /\ Len(S) \in Nat \ {0}
  <1>1. Len(S) \in Nat \ {0} /\ Last(S) = S[Len(S)] /\ Last(S) \in X
    BY FrontIs
  <1>2. Len(S) \in 1..Len(S)
    BY <1>1
  <1>3. /\ WithLast(S, f) \in Seq(X) /\ Len(WithLast(S, f)) = Len(S)
        /\ \A j \in 1..Len(S) : WithLast(S, f)[j] = IF j = Len(S) THEN f ELSE S[j]
    BY <1>2, ExceptSeq DEF WithLast
  <1>4. WithLast(S, f) # << >>
    BY <1>1, <1>3, EmptySeq
  <1>5. Last(WithLast(S, f)) = f
    BY <1>2, <1>3 DEF Last
  <1>6. \A i \in 1..(Len(S) - 1) : WithLast(S, f)[i] = S[i]
    <2>1. \A i \in 1..(Len(S) - 1) : i \in 1..Len(S) /\ i # Len(S)
      BY <1>1
    <2> QED BY <1>3, <2>1
  <1> QED BY <1>1, <1>3, <1>4, <1>5, <1>6

\* Two that are the same but for the last one, and there, are the same.
LEMMA SameLast ==
    ASSUME NEW X, NEW S \in Seq(X), NEW T \in Seq(X), Len(S) = Len(T), S # << >>,
           \A i \in 1..(Len(S) - 1) : S[i] = T[i], Last(S) = Last(T)
    PROVE  S = T
  <1>1. Len(S) \in Nat \ {0} /\ S[Len(S)] = T[Len(S)]
    BY FrontIs DEF Last
  <1>2. \A i \in 1..Len(S) : i = Len(S) \/ i \in 1..(Len(S) - 1)
    BY <1>1
  <1>3. \A i \in 1..Len(S) : S[i] = T[i]
    BY <1>1, <1>2
  <1> QED BY <1>3, SeqEqual

LEMMA WithLastTwice ==
    ASSUME NEW X, NEW S \in Seq(X), S # << >>, NEW f \in X, NEW h \in X
    PROVE  /\ WithLast(WithLast(S, f), h) = WithLast(S, h) /\ WithLast(S, Last(S)) = S
           /\ Front(WithLast(S, f)) = Front(S)
  <1>0. /\ WithLast(S, f) \in Seq(X) /\ WithLast(S, f) # << >> /\ Len(WithLast(S, f)) = Len(S)
        /\ \A i \in 1..(Len(S) - 1) : WithLast(S, f)[i] = S[i]
        /\ Last(S) \in X /\ Len(S) \in Nat \ {0}
    BY WithLastIs
  <1>1. PICK T : T = WithLast(S, f)  OBVIOUS
  <1>2. /\ T \in Seq(X) /\ T # << >> /\ Len(T) = Len(S)
        /\ \A i \in 1..(Len(S) - 1) : T[i] = S[i]
        /\ Last(S) \in X /\ Len(S) \in Nat \ {0}
    BY <1>0, <1>1
  <1>3. /\ WithLast(T, h) \in Seq(X) /\ WithLast(T, h) # << >>
        /\ Len(WithLast(T, h)) = Len(T) /\ Last(WithLast(T, h)) = h
        /\ \A i \in 1..(Len(T) - 1) : WithLast(T, h)[i] = T[i]
    BY <1>2, WithLastIs
  <1>4. /\ WithLast(S, h) \in Seq(X) /\ WithLast(S, h) # << >>
        /\ Len(WithLast(S, h)) = Len(S) /\ Last(WithLast(S, h)) = h
        /\ \A i \in 1..(Len(S) - 1) : WithLast(S, h)[i] = S[i]
    BY WithLastIs
  <1>5. /\ WithLast(S, Last(S)) \in Seq(X) /\ Len(WithLast(S, Last(S))) = Len(S)
        /\ Last(WithLast(S, Last(S))) = Last(S) /\ WithLast(S, Last(S)) # << >>
        /\ \A i \in 1..(Len(S) - 1) : WithLast(S, Last(S))[i] = S[i]
    BY <1>2, WithLastIs
  <1>6. WithLast(T, h) = WithLast(S, h)
    BY <1>2, <1>3, <1>4, SameLast
  <1>7. WithLast(S, Last(S)) = S
    BY <1>5, SameLast
  <1>8. Front(T) = Front(S)
    <2>1. /\ Front(T) \in Seq(X) /\ Len(Front(T)) = Len(S) - 1
          /\ \A i \in 1..(Len(S) - 1) : Front(T)[i] = T[i]
      BY <1>2, FrontIs
    <2>2. /\ Front(S) \in Seq(X) /\ Len(Front(S)) = Len(S) - 1
          /\ \A i \in 1..(Len(S) - 1) : Front(S)[i] = S[i]
      BY FrontIs
    <2>3. \A i \in 1..Len(Front(T)) : Front(T)[i] = Front(S)[i]
      BY <1>2, <2>1, <2>2
    <2> QED BY <2>1, <2>2, <2>3, SeqEqual
  <1> QED BY <1>1, <1>6, <1>7, <1>8

LEMMA FunctionTypes ==
    ASSUME NEW f \in Snaps, NEW vs \in Seq(Vars)
    PROVE  /\ AddVars(f, vs) \in Snaps /\ Entered(f) \in Snaps /\ Opened(vs) \in Snaps
           /\ AddVars(f, << >>) = f /\ AddVars(f, vs).actvar = f.actvar \o vs
           /\ AddVars(f, vs).levels = f.levels /\ AddVars(f, vs).owner = f.owner
           /\ Entered(f).actvar = f.actvar /\ Entered(f).owner = f.owner
           /\ Entered(f).levels = Append(f.levels, Len(f.actvar))
  <1>1. /\ f.actvar \in Seq(Vars) /\ f.levels \in Seq(Nat) \ {<< >>} /\ f.owner \in Seq(Vars)
        /\ f = [actvar |-> f.actvar, levels |-> f.levels, owner |-> f.owner]
    BY DEF Snaps
  <1>2. f.actvar \o vs \in Seq(Vars)
    BY <1>1, ConcatProperties
  <1>3. Len(f.actvar) \in Nat /\ Append(f.levels, Len(f.actvar)) \in Seq(Nat) \ {<< >>}
    BY <1>1, LenProperties, AppendProperties
  <1>4. f.actvar \o << >> = f.actvar
    BY <1>1, ConcatEmptySeq
  <1>5. << >> \in Seq(Vars) /\ <<0>> \in Seq(Nat) \ {<< >>}  OBVIOUS
  <1>6. AddVars(f, vs) = [actvar |-> f.actvar \o vs, levels |-> f.levels, owner |-> f.owner]
    BY <1>1 DEF AddVars
  <1>7. AddVars(f, << >>) = f
    BY <1>1, <1>4 DEF AddVars
  <1>8. Entered(f) = [actvar |-> f.actvar, levels |-> Append(f.levels, Len(f.actvar)), owner |-> f.owner]
    BY <1>1 DEF Entered
  <1>9. Opened(vs) \in Snaps
    BY <1>5 DEF Opened, Snaps
  <1>10. AddVars(f, vs) \in Snaps
    BY <1>1, <1>2, <1>6 DEF Snaps
  <1>11. Entered(f) \in Snaps
    BY <1>1, <1>3, <1>8 DEF Snaps
  <1> QED BY <1>6, <1>7, <1>8, <1>9, <1>10, <1>11

\* Leaving a block undoes entering it, whatever variables it has had.
LEMMA LeftEntered ==
    ASSUME NEW f \in Snaps, NEW vs \in Seq(Vars)
    PROVE  Left(AddVars(Entered(f), vs)) = f
  <1>1. /\ f.actvar \in Seq(Vars) /\ f.levels \in Seq(Nat)
        /\ f = [actvar |-> f.actvar, levels |-> f.levels, owner |-> f.owner]
    BY DEF Snaps
  <1>2. PICK h : h = AddVars(Entered(f), vs)  OBVIOUS
  <1>3. Entered(f) \in Snaps
    BY FunctionTypes
  <1>4. h \in Snaps /\ h.actvar = f.actvar \o vs /\ h.owner = f.owner
        /\ h.levels = Append(f.levels, Len(f.actvar))
    BY <1>2, <1>3, FunctionTypes
  <1>5. Len(f.actvar) \in Nat
    BY <1>1
  <1>6. Front(h.levels) = f.levels /\ Last(h.levels) = Len(f.actvar)
    BY <1>1, <1>4, <1>5, FrontOfAppend
  <1>7. SubSeq(h.actvar, 1, Last(h.levels)) = f.actvar
    BY <1>1, <1>4, <1>6, CutBack
  <1>8. Left(h) = [actvar |-> f.actvar, levels |-> f.levels, owner |-> f.owner]
    <2>2. Left(h) = [actvar |-> SubSeq(h.actvar, 1, Last(h.levels)), levels |-> Front(h.levels), owner |-> h.owner]
      BY DEF Left
    <2> QED BY <1>4, <1>6, <1>7, <2>2
  <1> QED BY <1>1, <1>2, <1>8

\* What was entered and what was opened is undone by leaving and closing it.
LEMMA StackTypes ==
    ASSUME NEW S \in Seq(Snaps), S # << >>, NEW vs \in Seq(Vars)
    PROVE  /\ AddS(S, vs) \in Seq(Snaps) /\ AddS(S, vs) # << >>
           /\ EnterS(S) \in Seq(Snaps) /\ EnterS(S) # << >>
           /\ OpenS(S, vs) \in Seq(Snaps) /\ OpenS(S, vs) # << >>
           /\ AddS(S, << >>) = S
           /\ Last(AddS(S, vs)) = AddVars(Last(S), vs) /\ Last(EnterS(S)) = Entered(Last(S))
           /\ Last(OpenS(S, vs)) = Opened(vs) /\ Front(OpenS(S, vs)) = S
  <1>1. Last(S) \in Snaps
    BY FrontIs
  <1>2. /\ AddVars(Last(S), vs) \in Snaps /\ Entered(Last(S)) \in Snaps /\ Opened(vs) \in Snaps
        /\ AddVars(Last(S), << >>) = Last(S)
    BY <1>1, FunctionTypes
  <1>3. AddS(S, vs) \in Seq(Snaps) /\ AddS(S, vs) # << >> /\ Last(AddS(S, vs)) = AddVars(Last(S), vs)
    BY <1>2, WithLastIs DEF AddS
  <1>4. EnterS(S) \in Seq(Snaps) /\ EnterS(S) # << >> /\ Last(EnterS(S)) = Entered(Last(S))
    BY <1>2, WithLastIs DEF EnterS
  <1>5. /\ OpenS(S, vs) \in Seq(Snaps) /\ OpenS(S, vs) # << >>
        /\ Last(OpenS(S, vs)) = Opened(vs) /\ Front(OpenS(S, vs)) = S
    BY <1>2, FrontOfAppend DEF OpenS
  <1>6. AddS(S, << >>) = S
    BY <1>1, <1>2, WithLastTwice DEF AddS
  <1> QED BY <1>3, <1>4, <1>5, <1>6

LEMMA LeaveEnter ==
    ASSUME NEW S \in Seq(Snaps), S # << >>, NEW vs \in Seq(Vars)
    PROVE  LeaveS(AddS(EnterS(S), vs)) = S /\ LeaveS(EnterS(S)) = S
  <1>1. Last(S) \in Snaps /\ << >> \in Seq(Vars)
    BY FrontIs
  <1>2. PICK E : E = EnterS(S)  OBVIOUS
  <1>3. E \in Seq(Snaps) /\ E # << >> /\ Last(E) = Entered(Last(S)) /\ Entered(Last(S)) \in Snaps
    BY <1>1, <1>2, StackTypes, FunctionTypes
  <1>4. ASSUME NEW ws \in Seq(Vars) PROVE LeaveS(AddS(E, ws)) = S
    <2>1. AddVars(Last(E), ws) \in Snaps
      BY <1>3, FunctionTypes
    <2>2. AddS(E, ws) \in Seq(Snaps) /\ AddS(E, ws) # << >> /\ Last(AddS(E, ws)) = AddVars(Last(E), ws)
      BY <1>3, StackTypes
    <2>3. Left(Last(AddS(E, ws))) = Last(S)
      BY <1>1, <1>3, <2>2, LeftEntered
    <2>4. LeaveS(AddS(E, ws)) = WithLast(AddS(E, ws), Last(S))
      BY <2>3 DEF LeaveS
    <2>5. AddS(E, ws) = WithLast(E, AddVars(Last(E), ws))
      BY DEF AddS
    <2>6. WithLast(WithLast(E, AddVars(Last(E), ws)), Last(S)) = WithLast(E, Last(S))
      BY <1>1, <1>3, <2>1, WithLastTwice
    <2>7. WithLast(E, Last(S)) = WithLast(S, Last(S))
      BY <1>1, <1>2, <1>3, WithLastTwice DEF EnterS
    <2>8. WithLast(S, Last(S)) = S
      BY <1>1, WithLastTwice
    <2> QED BY <2>4, <2>5, <2>6, <2>7, <2>8
  <1>5. AddS(E, << >>) = E
    BY <1>1, <1>3, StackTypes
  <1>6. LeaveS(E) = S
    BY <1>1, <1>4, <1>5
  <1> QED BY <1>2, <1>4, <1>6

LEMMA OneToThree ==
    \A j \in 1..3 : j = 1 \/ j = 2 \/ j = 3
  <1>1. ASSUME NEW j \in Int, 1 <= j, j <= 3
        PROVE  j = 1 \/ j = 2 \/ j = 3
    BY <1>1
  <1> QED BY <1>1

LEMMA ControlsAre == Controls \in Seq(Vars)
  <1>1. \A w \in Own : Hidden(w) \in Vars
    BY DEF Vars, Hidden
  <1>2. Hidden("(for index)") \in Vars /\ Hidden("(for limit)") \in Vars /\ Hidden("(for step)") \in Vars
    BY <1>1 DEF Own
  <1>3. \A a, b, c \in Vars : <<a, b, c>> \in Seq(Vars)  OBVIOUS
  <1> QED BY <1>2, <1>3 DEF Controls

LEMMA VarAtIs ==
    ASSUME NEW n \in VariableNames, NEW o \in Nat
    PROVE  VarAt(n, o) \in Vars /\ <<VarAt(n, o)>> \in Seq(Vars)
  <1>1. VarAt(n, o) \in Vars
    BY DEF VarAt, Vars
  <1> QED BY <1>1

LEMMA OpenedEnds ==
    ASSUME NEW S \in Seq(Snaps), S # << >>, NEW owner \in Seq(Vars), NEW vs \in Seq(Vars)
    PROVE  /\ Front(AddS(OpenS(S, owner), vs)) = S
           /\ Last(AddS(OpenS(S, owner), vs)).owner = owner
  <1>1. PICK T : T = OpenS(S, owner)  OBVIOUS
  <1>2. T \in Seq(Snaps) /\ T # << >> /\ Last(T) = Opened(owner) /\ Front(T) = S
    BY <1>1, StackTypes
  <1>3. Last(T) \in Snaps /\ Last(T).owner = owner
    BY <1>2, FrontIs DEF Opened
  <1>4. AddVars(Last(T), vs) \in Snaps /\ AddVars(Last(T), vs).owner = owner
    BY <1>3, FunctionTypes
  <1>5. Last(AddS(T, vs)) = AddVars(Last(T), vs)
    BY <1>2, StackTypes
  <1>6. Front(AddS(T, vs)) = Front(T)
    BY <1>2, <1>4, WithLastTwice DEF AddS
  <1> QED BY <1>1, <1>2, <1>4, <1>5, <1>6

LEMMA EndUndoes ==
    ASSUME NEW S \in Seq(Snaps), S # << >>, NEW vs \in Seq(Vars), NEW kind \in Openings,
           NEW n, kind \in {"for", "local function", "local = function"} => n \in VariableNames,
           NEW o \in Nat
    PROVE  /\ After(S, kind, n, o) \in Seq(Snaps) /\ After(S, kind, n, o) # << >>
           /\ Ended(AddS(After(S, kind, n, o), vs), kind) = AddS(S, Staying(kind, n, o))
  <1>1. PICK E : E = EnterS(S)  OBVIOUS
  <1>2. E \in Seq(Snaps) /\ E # << >> /\ LeaveS(AddS(E, vs)) = S /\ LeaveS(E) = S /\ AddS(S, << >>) = S
    BY <1>1, StackTypes, LeaveEnter
  <1>3. CASE kind = "do"
    <2>1. After(S, kind, n, o) = E /\ Staying(kind, n, o) = << >>
      BY <1>1, <1>3 DEF After, Staying
    <2>2. Ended(AddS(E, vs), kind) = LeaveS(AddS(E, vs))
      BY <1>3 DEF Ended, Functions
    <2> QED BY <1>2, <2>1, <2>2
  <1>4. CASE kind \in {"while", "repeat"}
    <2>1. After(S, kind, n, o) = EnterS(E) /\ Staying(kind, n, o) = << >>
      BY <1>1, <1>4 DEF After, Staying
    <2>2. Ended(AddS(EnterS(E), vs), kind) = LeaveS(LeaveS(AddS(EnterS(E), vs)))
      BY <1>4 DEF Ended, Functions
    <2>3. EnterS(E) \in Seq(Snaps) /\ EnterS(E) # << >> /\ LeaveS(AddS(EnterS(E), vs)) = E
      BY <1>2, StackTypes, LeaveEnter
    <2> QED BY <1>2, <2>1, <2>2, <2>3
  <1>5. CASE kind = "for"
    <2>0. Controls \in Seq(Vars) /\ <<VarAt(n, o)>> \in Seq(Vars)
      BY <1>5, ControlsAre, VarAtIs
    <2>1. PICK A : A = AddS(E, Controls)  OBVIOUS
    <2>2. A \in Seq(Snaps) /\ A # << >> /\ LeaveS(A) = S
      BY <1>1, <1>2, <2>0, <2>1, StackTypes, LeaveEnter
    <2>3. PICK B : B = AddS(EnterS(A), <<VarAt(n, o)>>)  OBVIOUS
    <2>4. EnterS(A) \in Seq(Snaps) /\ EnterS(A) # << >>
      BY <2>2, StackTypes
    <2>5. B \in Seq(Snaps) /\ B # << >> /\ LeaveS(B) = A
      BY <2>0, <2>2, <2>3, <2>4, StackTypes, LeaveEnter
    <2>6. EnterS(B) \in Seq(Snaps) /\ EnterS(B) # << >> /\ LeaveS(AddS(EnterS(B), vs)) = B
      BY <2>5, StackTypes, LeaveEnter
    <2>7. After(S, kind, n, o) = EnterS(B) /\ Staying(kind, n, o) = << >>
      BY <1>1, <1>5, <2>1, <2>3 DEF After, Staying
    <2>8. Ended(AddS(EnterS(B), vs), kind) = LeaveS(LeaveS(LeaveS(AddS(EnterS(B), vs))))
      BY <1>5 DEF Ended, Functions
    <2> QED BY <1>2, <2>2, <2>5, <2>6, <2>7, <2>8
  <1>6. CASE kind = "function"
    <2>1. After(S, kind, n, o) = OpenS(S, << >>) /\ Staying(kind, n, o) = << >>
      BY <1>6 DEF After, Staying
    <2>2. << >> \in Seq(Vars)
      BY EmptySeq
    <2>3. PICK T : T = AddS(OpenS(S, << >>), vs)  OBVIOUS
    <2>4. OpenS(S, << >>) \in Seq(Snaps) /\ OpenS(S, << >>) # << >> /\ Front(T) = S /\ Last(T).owner = << >>
      BY <2>2, <2>3, StackTypes, OpenedEnds
    <2>5. Ended(T, kind) = AddS(Front(T), Last(T).owner)
      BY <1>6 DEF Ended, Functions
    <2> QED BY <2>1, <2>3, <2>4, <2>5
  <1>7. CASE kind = "local function"
    <2>1. <<VarAt(n, o)>> \in Seq(Vars) /\ << >> \in Seq(Vars)
      BY <1>7, VarAtIs, EmptySeq
    <2>2. PICK A : A = AddS(S, <<VarAt(n, o)>>)  OBVIOUS
    <2>3. A \in Seq(Snaps) /\ A # << >> /\ AddS(A, << >>) = A
      BY <2>1, <2>2, StackTypes
    <2>4. After(S, kind, n, o) = OpenS(A, << >>) /\ Staying(kind, n, o) = <<VarAt(n, o)>>
      BY <1>7, <2>2 DEF After, Staying
    <2>5. PICK T : T = AddS(OpenS(A, << >>), vs)  OBVIOUS
    <2>6. OpenS(A, << >>) \in Seq(Snaps) /\ OpenS(A, << >>) # << >> /\ Front(T) = A /\ Last(T).owner = << >>
      BY <2>1, <2>3, <2>5, StackTypes, OpenedEnds
    <2>7. Ended(T, kind) = AddS(Front(T), Last(T).owner)
      BY <1>7 DEF Ended, Functions
    <2> QED BY <2>2, <2>3, <2>4, <2>5, <2>6, <2>7
  <1>8. CASE kind = "local = function"
    <2>1. <<VarAt(n, o)>> \in Seq(Vars)
      BY <1>8, VarAtIs
    <2>2. PICK v : v = <<VarAt(n, o)>>  OBVIOUS
    <2>3. After(S, kind, n, o) = OpenS(S, v) /\ Staying(kind, n, o) = v
      BY <1>8, <2>2 DEF After, Staying
    <2>4. PICK T : T = AddS(OpenS(S, v), vs)  OBVIOUS
    <2>5. OpenS(S, v) \in Seq(Snaps) /\ OpenS(S, v) # << >> /\ Front(T) = S /\ Last(T).owner = v
      BY <2>1, <2>2, <2>4, StackTypes, OpenedEnds
    <2>6. Ended(T, kind) = AddS(Front(T), Last(T).owner)
      BY <1>8 DEF Ended, Functions
    <2> QED BY <2>3, <2>4, <2>5, <2>6
  <1> QED BY <1>3, <1>4, <1>5, <1>6, <1>7, <1>8 DEF Openings, Functions

----------------------------------------------------------------------------
(* Which variable a name stands for.                                       *)

LEMMA MeansIs ==
    ASSUME NEW S \in Seq(Snaps), NEW D \in SUBSET Actual, Shows(S, D), NEW n \in VariableNames
    PROVE  MeansIn(S, Len(S), n) =
             LET A == {v.at : v \in {w \in D : w.name = n}} IN IF A = {} THEN 0 ELSE Max(A)
  <1> DEFINE A == {v.at : v \in {w \in D : w.name = n}}
             N == NamedAt(S, Len(S), n)
  <1>1. Len(S) \in Nat /\ \A k \in 1..Len(S) : S[k].actvar \in Seq(Vars) /\ Len(S[k].actvar) \in Nat
    <2>1. Len(S) \in Nat /\ \A k \in 1..Len(S) : S[k] \in Snaps
      BY LenProperties, ElementOfSeq
    <2>2. \A f \in Snaps : f.actvar \in Seq(Vars)
      BY DEF Snaps
    <2>3. \A s \in Seq(Vars) : Len(s) \in Nat
      BY LenProperties
    <2> QED BY <2>1, <2>2, <2>3
  <1>2. \A k \in 1..Len(S) : NamedIn(S[k].actvar, n) = {i \in 1..Len(S[k].actvar) : S[k].actvar[i].name = n}
    <2>1. \A k \in 1..Len(S) : DOMAIN S[k].actvar = 1..Len(S[k].actvar)
      BY <1>1, LenProperties
    <2> QED BY <2>1 DEF NamedIn
  <1>3. CASE N = {}
    <2>1. ASSUME NEW v \in D, v.name = n PROVE FALSE
      <3>1. PICK k \in 1..Len(S) : \E i \in 1..Len(S[k].actvar) : S[k].actvar[i] = v
        BY DEF Shows, AllThere
      <3>2. PICK i \in 1..Len(S[k].actvar) : S[k].actvar[i] = v
        BY <3>1
      <3>3. i \in NamedIn(S[k].actvar, n)
        BY <1>2, <2>1, <3>2
      <3>4. k \in N
        BY <3>3 DEF NamedAt
      <3> QED BY <1>3, <3>4
    <2>2. A = {}
      BY <2>1
    <2>3. MeansIn(S, Len(S), n) = 0
      BY <1>3 DEF MeansIn
    <2> QED BY <2>2, <2>3
  <1>4. CASE N # {}
    <2>1. N \subseteq 0..Len(S)
      BY <1>1 DEF NamedAt
    <2>2. PICK k : k = Max(N)  OBVIOUS
    <2>3. k \in N /\ \A c \in N : c <= k
      <3> HIDE DEF N
      <3> QED BY <1>1, <1>4, <2>1, <2>2, MaxIs
    <2>4. k \in 1..Len(S) /\ NamedIn(S[k].actvar, n) # {}
      BY <2>3 DEF NamedAt
    <2>5. PICK I : I = NamedIn(S[k].actvar, n)  OBVIOUS
    <2>6. I = {i \in 1..Len(S[k].actvar) : S[k].actvar[i].name = n} /\ I # {}
      BY <1>2, <2>4, <2>5
    <2>7. Len(S[k].actvar) \in Nat /\ I \subseteq 0..Len(S[k].actvar)
      BY <1>1, <2>4, <2>6
    <2>8. PICK i : i = Max(I)  OBVIOUS
    <2>9. i \in I /\ \A c \in I : c <= i
      BY <2>6, <2>7, <2>8, MaxIs
    <2>10. i \in 1..Len(S[k].actvar) /\ S[k].actvar[i].name = n
      BY <2>6, <2>9
    <2>11. MeansIn(S, Len(S), n) = S[k].actvar[i].at
      BY <1>4, <2>2, <2>5, <2>8 DEF MeansIn
    <2>12. S[k].actvar[i] \in D
      BY <2>4, <2>10 DEF Shows, AllKnown
    <2>13. S[k].actvar[i].at \in A
      BY <2>10, <2>12
    <2>14. ASSUME NEW v \in D, v.name = n PROVE v.at <= S[k].actvar[i].at
      <3>1. PICK m \in 1..Len(S) : \E j \in 1..Len(S[m].actvar) : S[m].actvar[j] = v
        BY DEF Shows, AllThere
      <3>2. PICK j \in 1..Len(S[m].actvar) : S[m].actvar[j] = v
        BY <3>1
      <3>3. j \in NamedIn(S[m].actvar, n)
        BY <1>2, <2>14, <3>2
      <3>4. m \in N
        BY <3>3 DEF NamedAt
      <3>5. m <= k /\ m \in Nat /\ k \in Nat
        BY <1>1, <2>3, <2>4, <3>4
      <3>6. v.at # 0 /\ S[k].actvar[i].at # 0 /\ v.at \in Nat /\ S[k].actvar[i].at \in Nat
        <4>1. \A w \in D : w.at \in Nat /\ w.at # 0
          BY DEF Actual, Vars
        <4> QED BY <2>12, <4>1
      <3>7. CASE m < k
        <4>1. v.at < S[k].actvar[i].at
          BY <2>4, <2>10, <3>2, <3>6, <3>7 DEF Shows, InOrder
        <4> QED BY <3>6, <4>1
      <3>8. CASE m = k
        <4>1. j <= i /\ j \in Nat /\ i \in Nat
          BY <1>1, <2>5, <2>9, <2>10, <3>2, <3>3, <3>8
        <4>2. CASE j = i
          BY <3>2, <3>6, <3>8, <4>2
        <4>3. CASE j < i
          <5>1. v.at < S[k].actvar[i].at
            BY <2>4, <2>10, <3>2, <3>6, <3>8, <4>3 DEF Shows, InOrder
          <5> QED BY <3>6, <5>1
        <4> QED BY <4>1, <4>2, <4>3
      <3> QED BY <3>5, <3>7, <3>8
    <2>15. \A a \in A : a <= S[k].actvar[i].at
      BY <2>14
    <2>16. Max(A) = S[k].actvar[i].at
      <3>1. PICK x : x = S[k].actvar[i].at  OBVIOUS
      <3>2. x \in A /\ \A a \in A : x >= a
        BY <2>13, <2>15, <3>1
      <3>3. \A y \in A : (\A a \in A : y >= a) => y = x
        <4>1. \A a \in A : a \in Nat
          BY DEF Actual, Vars
        <4>2. ASSUME NEW y \in A, \A a \in A : y >= a PROVE y = x
          <5>1. y >= x /\ x >= y /\ x \in Nat /\ y \in Nat
            BY <3>2, <4>1, <4>2
          <5> QED BY <5>1
        <4> QED BY <4>2
      <3> HIDE DEF A
      <3>4. Max(A) \in A /\ \A a \in A : Max(A) >= a
        BY <3>2 DEF Max
      <3> QED BY <3>1, <3>3, <3>4
    <2>17. A # {}
      BY <2>13
    <2> QED BY <2>11, <2>16, <2>17
  <1> QED BY <1>3, <1>4

LEMMA VarsOf ==
    ASSUME NEW S \in Seq(Snaps)
    PROVE  /\ Len(S) \in Nat
           /\ \A k \in 1..Len(S) : S[k] \in Snaps /\ S[k].actvar \in Seq(Vars) /\ Len(S[k].actvar) \in Nat
  <1>1. Len(S) \in Nat /\ \A k \in 1..Len(S) : S[k] \in Snaps
    BY LenProperties, ElementOfSeq
  <1>2. \A f \in Snaps : f.actvar \in Seq(Vars)
    BY DEF Snaps
  <1>3. \A s \in Seq(Vars) : Len(s) \in Nat
    BY LenProperties
  <1> QED BY <1>1, <1>2, <1>3

LEMMA ShowsSame ==
    ASSUME NEW S, NEW T, NEW D, Shows(S, D), Len(T) = Len(S),
           \A k \in 1..Len(S) : T[k].actvar = S[k].actvar
    PROVE  Shows(T, D)
  <1>1. AllKnown(T, D)
    BY DEF Shows, AllKnown
  <1>2. AllThere(T, D)
    <2>1. ASSUME NEW v \in D
          PROVE  \E k \in 1..Len(T) : \E i \in 1..Len(T[k].actvar) : T[k].actvar[i] = v
      <3>1. PICK k \in 1..Len(S) : \E i \in 1..Len(S[k].actvar) : S[k].actvar[i] = v
        BY DEF Shows, AllThere
      <3> QED BY <3>1
    <2> QED BY <2>1 DEF AllThere
  <1>3. InOrder(T)
    <2>1. SUFFICES ASSUME NEW k \in 1..Len(T), NEW m \in 1..Len(T),
                          NEW i \in 1..Len(T[k].actvar), NEW j \in 1..Len(T[m].actvar),
                          k < m \/ (k = m /\ i < j),
                          T[k].actvar[i].at # 0, T[m].actvar[j].at # 0
                   PROVE  T[k].actvar[i].at < T[m].actvar[j].at
      BY DEF InOrder
    <2>2. T[k].actvar = S[k].actvar /\ T[m].actvar = S[m].actvar  OBVIOUS
    <2>3. InOrder(S)
      BY DEF Shows
    <2> QED BY <2>1, <2>2, <2>3 DEF InOrder
  <1> QED BY <1>1, <1>2, <1>3 DEF Shows

LEMMA EnteredShows ==
    ASSUME NEW S \in Seq(Snaps), S # << >>, NEW D, Shows(S, D)
    PROVE  Shows(EnterS(S), D)
  <1>1. Last(S) \in Snaps /\ Last(S) = S[Len(S)]
    BY FrontIs
  <1>2. Entered(Last(S)) \in Snaps /\ Entered(Last(S)).actvar = Last(S).actvar
    BY <1>1, FunctionTypes, EmptySeq
  <1>3. /\ Len(EnterS(S)) = Len(S) /\ Last(EnterS(S)) = Entered(Last(S))
        /\ \A i \in 1..(Len(S) - 1) : EnterS(S)[i] = S[i]
        /\ Len(S) \in Nat \ {0}
    BY <1>2, WithLastIs DEF EnterS
  <1>4. EnterS(S)[Len(S)].actvar = S[Len(S)].actvar
    BY <1>1, <1>2, <1>3 DEF Last
  <1>5. \A k \in 1..Len(S) : EnterS(S)[k].actvar = S[k].actvar
    <2>1. \A k \in 1..Len(S) : k = Len(S) \/ k \in 1..(Len(S) - 1)
      BY <1>3
    <2> QED BY <1>3, <1>4, <2>1
  <1> QED BY <1>3, <1>5, ShowsSame

LEMMA AddedAre ==
    ASSUME NEW S \in Seq(Snaps), S # << >>, NEW vs \in Seq(Vars)
    PROVE  Adds(S, AddS(S, vs), vs, Len(S[Len(S)].actvar))
  <1>13. PICK T : T = AddS(S, vs)  OBVIOUS
  <1>14. PICK m : m = Len(S[Len(S)].actvar)  OBVIOUS
  <1>1. PICK f : f = AddVars(Last(S), vs)  OBVIOUS
  <1>2. Last(S) \in Snaps /\ Last(S) = S[Len(S)]
    BY FrontIs
  <1>3. f \in Snaps /\ f.actvar = Last(S).actvar \o vs
    BY <1>1, <1>2, FunctionTypes
  <1>4. /\ T \in Seq(Snaps) /\ Len(T) = Len(S) /\ Last(T) = f
        /\ \A i \in 1..(Len(S) - 1) : T[i] = S[i]
        /\ Len(S) \in Nat \ {0}
    <2>1. T = WithLast(S, f)
      BY <1>1, <1>13 DEF AddS
    <2>2. /\ WithLast(S, f) \in Seq(Snaps) /\ WithLast(S, f) # << >>
          /\ Len(WithLast(S, f)) = Len(S) /\ Last(WithLast(S, f)) = f
          /\ \A i \in 1..(Len(S) - 1) : WithLast(S, f)[i] = S[i]
          /\ Last(S) \in Snaps /\ Len(S) \in Nat \ {0}
      BY <1>3, WithLastIs
    <2> QED BY <2>1, <2>2
  <1>5. PICK a : a = S[Len(S)].actvar  OBVIOUS
  <1>6. a \in Seq(Vars) /\ Len(a) \in Nat /\ Len(vs) \in Nat
    BY <1>2, <1>5, LenProperties DEF Snaps
  <1>7. T[Len(S)].actvar = a \o vs
    BY <1>2, <1>3, <1>4, <1>5 DEF Last
  <1>8. /\ Len(a \o vs) = Len(a) + Len(vs)
        /\ \A i \in 1..Len(a) + Len(vs) : (a \o vs)[i] = IF i <= Len(a) THEN a[i] ELSE vs[i - Len(a)]
    BY <1>6, ConcatProperties
  <1>9. \A k \in 1..Len(S) : k = Len(S) \/ k \in 1..(Len(S) - 1)
    BY <1>4
  <1>10. ASSUME NEW k \in 1..Len(S), NEW i \in 1..Len(S[k].actvar)
         PROVE  i \in 1..Len(T[k].actvar) /\ T[k].actvar[i] = S[k].actvar[i]
    <2>1. CASE k \in 1..(Len(S) - 1)
      BY <1>4, <2>1
    <2>2. CASE k = Len(S)
      <3>1. i \in 1..Len(a) /\ i \in 1..Len(a) + Len(vs) /\ i <= Len(a)
        BY <1>5, <1>6, <2>2
      <3>2. (a \o vs)[i] = a[i]
        BY <1>8, <3>1
      <3> QED BY <1>5, <1>7, <1>8, <2>2, <3>1, <3>2
    <2> QED BY <1>9, <2>1, <2>2
  <1>11. ASSUME NEW j \in 1..Len(vs)
         PROVE  Len(a) + j \in 1..Len(T[Len(S)].actvar) /\ T[Len(S)].actvar[Len(a) + j] = vs[j]
    <2>1. Len(a) + j \in 1..Len(a) + Len(vs) /\ ~(Len(a) + j <= Len(a)) /\ Len(a) + j - Len(a) = j
      BY <1>6
    <2>2. (a \o vs)[Len(a) + j] = vs[j]
      BY <1>8, <2>1
    <2> QED BY <1>7, <1>8, <2>1, <2>2
  <1>12. ASSUME NEW k \in 1..Len(S), NEW i \in 1..Len(T[k].actvar)
         PROVE  \/ i \in 1..Len(S[k].actvar)
                \/ /\ k = Len(S)
                   /\ \E j \in 1..Len(vs) : i = m + j
    <2>1. CASE k \in 1..(Len(S) - 1)
      BY <1>4, <2>1
    <2>2. CASE k = Len(S)
      <3>1. i \in 1..Len(a) + Len(vs)
        BY <1>7, <1>8, <2>2
      <3>2. CASE i <= Len(a)
        BY <1>5, <1>6, <2>2, <3>1, <3>2
      <3>3. CASE ~(i <= Len(a))
        <4>1. i - Len(a) \in 1..Len(vs) /\ i = Len(a) + (i - Len(a))
          BY <1>6, <3>1, <3>3
        <4> QED BY <1>5, <1>14, <2>2, <4>1
      <3> QED BY <3>2, <3>3
    <2> QED BY <1>9, <2>1, <2>2
  <1> QED
    <2>1. Adds(S, T, vs, m)
      BY <1>4, <1>5, <1>6, <1>10, <1>11, <1>12, <1>14 DEF Adds
    <2> QED BY <1>13, <1>14, <2>1

\* A variable declared after those that are there.
LEMMA NewShows ==
    ASSUME NEW S \in Seq(Snaps), S # << >>, NEW D \in SUBSET Actual, Shows(S, D),
           NEW v \in Actual, \A w \in D : w.at < v.at
    PROVE  Shows(AddS(S, <<v>>), D \union {v})
  <1>0. <<v>> \in Seq(Vars) /\ Len(<<v>>) = 1 /\ <<v>>[1] = v
    BY DEF Actual
  <1>10. PICK vs : vs = <<v>>  OBVIOUS
  <1>11. vs \in Seq(Vars)
    BY <1>0, <1>10
  <1>1. PICK T : T = AddS(S, vs)  OBVIOUS
  <1>2. PICK m : m = Len(S[Len(S)].actvar)  OBVIOUS
  <1>3. /\ T \in Seq(Snaps) /\ Len(T) = Len(S) /\ Len(S) \in Nat \ {0}
        /\ \A k \in 1..Len(S) : \A i \in 1..Len(S[k].actvar) :
              i \in 1..Len(T[k].actvar) /\ T[k].actvar[i] = S[k].actvar[i]
        /\ \A j \in 1..Len(vs) : /\ m + j \in 1..Len(T[Len(S)].actvar)
                                    /\ T[Len(S)].actvar[m + j] = vs[j]
        /\ \A k \in 1..Len(S) : \A i \in 1..Len(T[k].actvar) :
              \/ i \in 1..Len(S[k].actvar)
              \/ /\ k = Len(S)
                 /\ \E j \in 1..Len(vs) : i = m + j
    <2>1. Adds(S, AddS(S, vs), vs, Len(S[Len(S)].actvar))
      BY <1>11, AddedAre
    <2>2. Adds(S, T, vs, m)
      BY <1>1, <1>2, <2>1
    <2> QED BY <2>2 DEF Adds
  <1>4. m \in Nat /\ Len(S) \in 1..Len(S)
    BY <1>2, <1>3, VarsOf
  <1>5. m + 1 \in 1..Len(T[Len(S)].actvar) /\ T[Len(S)].actvar[m + 1] = v
    BY <1>0, <1>3, <1>10
  <1>6. \A k \in 1..Len(S) : \A i \in 1..Len(T[k].actvar) :
           i \in 1..Len(S[k].actvar) \/ (k = Len(S) /\ i = m + 1)
    <2>1. \A j \in 1..Len(vs) : j = 1
      BY <1>0, <1>10
    <2> QED BY <1>2, <1>3, <2>1
  <1>7. AllKnown(T, D \union {v})
    <2>1. ASSUME NEW k \in 1..Len(T), NEW i \in 1..Len(T[k].actvar)
          PROVE  \/ T[k].actvar[i] \in D \union {v}
                 \/ (T[k].actvar[i].at = 0 /\ T[k].actvar[i].name \notin VariableNames)
      <3>1. CASE i \in 1..Len(S[k].actvar)
        <4>1. T[k].actvar[i] = S[k].actvar[i] /\ k \in 1..Len(S)
          BY <1>3, <3>1
        <4> QED BY <3>1, <4>1 DEF Shows, AllKnown
      <3>2. CASE k = Len(S) /\ i = m + 1
        BY <1>5, <3>2
      <3> QED BY <1>3, <1>6, <3>1, <3>2
    <2> QED BY <2>1 DEF AllKnown
  <1>8. AllThere(T, D \union {v})
    <2>1. ASSUME NEW w \in D
          PROVE  \E k \in 1..Len(T) : \E i \in 1..Len(T[k].actvar) : T[k].actvar[i] = w
      <3>1. PICK k \in 1..Len(S) : \E i \in 1..Len(S[k].actvar) : S[k].actvar[i] = w
        BY DEF Shows, AllThere
      <3>2. PICK i \in 1..Len(S[k].actvar) : S[k].actvar[i] = w
        BY <3>1
      <3>3. i \in 1..Len(T[k].actvar) /\ T[k].actvar[i] = w
        BY <1>3, <3>2
      <3> QED BY <1>3, <3>3
    <2>2. \E k \in 1..Len(T) : \E i \in 1..Len(T[k].actvar) : T[k].actvar[i] = v
      BY <1>3, <1>4, <1>5
    <2> QED BY <2>1, <2>2 DEF AllThere
  <1>9. InOrder(T)
    <2>1. SUFFICES ASSUME NEW k \in 1..Len(T), NEW q \in 1..Len(T),
                          NEW i \in 1..Len(T[k].actvar), NEW j \in 1..Len(T[q].actvar),
                          k < q \/ (k = q /\ i < j),
                          T[k].actvar[i].at # 0, T[q].actvar[j].at # 0
                   PROVE  T[k].actvar[i].at < T[q].actvar[j].at
      BY DEF InOrder
    <2>2. k \in 1..Len(S) /\ q \in 1..Len(S)
      BY <1>3
    <2>3. CASE i \in 1..Len(S[k].actvar) /\ j \in 1..Len(S[q].actvar)
      <3>1. T[k].actvar[i] = S[k].actvar[i] /\ T[q].actvar[j] = S[q].actvar[j]
        BY <1>3, <2>2, <2>3
      <3> QED BY <2>1, <2>2, <2>3, <3>1 DEF Shows, InOrder
    <2>4. CASE i \in 1..Len(S[k].actvar) /\ q = Len(S) /\ j = m + 1
      <3>1. T[k].actvar[i] = S[k].actvar[i]
        BY <1>3, <2>2, <2>4
      <3>2. T[k].actvar[i] \in D
        BY <2>1, <2>2, <2>4, <3>1 DEF Shows, AllKnown
      <3> QED BY <1>5, <2>4, <3>2
    <2>5. CASE k = Len(S) /\ i = m + 1
      <3>1. q = k
        BY <1>3, <2>1, <2>2, <2>5
      <3>2. j > m + 1 /\ j \in Nat
        BY <1>4, <2>1, <2>5, <3>1
      <3>3. ~(j \in 1..m) /\ j # m + 1
        BY <1>4, <3>2
      <3> QED BY <1>2, <1>6, <2>2, <2>5, <3>1, <3>3
    <2> QED BY <1>6, <2>2, <2>3, <2>4, <2>5
  <1> QED BY <1>1, <1>7, <1>8, <1>9, <1>10 DEF Shows

\* The parser's own variables hide none of the program's.
LEMMA HiddenShows ==
    ASSUME NEW S \in Seq(Snaps), S # << >>, NEW D \in SUBSET Actual, Shows(S, D),
           NEW vs \in Seq(Vars),
           \A j \in 1..Len(vs) : vs[j].at = 0 /\ vs[j].name \notin VariableNames
    PROVE  Shows(AddS(S, vs), D)
  <1>1. PICK T : T = AddS(S, vs)  OBVIOUS
  <1>2. PICK m : m = Len(S[Len(S)].actvar)  OBVIOUS
  <1>3. Adds(S, T, vs, m)
    <2>1. Adds(S, AddS(S, vs), vs, Len(S[Len(S)].actvar))
      BY AddedAre
    <2> QED BY <1>1, <1>2, <2>1
  <1>4. Len(T) = Len(S) /\ Len(S) \in Nat \ {0}
    BY <1>3 DEF Adds
  <1>5. \A k \in 1..Len(S) : \A i \in 1..Len(S[k].actvar) :
           i \in 1..Len(T[k].actvar) /\ T[k].actvar[i] = S[k].actvar[i]
    BY <1>3 DEF Adds
  <1>6. ASSUME NEW k \in 1..Len(S), NEW i \in 1..Len(T[k].actvar), ~(i \in 1..Len(S[k].actvar))
        PROVE  T[k].actvar[i].at = 0 /\ T[k].actvar[i].name \notin VariableNames
    <2>1. k = Len(S) /\ \E j \in 1..Len(vs) : i = m + j
      BY <1>3, <1>6 DEF Adds
    <2>2. PICK j \in 1..Len(vs) : i = m + j
      BY <2>1
    <2>3. T[k].actvar[i] = vs[j]
      BY <1>3, <2>1, <2>2 DEF Adds
    <2> QED BY <2>3
  <1>7. AllKnown(T, D)
    <2>1. ASSUME NEW k \in 1..Len(T), NEW i \in 1..Len(T[k].actvar)
          PROVE  \/ T[k].actvar[i] \in D
                 \/ (T[k].actvar[i].at = 0 /\ T[k].actvar[i].name \notin VariableNames)
      <3>1. CASE i \in 1..Len(S[k].actvar)
        <4>1. T[k].actvar[i] = S[k].actvar[i] /\ k \in 1..Len(S)
          BY <1>4, <1>5, <3>1
        <4> QED BY <3>1, <4>1 DEF Shows, AllKnown
      <3> QED BY <1>4, <1>6, <3>1
    <2> QED BY <2>1 DEF AllKnown
  <1>8. AllThere(T, D)
    <2>1. ASSUME NEW w \in D
          PROVE  \E k \in 1..Len(T) : \E i \in 1..Len(T[k].actvar) : T[k].actvar[i] = w
      <3>1. PICK k \in 1..Len(S) : \E i \in 1..Len(S[k].actvar) : S[k].actvar[i] = w
        BY DEF Shows, AllThere
      <3>2. PICK i \in 1..Len(S[k].actvar) : S[k].actvar[i] = w
        BY <3>1
      <3>3. i \in 1..Len(T[k].actvar) /\ T[k].actvar[i] = w
        BY <1>5, <3>2
      <3> QED BY <1>4, <3>3
    <2> QED BY <2>1 DEF AllThere
  <1>9. InOrder(T)
    <2>1. SUFFICES ASSUME NEW k \in 1..Len(T), NEW q \in 1..Len(T),
                          NEW i \in 1..Len(T[k].actvar), NEW j \in 1..Len(T[q].actvar),
                          k < q \/ (k = q /\ i < j),
                          T[k].actvar[i].at # 0, T[q].actvar[j].at # 0
                   PROVE  T[k].actvar[i].at < T[q].actvar[j].at
      BY DEF InOrder
    <2>2. k \in 1..Len(S) /\ q \in 1..Len(S)
      BY <1>4
    <2>3. i \in 1..Len(S[k].actvar) /\ j \in 1..Len(S[q].actvar)
      BY <1>6, <2>1, <2>2
    <2>4. T[k].actvar[i] = S[k].actvar[i] /\ T[q].actvar[j] = S[q].actvar[j]
      BY <1>5, <2>2, <2>3
    <2> QED BY <2>1, <2>2, <2>3, <2>4 DEF Shows, InOrder
  <1> QED BY <1>1, <1>7, <1>8, <1>9 DEF Shows

\* Nor does a function that has no variables yet.
LEMMA OpenedShows ==
    ASSUME NEW S \in Seq(Snaps), NEW D, Shows(S, D), NEW owner \in Seq(Vars)
    PROVE  Shows(OpenS(S, owner), D)
  <1>1. PICK T : T = OpenS(S, owner)  OBVIOUS
  <1>2. Opened(owner) \in Snaps /\ Opened(owner).actvar = << >>
    <2>1. << >> \in Seq(Vars) /\ <<0>> \in Seq(Nat) \ {<< >>}  OBVIOUS
    <2> QED BY <2>1 DEF Opened, Snaps
  <1>3. /\ Len(S) \in Nat /\ Len(T) = Len(S) + 1 /\ T[Len(S) + 1] = Opened(owner)
        /\ \A i \in 1..Len(S) : T[i] = S[i]
    BY <1>1, <1>2, AppendProperties, LenProperties DEF OpenS
  <1>4. Len(T[Len(S) + 1].actvar) = 0
    BY <1>2, <1>3
  <1>5. \A k \in 1..Len(T) : k \in 1..Len(S) \/ k = Len(S) + 1
    BY <1>3
  <1>6. \A k \in 1..Len(T) : \A i \in 1..Len(T[k].actvar) :
           k \in 1..Len(S) /\ T[k] = S[k] /\ i \in 1..Len(S[k].actvar)
    <2>1. 1..0 = {}  OBVIOUS
    <2> QED BY <1>3, <1>4, <1>5, <2>1
  <1>7. AllKnown(T, D)
    BY <1>6 DEF Shows, AllKnown
  <1>8. AllThere(T, D)
    <2>1. ASSUME NEW w \in D
          PROVE  \E k \in 1..Len(T) : \E i \in 1..Len(T[k].actvar) : T[k].actvar[i] = w
      <3>1. PICK k \in 1..Len(S) : \E i \in 1..Len(S[k].actvar) : S[k].actvar[i] = w
        BY DEF Shows, AllThere
      <3>2. k \in 1..Len(T) /\ T[k] = S[k]
        BY <1>3, <3>1
      <3> QED BY <3>1, <3>2
    <2> QED BY <2>1 DEF AllThere
  <1>9. InOrder(T)
    <2>1. SUFFICES ASSUME NEW k \in 1..Len(T), NEW q \in 1..Len(T),
                          NEW i \in 1..Len(T[k].actvar), NEW j \in 1..Len(T[q].actvar),
                          k < q \/ (k = q /\ i < j),
                          T[k].actvar[i].at # 0, T[q].actvar[j].at # 0
                   PROVE  T[k].actvar[i].at < T[q].actvar[j].at
      BY DEF InOrder
    <2>2. /\ k \in 1..Len(S) /\ q \in 1..Len(S) /\ T[k] = S[k] /\ T[q] = S[q]
          /\ i \in 1..Len(S[k].actvar) /\ j \in 1..Len(S[q].actvar)
      BY <1>6
    <2> QED BY <2>1, <2>2 DEF Shows, InOrder
  <1> QED BY <1>1, <1>7, <1>8, <1>9 DEF Shows

LEMMA NamedShows ==
    ASSUME NEW S \in Seq(Snaps), S # << >>, NEW D \in SUBSET Actual, Shows(S, D),
           NEW n \in VariableNames, NEW o \in Nat, o # 0, \A w \in D : w.at < o
    PROVE  Shows(AddS(S, <<VarAt(n, o)>>), D \union {VarAt(n, o)})
  <1>1. VarAt(n, o) \in Actual /\ VarAt(n, o).at = o
    BY VarAtIs DEF Actual, VarAt
  <1>2. \A w \in D : w.at < VarAt(n, o).at
    BY <1>1
  <1> QED BY <1>1, <1>2, NewShows

LEMMA AfterShows ==
    ASSUME NEW S \in Seq(Snaps), S # << >>, NEW D \in SUBSET Actual, Shows(S, D),
           NEW kind \in Openings, NEW n,
           kind \in {"for", "local function", "local = function"} => n \in VariableNames,
           NEW o \in Nat, o # 0, \A w \in D : w.at < o
    PROVE  /\ Shows(After(S, kind, n, o), D \union Gained(kind, n, o))
           /\ Shows(AddS(S, Staying(kind, n, o)), D \union KeptVars(kind, n, o))
  <1>1. EnterS(S) \in Seq(Snaps) /\ EnterS(S) # << >> /\ Shows(EnterS(S), D)
    BY StackTypes, EnteredShows, EmptySeq
  <1>2. D \union {} = D /\ << >> \in Seq(Vars)
    BY EmptySeq
  <1>3. AddS(S, << >>) = S
    BY <1>2, StackTypes
  <1>4. CASE kind = "do"
    BY <1>1, <1>2, <1>3, <1>4 DEF After, Gained, Staying, KeptVars
  <1>5. CASE kind \in {"while", "repeat"}
    <2>1. Shows(EnterS(EnterS(S)), D)
      BY <1>1, EnteredShows
    <2> QED BY <1>2, <1>3, <1>5, <2>1 DEF After, Gained, Staying, KeptVars
  <1>6. CASE kind = "for"
    <2>1. PICK E : E = EnterS(S)  OBVIOUS
    <2>2. PICK A : A = AddS(E, Controls)  OBVIOUS
    <2>3. Controls \in Seq(Vars) /\ \A j \in 1..Len(Controls) : Controls[j].at = 0 /\ Controls[j].name \notin VariableNames
      <3>1. Len(Controls) = 3 /\ Controls[1] = Hidden("(for index)") /\ Controls[2] = Hidden("(for limit)")
            /\ Controls[3] = Hidden("(for step)")
        <4>1. \A a, b, c : Len(<<a, b, c>>) = 3 /\ <<a, b, c>>[1] = a /\ <<a, b, c>>[2] = b /\ <<a, b, c>>[3] = c
          OBVIOUS
        <4> QED BY <4>1 DEF Controls
      <3>2. \A j \in 1..Len(Controls) : j = 1 \/ j = 2 \/ j = 3
        BY <3>1, OneToThree
      <3>3. \A w \in Own : Hidden(w).at = 0 /\ Hidden(w).name = w /\ w \notin VariableNames
        BY ScopesAssumption DEF Own, Hidden
      <3>4. \A j \in 1..Len(Controls) : \E w \in Own : Controls[j] = Hidden(w)
        BY <3>1, <3>2 DEF Own
      <3>5. \A j \in 1..Len(Controls) : Controls[j].at = 0 /\ Controls[j].name \notin VariableNames
        <4>1. ASSUME NEW j \in 1..Len(Controls)
              PROVE  Controls[j].at = 0 /\ Controls[j].name \notin VariableNames
          <5>1. PICK w \in Own : Controls[j] = Hidden(w)
            BY <3>4
          <5> QED BY <3>3, <5>1
        <4> QED BY <4>1
      <3> QED BY <3>5, ControlsAre
    <2>4. A \in Seq(Snaps) /\ A # << >> /\ Shows(A, D)
      BY <1>1, <2>1, <2>2, <2>3, StackTypes, HiddenShows
    <2>5. PICK B : B = EnterS(A)  OBVIOUS
    <2>6. B \in Seq(Snaps) /\ B # << >> /\ Shows(B, D)
      BY <1>2, <2>4, <2>5, StackTypes, EnteredShows
    <2>7. PICK C : C = AddS(B, <<VarAt(n, o)>>)  OBVIOUS
    <2>8. Shows(C, D \union {VarAt(n, o)})
      BY <1>6, <2>6, <2>7, NamedShows
    <2>9. C \in Seq(Snaps) /\ C # << >>
      BY <1>6, <2>6, <2>7, VarAtIs, StackTypes
    <2>10. Shows(EnterS(C), D \union {VarAt(n, o)})
      BY <2>8, <2>9, EnteredShows
    <2>11. After(S, kind, n, o) = EnterS(C)
      BY <1>6, <2>1, <2>2, <2>5, <2>7 DEF After
    <2>12. Gained(kind, n, o) = {VarAt(n, o)} /\ Staying(kind, n, o) = << >> /\ KeptVars(kind, n, o) = {}
      BY <1>6 DEF Gained, Staying, KeptVars
    <2> QED BY <1>2, <1>3, <2>10, <2>11, <2>12
  <1>7. CASE kind = "function"
    <2>1. Shows(OpenS(S, << >>), D)
      BY <1>2, OpenedShows
    <2> QED BY <1>2, <1>3, <1>7, <2>1 DEF After, Gained, Staying, KeptVars
  <1>8. CASE kind = "local function"
    <2>1. PICK A : A = AddS(S, <<VarAt(n, o)>>)  OBVIOUS
    <2>2. A \in Seq(Snaps) /\ Shows(A, D \union {VarAt(n, o)})
      BY <1>8, <2>1, NamedShows, VarAtIs, StackTypes
    <2>3. Shows(OpenS(A, << >>), D \union {VarAt(n, o)})
      BY <1>2, <2>2, OpenedShows
    <2>4. After(S, kind, n, o) = OpenS(A, << >>) /\ Staying(kind, n, o) = <<VarAt(n, o)>>
      BY <1>8, <2>1 DEF After, Staying
    <2>5. Gained(kind, n, o) = {VarAt(n, o)} /\ KeptVars(kind, n, o) = {VarAt(n, o)}
      BY <1>8 DEF Gained, KeptVars
    <2> QED BY <2>1, <2>2, <2>3, <2>4, <2>5
  <1>9. CASE kind = "local = function"
    <2>1. Shows(AddS(S, <<VarAt(n, o)>>), D \union {VarAt(n, o)})
      BY <1>9, NamedShows
    <2>2. Shows(OpenS(S, <<VarAt(n, o)>>), D)
      BY <1>9, VarAtIs, OpenedShows
    <2>3. After(S, kind, n, o) = OpenS(S, <<VarAt(n, o)>>) /\ Staying(kind, n, o) = <<VarAt(n, o)>>
      BY <1>9 DEF After, Staying
    <2>4. Gained(kind, n, o) = {} /\ KeptVars(kind, n, o) = {VarAt(n, o)}
      BY <1>9 DEF Gained, KeptVars
    <2> QED BY <1>2, <2>1, <2>2, <2>3, <2>4
  <1> QED BY <1>4, <1>5, <1>6, <1>7, <1>8, <1>9 DEF Openings, Functions

----------------------------------------------------------------------------
(* The state of the parser.                                                *)

LEMMA StateIs ==
    ASSUME NEW P, Lists(P), NEW x
    PROVE  /\ [P EXCEPT !.fs = x] = State(x, P.label, P.gt, P.jump, P.closes, P.error)
           /\ [P EXCEPT !.label = x] = State(P.fs, x, P.gt, P.jump, P.closes, P.error)
           /\ [P EXCEPT !.gt = x] = State(P.fs, P.label, x, P.jump, P.closes, P.error)
           /\ [P EXCEPT !.jump = x] = State(P.fs, P.label, P.gt, x, P.closes, P.error)
           /\ [P EXCEPT !.closes = x] = State(P.fs, P.label, P.gt, P.jump, x, P.error)
           /\ [P EXCEPT !.error = x] = State(P.fs, P.label, P.gt, P.jump, P.closes, x)
  <1>1. P = [fs |-> P.fs, label |-> P.label, gt |-> P.gt, jump |-> P.jump, closes |-> P.closes, error |-> P.error]
    BY DEF Lists, State
  <1>2. [P EXCEPT !.fs = x] = State(x, P.label, P.gt, P.jump, P.closes, P.error)
    BY <1>1 DEF State
  <1>3. [P EXCEPT !.label = x] = State(P.fs, x, P.gt, P.jump, P.closes, P.error)
    BY <1>1 DEF State
  <1>4. [P EXCEPT !.gt = x] = State(P.fs, P.label, x, P.jump, P.closes, P.error)
    BY <1>1 DEF State
  <1>5. [P EXCEPT !.jump = x] = State(P.fs, P.label, P.gt, x, P.closes, P.error)
    BY <1>1 DEF State
  <1>6. [P EXCEPT !.closes = x] = State(P.fs, P.label, P.gt, P.jump, x, P.error)
    BY <1>1 DEF State
  <1>7. [P EXCEPT !.error = x] = State(P.fs, P.label, P.gt, P.jump, P.closes, x)
    BY <1>1 DEF State
  <1> QED BY <1>2, <1>3, <1>4, <1>5, <1>6, <1>7

LEMMA StateAlike ==
    ASSUME NEW P, Lists(P), NEW gt, Sequence(gt), NEW jump, NEW closes, NEW error
    PROVE  Alike(State(P.fs, P.label, gt, jump, closes, error), P)
  <1>1. PICK Q : Q = State(P.fs, P.label, gt, jump, closes, error)  OBVIOUS
  <1>2. /\ Q.fs = P.fs /\ Q.label = P.label /\ Q.gt = gt /\ Q.jump = jump /\ Q.closes = closes
        /\ Q.error = error
    BY <1>1 DEF State
  <1>3. Lists(Q)
    BY <1>1, <1>2 DEF Lists
  <1> QED BY <1>1, <1>2, <1>3 DEF Alike

LEMMA AlikeTwice ==
    ASSUME NEW P, NEW Q, NEW R, Alike(Q, P), Alike(R, Q)
    PROVE  Alike(R, P)
  BY DEF Alike

LEMMA JumpAlike ==
    ASSUME NEW P, Lists(P), NEW gd, NEW lb, NEW level
    PROVE  Alike(CloseGoto(P, gd, lb), P) /\ Alike(PatchClose(P, gd.at, level), P) /\ Alike(Pend(P, gd), P)
  <1>1. Sequence(P.gt) /\ Sequence(P.label)
    BY DEF Lists
  <1>2. Alike(CloseGoto(P, gd, lb), P)
    <2>1. PICK jump : jump = [P.jump EXCEPT ![gd.at].to = lb.at]  OBVIOUS
    <2>2. \/ CloseGoto(P, gd, lb) = [P EXCEPT !.error = "jumps into the scope"]
          \/ CloseGoto(P, gd, lb) = [P EXCEPT !.jump = jump]
      BY <2>1 DEF CloseGoto
    <2>3. /\ [P EXCEPT !.error = "jumps into the scope"]
                = State(P.fs, P.label, P.gt, P.jump, P.closes, "jumps into the scope")
          /\ [P EXCEPT !.jump = jump] = State(P.fs, P.label, P.gt, jump, P.closes, P.error)
      BY StateIs
    <2>4. /\ Alike(State(P.fs, P.label, P.gt, P.jump, P.closes, "jumps into the scope"), P)
          /\ Alike(State(P.fs, P.label, P.gt, jump, P.closes, P.error), P)
      BY <1>1, StateAlike
    <2> QED BY <2>2, <2>3, <2>4
  <1>3. Alike(PatchClose(P, gd.at, level), P)
    <2>1. PICK jump : jump = [P.jump EXCEPT ![gd.at].close = level]  OBVIOUS
    <2>2. PatchClose(P, gd.at, level) = [P EXCEPT !.jump = jump]
      BY <2>1 DEF PatchClose
    <2>3. [P EXCEPT !.jump = jump] = State(P.fs, P.label, P.gt, jump, P.closes, P.error)
      BY StateIs
    <2> QED BY <1>1, <2>2, <2>3, StateAlike
  <1>4. Alike(Pend(P, gd), P)
    <2>1. PICK gt : gt = Append(P.gt, gd)  OBVIOUS
    <2>2. Pend(P, gd) = [P EXCEPT !.gt = gt]
      BY <2>1 DEF Pend
    <2>3. Sequence(gt)
      BY <1>1, <2>1, SequenceGrows
    <2>4. [P EXCEPT !.gt = gt] = State(P.fs, P.label, gt, P.jump, P.closes, P.error)
      BY StateIs
    <2> QED BY <2>2, <2>3, <2>4, StateAlike
  <1> QED BY <1>2, <1>3, <1>4

LEMMA FindLabelAlike ==
    ASSUME NEW P, Lists(P), NEW gd
    PROVE  Alike(FindLabel(P, gd), P)
  <1>1. PICK lb : lb = P.label[Min(Visible(P, gd.name))]  OBVIOUS
  <1>2. PICK R : R = IF gd.nactvar > lb.nactvar /\ (BL(P).upval \/ Len(P.label) > BL(P).firstlabel)
                     THEN PatchClose(P, gd.at, lb.nactvar) ELSE P
    OBVIOUS
  <1>3. FindLabel(P, gd) = CloseGoto(R, gd, lb)
    BY <1>1, <1>2 DEF FindLabel
  <1>4. Alike(R, P)
    <2>1. Alike(P, P)
      BY DEF Alike
    <2> QED BY <1>2, <2>1, JumpAlike
  <1>5. Alike(CloseGoto(R, gd, lb), R)
    BY <1>4, JumpAlike DEF Alike
  <1> QED BY <1>3, <1>4, <1>5, AlikeTwice

LEMMA WalkExists ==
    ASSUME NEW P, NEW first, NEW find, NEW x, NEW n \in Nat
    PROVE  \E walk : IsWalk(walk, P, first, find, x, n)
  <1> DEFINE Is(walk, d) == IsWalk(walk, P, first, find, x, d)
             Bad == {d \in 0..n : ~ \E walk : Is(walk, d)}
  <1>1. Bad = {}
    <2>1. SUFFICES ASSUME Bad # {} PROVE FALSE  OBVIOUS
    <2>2. Bad \subseteq Nat  OBVIOUS
    <2>3. PICK d \in Bad : \A c \in Bad : d <= c
      <3> HIDE DEF Bad
      <3> QED BY <2>1, <2>2, LeastExists
    <2>4. CASE d = 0
      <3>1. PICK walk : walk = [i \in 0..0 |-> Start(P, first)]  OBVIOUS
      <3>2. walk = [i \in 0..0 |-> IF i = 0 THEN Start(P, first) ELSE Going(walk, P, first, find, x, i)]
        BY <3>1
      <3>3. Is(walk, 0)
        BY <3>2 DEF IsWalk
      <3> QED BY <2>4, <3>3
    <2>5. CASE d # 0
      <3>0. d \in 0..n /\ d - 1 \in 0..n /\ ~(d <= d - 1)
        BY <2>5
      <3>1. d - 1 \notin Bad
        BY <2>3, <3>0
      <3>2. PICK walk : Is(walk, d - 1)
        BY <3>0, <3>1
      <3>3. PICK more : more = [i \in 0..d |-> IF i = d THEN Going(walk, P, first, find, x, d) ELSE walk[i]]
        OBVIOUS
      <3>4. ASSUME NEW i \in 0..d
            PROVE  more[i] = IF i = 0 THEN Start(P, first) ELSE Going(more, P, first, find, x, i)
        <4>1. CASE i = d
          <5>1. d - 1 \in 0..d /\ d - 1 # d
            BY <3>0
          <5>2. more[d - 1] = walk[d - 1]
            BY <3>3, <5>1
          <5>3. Going(more, P, first, find, x, d) = Going(walk, P, first, find, x, d)
            BY <5>2 DEF Going
          <5> QED BY <2>5, <3>3, <4>1, <5>3
        <4>2. CASE i # d
          <5>1. i \in 0..(d - 1)
            BY <4>2
          <5>2. walk[i] = IF i = 0 THEN Start(P, first) ELSE Going(walk, P, first, find, x, i)
            BY <3>2, <5>1 DEF IsWalk
          <5>3. more[i] = walk[i]
            BY <3>3, <4>2
          <5>4. CASE i = 0
            BY <5>2, <5>3, <5>4
          <5>5. CASE i # 0
            <6>1. i - 1 \in 0..d /\ i - 1 # d
              BY <5>1, <5>5
            <6>2. more[i - 1] = walk[i - 1]
              BY <3>3, <6>1
            <6>3. Going(more, P, first, find, x, i) = Going(walk, P, first, find, x, i)
              BY <6>2 DEF Going
            <6> QED BY <5>2, <5>3, <5>5, <6>3
          <5> QED BY <5>4, <5>5
        <4> QED BY <4>1, <4>2
      <3>5. DOMAIN more = 0..d /\ more = [i \in DOMAIN more |-> more[i]]
        BY <3>3
      <3>6. more = [i \in 0..d |-> IF i = 0 THEN Start(P, first) ELSE Going(more, P, first, find, x, i)]
        BY <3>4, <3>5
      <3>7. Is(more, d)
        BY <3>6 DEF IsWalk
      <3> QED BY <3>7
    <2> QED BY <2>4, <2>5
  <1> QED BY <1>1

LEMMA VisitAlike ==
    ASSUME NEW Q, Lists(Q), NEW gd, NEW find, NEW x
    PROVE  Alike(Visited(Q, gd, find, x), Q)
  <1>1. Alike(FindVisit(Q, gd, x), Q)
    BY JumpAlike DEF FindVisit
  <1>2. Alike(MoveVisit(Q, gd, x), Q)
    <2>1. PICK out : out = Exported(gd, x)  OBVIOUS
    <2>2. PICK R : R = IF gd.nactvar > x.nactvar /\ x.upval THEN PatchClose(Q, gd.at, x.nactvar) ELSE Q
      OBVIOUS
    <2>3. MoveVisit(Q, gd, x) = IF Visible(R, gd.name) = {} THEN Pend(R, out) ELSE FindLabel(R, out)
      BY <2>1, <2>2 DEF MoveVisit
    <2>4. Alike(R, Q)
      <3>1. Alike(Q, Q)
        BY DEF Alike
      <3> QED BY <2>2, <3>1, JumpAlike
    <2>5. Alike(Pend(R, out), R) /\ Alike(FindLabel(R, out), R)
      BY <2>4, JumpAlike, FindLabelAlike DEF Alike
    <2> QED BY <2>3, <2>4, <2>5, AlikeTwice
  <1> QED BY <1>1, <1>2 DEF Visited

LEMMA WalkAlike ==
    ASSUME NEW P, Lists(P), NEW first \in Nat, NEW find, NEW x, NEW n \in Nat,
           NEW walk, IsWalk(walk, P, first, find, x, n)
    PROVE  Alike(walk[n], P)
  <1> DEFINE Bad == {d \in 0..n : ~Alike(walk[d], P)}
  <1>1. SUFFICES ASSUME Bad # {} PROVE FALSE  OBVIOUS
  <1>2. Bad \subseteq Nat  OBVIOUS
  <1>3. PICK d \in Bad : \A c \in Bad : d <= c
    <2> HIDE DEF Bad
    <2> QED BY <1>1, <1>2, LeastExists
  <1>4. d \in 0..n /\ walk[d] = IF d = 0 THEN Start(P, first) ELSE Going(walk, P, first, find, x, d)
    BY DEF IsWalk
  <1>5. CASE d = 0
    <2>1. PICK gt : gt = SubSeq(P.gt, 1, first)  OBVIOUS
    <2>2. Sequence(gt)
      BY <2>1, SequenceCut
    <2>3. Start(P, first) = State(P.fs, P.label, gt, P.jump, P.closes, P.error)
      <3>1. [P EXCEPT !.gt = gt] = State(P.fs, P.label, gt, P.jump, P.closes, P.error)
        BY StateIs
      <3> QED BY <2>1, <3>1 DEF Start
    <2>4. Alike(Start(P, first), P)
      BY <2>2, <2>3, StateAlike
    <2> QED BY <1>4, <1>5, <2>4
  <1>6. CASE d # 0
    <2>1. d - 1 \in 0..n /\ ~(d <= d - 1)
      BY <1>6
    <2>2. d - 1 \notin Bad
      BY <1>3, <2>1
    <2>3. Alike(walk[d - 1], P)
      BY <2>1, <2>2
    <2>4. Alike(walk[d], walk[d - 1])
      <3>1. Lists(walk[d - 1])
        BY <2>3 DEF Alike
      <3>2. Alike(walk[d - 1], walk[d - 1])
        BY <3>1 DEF Alike
      <3>3. Alike(Visited(walk[d - 1], TakenGotos(P, first)[d], find, x), walk[d - 1])
        BY <3>1, VisitAlike
      <3> QED BY <1>4, <1>6, <3>2, <3>3 DEF Going
    <2>5. Alike(walk[d], P)
      BY <2>3, <2>4, AlikeTwice
    <2> QED BY <2>5
  <1> QED BY <1>5, <1>6

LEMMA GotosAlike ==
    ASSUME NEW P, Lists(P), NEW lb, NEW bl
    PROVE  /\ BL(P).firstgoto \in Nat => Alike(FindGotos(P, lb), P)
           /\ bl.firstgoto \in Nat => Alike(MoveGotosOut(P, bl), P)
  <1>1. ASSUME NEW first \in Nat PROVE Len(TakenGotos(P, first)) \in Nat
    <2>1. Len(P.gt) \in Nat /\ first + 1 \in Nat
      BY SequenceIs DEF Lists
    <2>2. Sequence(TakenGotos(P, first))
      BY <2>1, SequenceCut DEF TakenGotos
    <2> QED BY <2>2, SequenceIs
  <1>2. ASSUME BL(P).firstgoto \in Nat PROVE Alike(FindGotos(P, lb), P)
    <2> DEFINE IsFind(walk, n, first) ==
                 walk = [i \in 0..n |->
                           CASE i = 0 -> [P EXCEPT !.gt = SubSeq(@, 1, first)]
                             [] i > 0 /\ walk[i - 1].error # "" -> walk[i - 1]
                             [] OTHER -> FindVisit(walk[i - 1], TakenGotos(P, first)[i], lb)]
    <2>1. PICK first : first = BL(P).firstgoto  OBVIOUS
    <2>2. PICK n : n = Len(TakenGotos(P, first))  OBVIOUS
    <2>3. n \in Nat /\ first \in Nat
      BY <1>1, <1>2, <2>1, <2>2
    <2>4. FindGotos(P, lb) = (CHOOSE walk : IsFind(walk, n, first))[n]
      <3>1. FindGotos(P, lb) =
              (CHOOSE walk : IsFind(walk, Len(TakenGotos(P, BL(P).firstgoto)), BL(P).firstgoto))[Len(TakenGotos(P, BL(P).firstgoto))]
        BY Zenon DEF FindGotos, ForEachGoto, FindVisit, TakenGotos
      <3> HIDE DEF IsFind
      <3> QED BY <2>1, <2>2, <3>1
    <2>5. ASSUME NEW walk PROVE IsFind(walk, n, first) <=> IsWalk(walk, P, first, TRUE, lb, n)
      <3>1. \A i \in 0..n : (CASE i = 0 -> [P EXCEPT !.gt = SubSeq(@, 1, first)]
                               [] i > 0 /\ walk[i - 1].error # "" -> walk[i - 1]
                               [] OTHER -> FindVisit(walk[i - 1], TakenGotos(P, first)[i], lb))
              = IF i = 0 THEN Start(P, first) ELSE Going(walk, P, first, TRUE, lb, i)
        <4>1. ASSUME NEW i \in 0..n
              PROVE  (CASE i = 0 -> [P EXCEPT !.gt = SubSeq(@, 1, first)]
                        [] i > 0 /\ walk[i - 1].error # "" -> walk[i - 1]
                        [] OTHER -> FindVisit(walk[i - 1], TakenGotos(P, first)[i], lb))
                     = IF i = 0 THEN Start(P, first) ELSE Going(walk, P, first, TRUE, lb, i)
          <5>1. i = 0 \/ i > 0  OBVIOUS
          <5>2. Start(P, first) = [P EXCEPT !.gt = SubSeq(@, 1, first)]
            BY DEF Start
          <5>3. Going(walk, P, first, TRUE, lb, i) =
                  IF walk[i - 1].error # "" THEN walk[i - 1] ELSE FindVisit(walk[i - 1], TakenGotos(P, first)[i], lb)
            BY DEF Going, Visited
          <5>4. CASE i = 0
            BY <5>2, <5>4
          <5>5. CASE i > 0
            <6>1. i # 0
              BY <5>5
            <6> QED BY <5>3, <5>5, <6>1
          <5> QED BY <5>1, <5>4, <5>5
        <4> QED BY <4>1
      <3> QED BY <3>1 DEF IsWalk
    <2>6. IsFind(CHOOSE walk : IsFind(walk, n, first), n, first)
      <3>1. \E walk : IsFind(walk, n, first)
        BY <2>3, <2>5, WalkExists
      <3> HIDE DEF IsFind
      <3> QED BY <3>1
    <2>7. PICK walk : IsWalk(walk, P, first, TRUE, lb, n) /\ FindGotos(P, lb) = walk[n]
      <3> HIDE DEF IsFind
      <3> QED BY <2>4, <2>5, <2>6
    <2> QED BY <2>3, <2>7, WalkAlike
  <1>3. ASSUME bl.firstgoto \in Nat PROVE Alike(MoveGotosOut(P, bl), P)
    <2> DEFINE IsMove(walk, n, first) ==
                 walk = [i \in 0..n |->
                           CASE i = 0 -> [P EXCEPT !.gt = SubSeq(@, 1, first)]
                             [] i > 0 /\ walk[i - 1].error # "" -> walk[i - 1]
                             [] OTHER -> MoveVisit(walk[i - 1], TakenGotos(P, first)[i], bl)]
    <2>1. PICK first : first = bl.firstgoto  OBVIOUS
    <2>2. PICK n : n = Len(TakenGotos(P, first))  OBVIOUS
    <2>3. n \in Nat /\ first \in Nat
      BY <1>1, <1>3, <2>1, <2>2
    <2>4. MoveGotosOut(P, bl) = (CHOOSE walk : IsMove(walk, n, first))[n]
      <3>1. MoveGotosOut(P, bl) =
              (CHOOSE walk : IsMove(walk, Len(TakenGotos(P, bl.firstgoto)), bl.firstgoto))[Len(TakenGotos(P, bl.firstgoto))]
        BY Zenon DEF MoveGotosOut, ForEachGoto, MoveVisit, TakenGotos
      <3> HIDE DEF IsMove
      <3> QED BY <2>1, <2>2, <3>1
    <2>5. ASSUME NEW walk PROVE IsMove(walk, n, first) <=> IsWalk(walk, P, first, FALSE, bl, n)
      <3>1. \A i \in 0..n : (CASE i = 0 -> [P EXCEPT !.gt = SubSeq(@, 1, first)]
                               [] i > 0 /\ walk[i - 1].error # "" -> walk[i - 1]
                               [] OTHER -> MoveVisit(walk[i - 1], TakenGotos(P, first)[i], bl))
              = IF i = 0 THEN Start(P, first) ELSE Going(walk, P, first, FALSE, bl, i)
        <4>1. ASSUME NEW i \in 0..n
              PROVE  (CASE i = 0 -> [P EXCEPT !.gt = SubSeq(@, 1, first)]
                        [] i > 0 /\ walk[i - 1].error # "" -> walk[i - 1]
                        [] OTHER -> MoveVisit(walk[i - 1], TakenGotos(P, first)[i], bl))
                     = IF i = 0 THEN Start(P, first) ELSE Going(walk, P, first, FALSE, bl, i)
          <5>1. i = 0 \/ i > 0  OBVIOUS
          <5>2. Start(P, first) = [P EXCEPT !.gt = SubSeq(@, 1, first)]
            BY DEF Start
          <5>3. Going(walk, P, first, FALSE, bl, i) =
                  IF walk[i - 1].error # "" THEN walk[i - 1] ELSE MoveVisit(walk[i - 1], TakenGotos(P, first)[i], bl)
            BY DEF Going, Visited
          <5>4. CASE i = 0
            BY <5>2, <5>4
          <5>5. CASE i > 0
            <6>1. i # 0
              BY <5>5
            <6> QED BY <5>3, <5>5, <6>1
          <5> QED BY <5>1, <5>4, <5>5
        <4> QED BY <4>1
      <3> QED BY <3>1 DEF IsWalk
    <2>6. IsMove(CHOOSE walk : IsMove(walk, n, first), n, first)
      <3>1. \E walk : IsMove(walk, n, first)
        BY <2>3, <2>5, WalkExists
      <3> HIDE DEF IsMove
      <3> QED BY <3>1
    <2>7. PICK walk : IsWalk(walk, P, first, FALSE, bl, n) /\ MoveGotosOut(P, bl) = walk[n]
      <3> HIDE DEF IsMove
      <3> QED BY <2>4, <2>5, <2>6
    <2> QED BY <2>3, <2>7, WalkAlike
  <1> QED BY <1>2, <1>3

----------------------------------------------------------------------------
(* What the parser does to its functions, and to the snapshot of them.     *)

LEMMA FrameIs ==
    ASSUME NEW f \in Frames
    PROVE  /\ f = Framed(f.bl, f.actvar, f.ups, f.owner)
           /\ f.bl \in Seq(Blocks) /\ f.bl # << >> /\ f.actvar \in Seq(Vars) /\ f.ups \in Seq(Ups)
           /\ f.owner \in Seq(Vars)
           /\ Last(f.bl) \in Blocks /\ Last(f.bl).firstgoto \in Nat /\ Last(f.bl).firstlabel \in Nat
           /\ Last(f.bl).nactvar \in Nat
  <1>1. /\ f = Framed(f.bl, f.actvar, f.ups, f.owner)
        /\ f.bl \in Seq(Blocks) /\ f.bl # << >> /\ f.actvar \in Seq(Vars) /\ f.ups \in Seq(Ups)
        /\ f.owner \in Seq(Vars)
    BY DEF Frames, Framed
  <1>2. Last(f.bl) \in Blocks
    BY <1>1, FrontIs
  <1>3. \A b \in Blocks : b.firstgoto \in Nat /\ b.firstlabel \in Nat /\ b.nactvar \in Nat
    BY DEF Blocks
  <1> QED BY <1>1, <1>2, <1>3

LEMMA FrameExcept ==
    ASSUME NEW f \in Frames, NEW x, NEW y
    PROVE  /\ [f EXCEPT !.bl = x] = Framed(x, f.actvar, f.ups, f.owner)
           /\ [f EXCEPT !.actvar = x] = Framed(f.bl, x, f.ups, f.owner)
           /\ [f EXCEPT !.ups = x] = Framed(f.bl, f.actvar, x, f.owner)
           /\ [f EXCEPT !.bl = x, !.actvar = y] = Framed(x, y, f.ups, f.owner)
  <1>1. f = [bl |-> f.bl, actvar |-> f.actvar, ups |-> f.ups, owner |-> f.owner]
    BY FrameIs DEF Framed
  <1>2. [f EXCEPT !.bl = x] = Framed(x, f.actvar, f.ups, f.owner)
    BY <1>1 DEF Framed
  <1>3. [f EXCEPT !.actvar = x] = Framed(f.bl, x, f.ups, f.owner)
    BY <1>1 DEF Framed
  <1>4. [f EXCEPT !.ups = x] = Framed(f.bl, f.actvar, x, f.owner)
    BY <1>1 DEF Framed
  <1>5. [f EXCEPT !.bl = x, !.actvar = y] = Framed(x, y, f.ups, f.owner)
    <2>1. [f EXCEPT !.bl = x, !.actvar = y] = [[f EXCEPT !.bl = x] EXCEPT !.actvar = y]  OBVIOUS
    <2>2. [Framed(x, f.actvar, f.ups, f.owner) EXCEPT !.actvar = y] = Framed(x, y, f.ups, f.owner)
      BY DEF Framed
    <2> QED BY <1>2, <2>1, <2>2
  <1> QED BY <1>2, <1>3, <1>4, <1>5

LEMMA LevelsAre ==
    ASSUME NEW bl \in Seq(Blocks)
    PROVE  /\ LevelsOf(bl) \in Seq(Nat) /\ Len(LevelsOf(bl)) = Len(bl)
           /\ \A i \in 1..Len(bl) : LevelsOf(bl)[i] = bl[i].nactvar
           /\ bl # << >> => LevelsOf(bl) # << >> /\ Last(LevelsOf(bl)) = Last(bl).nactvar
  <1>1. Len(bl) \in Nat /\ \A i \in 1..Len(bl) : bl[i] \in Blocks
    BY LenProperties, ElementOfSeq
  <1>2. \A b \in Blocks : b.nactvar \in Nat
    BY DEF Blocks
  <1>3. LevelsOf(bl) \in [1..Len(bl) -> Nat]
    BY <1>1, <1>2 DEF LevelsOf
  <1>4. LevelsOf(bl) \in Seq(Nat) /\ Len(LevelsOf(bl)) = Len(bl)
    BY <1>1, <1>3
  <1>5. \A i \in 1..Len(bl) : LevelsOf(bl)[i] = bl[i].nactvar
    BY DEF LevelsOf
  <1>6. ASSUME bl # << >>
        PROVE  LevelsOf(bl) # << >> /\ Last(LevelsOf(bl)) = Last(bl).nactvar
    <2>1. Len(bl) # 0 /\ Len(bl) \in 1..Len(bl)
      BY <1>1, <1>6, EmptySeq
    <2>2. LevelsOf(bl) # << >>
      BY <1>4, <2>1
    <2> QED BY <1>4, <1>5, <2>1, <2>2 DEF Last
  <1> QED BY <1>4, <1>5, <1>6

LEMMA LevelsGrow ==
    ASSUME NEW bl \in Seq(Blocks), NEW b \in Blocks
    PROVE  LevelsOf(Append(bl, b)) = Append(LevelsOf(bl), b.nactvar)
  <1>1. PICK c : c = Append(bl, b)  OBVIOUS
  <1>2. /\ c \in Seq(Blocks) /\ Len(c) = Len(bl) + 1 /\ c[Len(bl) + 1] = b /\ Len(bl) \in Nat
        /\ \A i \in 1..Len(bl) : c[i] = bl[i]
    BY <1>1, AppendProperties, LenProperties
  <1>3. LevelsOf(bl) \in Seq(Nat) /\ Len(LevelsOf(bl)) = Len(bl) /\ b.nactvar \in Nat
        /\ \A i \in 1..Len(bl) : LevelsOf(bl)[i] = bl[i].nactvar
    BY LevelsAre DEF Blocks
  <1>4. PICK m : m = Append(LevelsOf(bl), b.nactvar)  OBVIOUS
  <1>5. /\ m \in Seq(Nat) /\ Len(m) = Len(bl) + 1 /\ m[Len(bl) + 1] = b.nactvar
        /\ \A i \in 1..Len(bl) : m[i] = LevelsOf(bl)[i]
    BY <1>3, <1>4, AppendProperties
  <1>6. LevelsOf(c) \in Seq(Nat) /\ Len(LevelsOf(c)) = Len(c)
        /\ \A i \in 1..Len(c) : LevelsOf(c)[i] = c[i].nactvar
    BY <1>2, LevelsAre
  <1>7. \A i \in 1..Len(c) : i \in 1..Len(bl) \/ i = Len(bl) + 1
    BY <1>2
  <1>8. \A i \in 1..Len(m) : LevelsOf(c)[i] = m[i]
    BY <1>2, <1>3, <1>5, <1>6, <1>7
  <1>9. LevelsOf(c) = m
    BY <1>2, <1>5, <1>6, <1>8, SeqEqual
  <1> QED BY <1>1, <1>4, <1>9

LEMMA LevelsShrink ==
    ASSUME NEW bl \in Seq(Blocks), bl # << >>
    PROVE  LevelsOf(Front(bl)) = Front(LevelsOf(bl))
  <1>1. PICK c : c = Front(bl)  OBVIOUS
  <1>2. PICK v : v = LevelsOf(bl)  OBVIOUS
  <1>3. /\ c \in Seq(Blocks) /\ Len(bl) \in Nat \ {0} /\ Len(c) = Len(bl) - 1
        /\ \A i \in 1..(Len(bl) - 1) : c[i] = bl[i]
    BY <1>1, FrontIs
  <1>4. v \in Seq(Nat) /\ Len(v) = Len(bl) /\ v # << >> /\ \A i \in 1..Len(bl) : v[i] = bl[i].nactvar
    BY <1>2, LevelsAre
  <1>5. /\ Front(v) \in Seq(Nat) /\ Len(Front(v)) = Len(bl) - 1
        /\ \A i \in 1..(Len(bl) - 1) : Front(v)[i] = v[i]
    BY <1>4, FrontIs
  <1>6. LevelsOf(c) \in Seq(Nat) /\ Len(LevelsOf(c)) = Len(c)
        /\ \A i \in 1..Len(c) : LevelsOf(c)[i] = c[i].nactvar
    BY <1>3, LevelsAre
  <1>7. \A i \in 1..(Len(bl) - 1) : i \in 1..Len(bl)
    BY <1>3
  <1>8. \A i \in 1..Len(Front(v)) : LevelsOf(c)[i] = Front(v)[i]
    BY <1>3, <1>4, <1>5, <1>6, <1>7
  <1>9. LevelsOf(c) = Front(v)
    BY <1>3, <1>5, <1>6, <1>8, SeqEqual
  <1> QED BY <1>1, <1>2, <1>9

LEMMA SnapIs ==
    ASSUME NEW fs \in Seq(Frames)
    PROVE  /\ Snap(fs) \in Seq(Snaps) /\ Len(Snap(fs)) = Len(fs) /\ Len(fs) \in Nat
           /\ \A k \in 1..Len(fs) : fs[k] \in Frames /\ Snap(fs)[k] = Snap1(fs[k]) /\ Snap1(fs[k]) \in Snaps
           /\ fs # << >> => Snap(fs) # << >> /\ Last(Snap(fs)) = Snap1(Last(fs)) /\ Last(fs) \in Frames
  <1>1. Len(fs) \in Nat /\ \A k \in 1..Len(fs) : fs[k] \in Frames
    BY LenProperties, ElementOfSeq
  <1>2. ASSUME NEW f \in Frames PROVE Snap1(f) \in Snaps
    <2>1. f.bl \in Seq(Blocks) /\ f.bl # << >> /\ f.actvar \in Seq(Vars) /\ f.owner \in Seq(Vars)
      BY FrameIs
    <2>2. LevelsOf(f.bl) \in Seq(Nat) \ {<< >>}
      BY <2>1, LevelsAre
    <2> QED BY <2>1, <2>2 DEF Snap1, Snaps
  <1>3. Snap(fs) \in [1..Len(fs) -> Snaps]
    BY <1>1, <1>2 DEF Snap
  <1>4. Snap(fs) \in Seq(Snaps) /\ Len(Snap(fs)) = Len(fs)
    BY <1>1, <1>3
  <1>5. \A k \in 1..Len(fs) : Snap(fs)[k] = Snap1(fs[k])
    BY DEF Snap
  <1>6. ASSUME fs # << >>
        PROVE  Snap(fs) # << >> /\ Last(Snap(fs)) = Snap1(Last(fs)) /\ Last(fs) \in Frames
    <2>1. Len(fs) # 0 /\ Len(fs) \in 1..Len(fs)
      BY <1>1, <1>6, EmptySeq
    <2>2. Snap(fs) # << >>
      BY <1>4, <2>1
    <2> QED BY <1>1, <1>4, <1>5, <2>1, <2>2 DEF Last
  <1> QED BY <1>1, <1>2, <1>4, <1>5, <1>6

LEMMA SnapWithLast ==
    ASSUME NEW fs \in Seq(Frames), fs # << >>, NEW f \in Frames
    PROVE  Snap(WithLast(fs, f)) = WithLast(Snap(fs), Snap1(f))
  <1>1. PICK gs : gs = WithLast(fs, f)  OBVIOUS
  <1>2. /\ gs \in Seq(Frames) /\ gs # << >> /\ Len(gs) = Len(fs) /\ Last(gs) = f
        /\ \A i \in 1..(Len(fs) - 1) : gs[i] = fs[i]
    <2>1. /\ WithLast(fs, f) \in Seq(Frames) /\ WithLast(fs, f) # << >>
          /\ Len(WithLast(fs, f)) = Len(fs) /\ Last(WithLast(fs, f)) = f
          /\ \A i \in 1..(Len(fs) - 1) : WithLast(fs, f)[i] = fs[i]
      BY WithLastIs
    <2> QED BY <1>1, <2>1
  <1>3. /\ Snap(fs) \in Seq(Snaps) /\ Snap(fs) # << >> /\ Len(Snap(fs)) = Len(fs) /\ Len(fs) \in Nat
        /\ \A k \in 1..Len(fs) : Snap(fs)[k] = Snap1(fs[k])
    BY SnapIs
  <1>4. /\ Snap(gs) \in Seq(Snaps) /\ Snap(gs) # << >> /\ Len(Snap(gs)) = Len(gs)
        /\ \A k \in 1..Len(gs) : Snap(gs)[k] = Snap1(gs[k])
        /\ Last(Snap(gs)) = Snap1(f) /\ Last(Snap(gs)) \in Snaps
    <2>1. /\ Snap(gs) \in Seq(Snaps) /\ Snap(gs) # << >> /\ Len(Snap(gs)) = Len(gs)
          /\ \A k \in 1..Len(gs) : Snap(gs)[k] = Snap1(gs[k])
          /\ Last(Snap(gs)) = Snap1(Last(gs))
      BY <1>2, SnapIs
    <2>2. Last(Snap(gs)) \in Snaps
      BY <2>1, FrontIs
    <2> QED BY <1>2, <2>1, <2>2
  <1>5. PICK T : T = WithLast(Snap(fs), Snap1(f))  OBVIOUS
  <1>6. /\ T \in Seq(Snaps) /\ T # << >> /\ Len(T) = Len(fs) /\ Last(T) = Snap1(f)
        /\ \A i \in 1..(Len(fs) - 1) : T[i] = Snap(fs)[i]
    <2>1. Snap1(f) \in Snaps
      <3>1. Last(Snap(gs)) = Snap1(f) /\ Last(Snap(gs)) \in Snaps
        BY <1>4
      <3> QED BY <3>1
    <2>2. PICK S : S = Snap(fs)  OBVIOUS
    <2>3. PICK g : g = Snap1(f)  OBVIOUS
    <2>5. S \in Seq(Snaps) /\ S # << >> /\ g \in Snaps
      BY <1>3, <2>1, <2>2, <2>3
    <2>4. /\ WithLast(S, g) \in Seq(Snaps) /\ WithLast(S, g) # << >>
          /\ Len(WithLast(S, g)) = Len(S) /\ Last(WithLast(S, g)) = g
          /\ \A i \in 1..(Len(S) - 1) : WithLast(S, g)[i] = S[i]
      BY <2>5, WithLastIs
    <2> QED BY <1>3, <1>5, <2>2, <2>3, <2>4
  <1>7. \A i \in 1..(Len(fs) - 1) : i \in 1..Len(fs)
    BY <1>3
  <1>8. \A i \in 1..(Len(fs) - 1) : Snap(gs)[i] = T[i]
    BY <1>2, <1>3, <1>4, <1>6, <1>7
  <1>9. Snap(gs) = T
    BY <1>2, <1>4, <1>6, <1>8, SameLast
  <1> QED BY <1>1, <1>5, <1>9

LEMMA SnapAppend ==
    ASSUME NEW fs \in Seq(Frames), NEW f \in Frames
    PROVE  Snap(Append(fs, f)) = Append(Snap(fs), Snap1(f))
  <1>1. PICK gs : gs = Append(fs, f)  OBVIOUS
  <1>2. /\ gs \in Seq(Frames) /\ Len(gs) = Len(fs) + 1 /\ gs[Len(fs) + 1] = f /\ Len(fs) \in Nat
        /\ \A i \in 1..Len(fs) : gs[i] = fs[i]
    BY <1>1, AppendProperties, LenProperties
  <1>3. /\ Snap(fs) \in Seq(Snaps) /\ Len(Snap(fs)) = Len(fs)
        /\ \A k \in 1..Len(fs) : Snap(fs)[k] = Snap1(fs[k])
    BY SnapIs
  <1>4. /\ Snap(gs) \in Seq(Snaps) /\ Len(Snap(gs)) = Len(gs)
        /\ \A k \in 1..Len(gs) : Snap(gs)[k] = Snap1(gs[k]) /\ Snap1(gs[k]) \in Snaps
    BY <1>2, SnapIs
  <1>5. PICK T : T = Append(Snap(fs), Snap1(f))  OBVIOUS
  <1>6. Len(gs) \in 1..Len(gs) /\ Snap1(f) \in Snaps
    BY <1>2, <1>4
  <1>7. /\ T \in Seq(Snaps) /\ Len(T) = Len(fs) + 1 /\ T[Len(fs) + 1] = Snap1(f)
        /\ \A i \in 1..Len(fs) : T[i] = Snap(fs)[i]
    BY <1>3, <1>5, <1>6, AppendProperties
  <1>8. \A i \in 1..Len(gs) : i \in 1..Len(fs) \/ i = Len(fs) + 1
    BY <1>2
  <1>9. \A i \in 1..Len(T) : Snap(gs)[i] = T[i]
    BY <1>2, <1>3, <1>4, <1>7, <1>8
  <1>10. Snap(gs) = T
    BY <1>2, <1>4, <1>7, <1>9, SeqEqual
  <1> QED BY <1>1, <1>5, <1>10

LEMMA SnapFront ==
    ASSUME NEW fs \in Seq(Frames), fs # << >>
    PROVE  Snap(Front(fs)) = Front(Snap(fs)) /\ Front(fs) \in Seq(Frames)
  <1>1. PICK gs : gs = Front(fs)  OBVIOUS
  <1>2. /\ gs \in Seq(Frames) /\ Len(fs) \in Nat \ {0} /\ Len(gs) = Len(fs) - 1
        /\ \A i \in 1..(Len(fs) - 1) : gs[i] = fs[i]
    BY <1>1, FrontIs
  <1>3. /\ Snap(fs) \in Seq(Snaps) /\ Snap(fs) # << >> /\ Len(Snap(fs)) = Len(fs)
        /\ \A k \in 1..Len(fs) : Snap(fs)[k] = Snap1(fs[k])
    BY SnapIs
  <1>4. /\ Snap(gs) \in Seq(Snaps) /\ Len(Snap(gs)) = Len(gs)
        /\ \A k \in 1..Len(gs) : Snap(gs)[k] = Snap1(gs[k])
    BY <1>2, SnapIs
  <1>5. PICK S : S = Snap(fs)  OBVIOUS
  <1>6. /\ Front(S) \in Seq(Snaps) /\ Len(Front(S)) = Len(fs) - 1
        /\ \A i \in 1..(Len(fs) - 1) : Front(S)[i] = S[i]
    BY <1>3, <1>5, FrontIs
  <1>7. \A i \in 1..(Len(fs) - 1) : i \in 1..Len(fs)
    BY <1>2
  <1>8. \A i \in 1..Len(Front(S)) : Snap(gs)[i] = Front(S)[i]
    BY <1>2, <1>3, <1>4, <1>5, <1>6, <1>7
  <1>9. Snap(gs) = Front(S)
    BY <1>2, <1>4, <1>6, <1>8, SeqEqual
  <1> QED BY <1>1, <1>2, <1>5, <1>9

\* That depends on no variable of the innermost function.
LEMMA UpsRightStay ==
    ASSUME NEW fs \in Seq(Frames), fs # << >>, UpsRight(fs), NEW f \in Frames, f.ups = Last(fs).ups
    PROVE  UpsRight(WithLast(fs, f))
  <1>1. PICK gs : gs = WithLast(fs, f)  OBVIOUS
  <1>2. /\ Len(gs) = Len(fs) /\ Last(gs) = f /\ Len(fs) \in Nat \ {0}
        /\ \A i \in 1..(Len(fs) - 1) : gs[i] = fs[i]
    <2>1. /\ Len(WithLast(fs, f)) = Len(fs) /\ Last(WithLast(fs, f)) = f /\ Len(fs) \in Nat \ {0}
          /\ \A i \in 1..(Len(fs) - 1) : WithLast(fs, f)[i] = fs[i]
      BY WithLastIs
    <2> QED BY <1>1, <2>1
  <1>3. \A d \in 1..Len(fs) : gs[d].ups = fs[d].ups
    <2>1. \A d \in 1..Len(fs) : d = Len(fs) \/ d \in 1..(Len(fs) - 1)
      BY <1>2
    <2>2. gs[Len(fs)].ups = fs[Len(fs)].ups
      BY <1>2 DEF Last
    <2> QED BY <1>2, <2>1, <2>2
  <1>4. ASSUME NEW d \in 1..Len(gs), NEW i \in 1..Len(gs[d].ups)
        PROVE  UpRight(gs, d, i)
    <2>1. d \in 1..Len(fs) /\ i \in 1..Len(fs[d].ups) /\ UpRight(fs, d, i)
      BY <1>2, <1>3 DEF UpsRight
    <2>2. d > 1
      BY <2>1 DEF UpRight
    <2>3. d - 1 \in 1..(Len(fs) - 1)
      BY <1>2, <2>1, <2>2
    <2>4. gs[d].ups = fs[d].ups /\ gs[d - 1] = fs[d - 1]
      BY <1>2, <1>3, <2>1, <2>3
    <2> QED BY <2>1, <2>4 DEF UpRight
  <1> QED BY <1>1, <1>4 DEF UpsRight

LEMMA UpsRightOpen ==
    ASSUME NEW fs \in Seq(Frames), UpsRight(fs), NEW f \in Frames, f.ups = << >>
    PROVE  UpsRight(Append(fs, f))
  <1>1. PICK gs : gs = Append(fs, f)  OBVIOUS
  <1>2. /\ Len(gs) = Len(fs) + 1 /\ gs[Len(fs) + 1] = f /\ Len(fs) \in Nat
        /\ \A i \in 1..Len(fs) : gs[i] = fs[i]
    BY <1>1, AppendProperties, LenProperties
  <1>3. ASSUME NEW d \in 1..Len(gs), NEW i \in 1..Len(gs[d].ups)
        PROVE  UpRight(gs, d, i)
    <2>1. d # Len(fs) + 1
      <3>1. Len(f.ups) = 0 /\ 1..0 = {}  OBVIOUS
      <3> QED BY <1>2, <3>1
    <2>2. d \in 1..Len(fs)
      BY <1>2, <2>1
    <2>3. UpRight(fs, d, i) /\ gs[d] = fs[d]
      BY <1>2, <2>2 DEF UpsRight
    <2>4. d > 1
      BY <2>3 DEF UpRight
    <2>5. d - 1 \in 1..Len(fs)
      BY <1>2, <2>2, <2>4
    <2>6. gs[d - 1] = fs[d - 1]
      BY <1>2, <2>5
    <2> QED BY <2>3, <2>6 DEF UpRight
  <1> QED BY <1>1, <1>3 DEF UpsRight

LEMMA UpsRightFront ==
    ASSUME NEW fs \in Seq(Frames), fs # << >>, UpsRight(fs)
    PROVE  UpsRight(Front(fs))
  <1>1. PICK gs : gs = Front(fs)  OBVIOUS
  <1>2. /\ Len(fs) \in Nat \ {0} /\ Len(gs) = Len(fs) - 1
        /\ \A i \in 1..(Len(fs) - 1) : gs[i] = fs[i]
    BY <1>1, FrontIs
  <1>3. ASSUME NEW d \in 1..Len(gs), NEW i \in 1..Len(gs[d].ups)
        PROVE  UpRight(gs, d, i)
    <2>1. d \in 1..Len(fs) /\ gs[d] = fs[d]
      BY <1>2
    <2>2. UpRight(fs, d, i)
      BY <2>1 DEF UpsRight
    <2>3. d > 1
      BY <2>2 DEF UpRight
    <2>4. d - 1 \in 1..(Len(fs) - 1)
      BY <1>2, <2>1, <2>3
    <2>5. gs[d - 1] = fs[d - 1]
      BY <1>2, <2>4
    <2> QED BY <2>1, <2>2, <2>5 DEF UpRight
  <1> QED BY <1>1, <1>3 DEF UpsRight

----------------------------------------------------------------------------
(* The operations of the parser.                                           *)

\* A function is another one, of a parser that is in order.
LEMMA WithFIs ==
    ASSUME NEW P, Lists(P), NEW f
    PROVE  /\ Lists(WithF(P, f)) /\ WithF(P, f).fs = WithLast(P.fs, f) /\ WithF(P, f).error = P.error
           /\ WithF(P, f).label = P.label /\ WithF(P, f).gt = P.gt
  <1>1. PICK x : x = WithLast(P.fs, f)  OBVIOUS
  <1>2. WithF(P, f) = [P EXCEPT !.fs = x]
    BY <1>1 DEF WithF, WithLast
  <1>3. [P EXCEPT !.fs = x] = State(x, P.label, P.gt, P.jump, P.closes, P.error)
    BY StateIs
  <1>4. PICK Q : Q = State(x, P.label, P.gt, P.jump, P.closes, P.error)  OBVIOUS
  <1>5. Q.fs = x /\ Q.label = P.label /\ Q.gt = P.gt /\ Q.jump = P.jump /\ Q.closes = P.closes /\ Q.error = P.error
    BY <1>4 DEF State
  <1>6. Lists(Q)
    BY <1>4, <1>5 DEF Lists
  <1> QED BY <1>1, <1>2, <1>3, <1>4, <1>5, <1>6

LEMMA WithFSound ==
    ASSUME NEW P, Parser(P), UpsRight(P.fs), NEW f \in Frames, f.ups = Last(P.fs).ups
    PROVE  Reads(WithF(P, f), WithLast(Snap(P.fs), Snap1(f)))
  <1>1. P.fs \in Seq(Frames) /\ P.fs # << >> /\ Lists(P)
    BY DEF Parser
  <1>2. WithLast(P.fs, f) \in Seq(Frames) /\ WithLast(P.fs, f) # << >>
    BY <1>1, WithLastIs
  <1>3. Snap(WithLast(P.fs, f)) = WithLast(Snap(P.fs), Snap1(f))
    BY <1>1, SnapWithLast
  <1>4. UpsRight(WithLast(P.fs, f))
    BY <1>1, UpsRightStay
  <1>5. Lists(WithF(P, f)) /\ WithF(P, f).fs = WithLast(P.fs, f)
    BY <1>1, WithFIs
  <1> QED BY <1>2, <1>3, <1>4, <1>5 DEF Reads, Parser

LEMMA AddSound ==
    ASSUME NEW P, NEW S, Reads(P, S), NEW vs \in Seq(Vars)
    PROVE  Reads(AdjustLocalVars(P, vs), AddS(S, vs)) /\ AdjustLocalVars(P, vs).error = P.error
  <1>1. Parser(P) /\ UpsRight(P.fs) /\ Snap(P.fs) = S /\ P.fs \in Seq(Frames) /\ P.fs # << >> /\ Lists(P)
    BY DEF Reads, Parser
  <1>2. PICK f : f = Last(P.fs)  OBVIOUS
  <1>3. f \in Frames /\ Last(Snap(P.fs)) = Snap1(f)
    BY <1>1, <1>2, SnapIs
  <1>4. PICK g : g = Framed(f.bl, f.actvar \o vs, f.ups, f.owner)  OBVIOUS
  <1>5. g \in Frames
    <2>1. f.actvar \o vs \in Seq(Vars)
      BY <1>3, FrameIs, ConcatProperties
    <2> QED BY <1>3, <1>4, <2>1, FrameIs DEF Framed, Frames
  <1>6. g.ups = f.ups /\ g.bl = f.bl /\ g.actvar = f.actvar \o vs /\ g.owner = f.owner
    BY <1>4 DEF Framed
  <1>7. AdjustLocalVars(P, vs) = WithF(P, g)
    <2>1. [f EXCEPT !.actvar = f.actvar \o vs] = g
      BY <1>3, <1>4, FrameExcept
    <2> QED BY <1>2, <2>1 DEF AdjustLocalVars, F
  <1>8. Snap1(g) = AddVars(Snap1(f), vs)
    BY <1>6 DEF Snap1, AddVars
  <1>9. WithLast(Snap(P.fs), Snap1(g)) = AddS(S, vs)
    BY <1>1, <1>3, <1>8 DEF AddS
  <1>10. Reads(WithF(P, g), WithLast(Snap(P.fs), Snap1(g)))
    BY <1>1, <1>2, <1>5, <1>6, WithFSound
  <1> QED BY <1>1, <1>7, <1>9, <1>10, WithFIs

LEMMA EnterSound ==
    ASSUME NEW P, NEW S, Reads(P, S), NEW isloop \in BOOLEAN
    PROVE  Reads(EnterBlock(P, isloop), EnterS(S)) /\ EnterBlock(P, isloop).error = P.error
  <1>1. Parser(P) /\ UpsRight(P.fs) /\ Snap(P.fs) = S /\ P.fs \in Seq(Frames) /\ P.fs # << >> /\ Lists(P)
    BY DEF Reads, Parser
  <1>2. PICK f : f = Last(P.fs)  OBVIOUS
  <1>3. f \in Frames /\ Last(Snap(P.fs)) = Snap1(f)
    BY <1>1, <1>2, SnapIs
  <1>4. PICK b : b = [isloop |-> isloop, nactvar |-> Len(f.actvar), upval |-> FALSE,
                      firstlabel |-> Len(P.label), firstgoto |-> Len(P.gt)]
    OBVIOUS
  <1>5. b \in Blocks /\ b.nactvar = Len(f.actvar)
    <2>1. Len(P.label) \in Nat /\ Len(P.gt) \in Nat
      BY <1>1, SequenceIs DEF Lists
    <2>2. Len(f.actvar) \in Nat
      BY <1>3, FrameIs, LenProperties
    <2> QED BY <1>4, <2>1, <2>2 DEF Blocks
  <1>6. PICK g : g = Framed(Append(f.bl, b), f.actvar, f.ups, f.owner)  OBVIOUS
  <1>7. f.bl \in Seq(Blocks) /\ Append(f.bl, b) \in Seq(Blocks) /\ Append(f.bl, b) # << >>
    BY <1>3, <1>5, FrameIs, FrontOfAppend
  <1>8. g \in Frames
    BY <1>3, <1>6, <1>7, FrameIs DEF Framed, Frames
  <1>9. g.ups = f.ups /\ g.bl = Append(f.bl, b) /\ g.actvar = f.actvar /\ g.owner = f.owner
    BY <1>6 DEF Framed
  <1>10. EnterBlock(P, isloop) = WithF(P, g)
    <2>1. [f EXCEPT !.bl = Append(f.bl, b)] = g
      BY <1>3, <1>6, FrameExcept
    <2> QED BY <1>2, <1>4, <2>1 DEF EnterBlock, F
  <1>11. Snap1(g) = Entered(Snap1(f))
    <2>1. LevelsOf(Append(f.bl, b)) = Append(LevelsOf(f.bl), Len(f.actvar))
      BY <1>5, <1>7, LevelsGrow
    <2> QED BY <1>9, <2>1 DEF Snap1, Entered
  <1>12. WithLast(Snap(P.fs), Snap1(g)) = EnterS(S)
    BY <1>1, <1>3, <1>11 DEF EnterS
  <1>13. Reads(WithF(P, g), WithLast(Snap(P.fs), Snap1(g)))
    BY <1>1, <1>2, <1>8, <1>9, WithFSound
  <1> QED BY <1>1, <1>10, <1>12, <1>13, WithFIs

\* Also the first one, when there is no function yet.
LEMMA OpenIs ==
    ASSUME NEW P, Lists(P), P.fs \in Seq(Frames), UpsRight(P.fs), NEW owner \in Seq(Vars)
    PROVE  Reads(OpenFunc(P, owner), OpenS(Snap(P.fs), owner)) /\ OpenFunc(P, owner).error = P.error
  <1>1. PICK e : e = Framed(<< >>, << >>, << >>, owner)  OBVIOUS
  <1>2. PICK fs : fs = Append(P.fs, e)  OBVIOUS
  <1>3. PICK Q : Q = [P EXCEPT !.fs = fs]  OBVIOUS
  <1>4. Q.fs = fs /\ Q.label = P.label /\ Q.gt = P.gt /\ Q.error = P.error /\ Lists(Q)
    <2>1. Q = State(fs, P.label, P.gt, P.jump, P.closes, P.error)
      BY <1>3, StateIs
    <2>2. Q.fs = fs /\ Q.label = P.label /\ Q.gt = P.gt /\ Q.jump = P.jump /\ Q.closes = P.closes
          /\ Q.error = P.error
      BY <2>1 DEF State
    <2> QED BY <2>1, <2>2 DEF Lists
  <1>5. PICK b : b = [isloop |-> FALSE, nactvar |-> Len(e.actvar), upval |-> FALSE,
                      firstlabel |-> Len(P.label), firstgoto |-> Len(P.gt)]
    OBVIOUS
  <1>6. b \in Blocks /\ b.nactvar = 0
    <2>1. Len(P.label) \in Nat /\ Len(P.gt) \in Nat
      BY SequenceIs DEF Lists
    <2>2. Len(e.actvar) = 0
      BY <1>1 DEF Framed
    <2> QED BY <1>5, <2>1, <2>2 DEF Blocks
  <1>7. PICK g : g = Framed(<<b>>, << >>, << >>, owner)  OBVIOUS
  <1>8. g \in Frames /\ g.ups = << >>
    <2>1. \A c \in Blocks : <<c>> \in Seq(Blocks) \ {<< >>}  OBVIOUS
    <2>2. << >> \in Seq(Vars) /\ << >> \in Seq(Ups)
      BY EmptySeq
    <2> QED BY <1>6, <1>7, <2>1, <2>2 DEF Framed, Frames
  <1>9. PICK X : X = Frames \union {e}  OBVIOUS
  <1>10. P.fs \in Seq(X) /\ e \in X /\ g \in X
    BY <1>8, <1>9, SeqMonotonic
  <1>11. fs \in Seq(X) /\ fs # << >> /\ Last(fs) = e /\ Front(fs) = P.fs /\ Len(fs) = Len(P.fs) + 1
         /\ \A i \in 1..Len(P.fs) : fs[i] = P.fs[i]
    BY <1>2, <1>10, FrontOfAppend
  <1>12. OpenFunc(P, owner) = WithF(Q, g)
    <2>1. OpenFunc(P, owner) = EnterBlock(Q, FALSE)
      BY <1>1, <1>2, <1>3 DEF OpenFunc, Framed
    <2>2. EnterBlock(Q, FALSE) = WithF(Q, [e EXCEPT !.bl = Append(e.bl, b)])
      BY <1>4, <1>5, <1>11 DEF EnterBlock, F
    <2>3. [e EXCEPT !.bl = Append(e.bl, b)] = g
      <3>1. \A c : Append(<< >>, c) = <<c>>  OBVIOUS
      <3>2. Append(e.bl, b) = <<b>>
        BY <1>1, <3>1 DEF Framed
      <3> QED BY <1>1, <1>7, <3>2 DEF Framed
    <2> QED BY <2>1, <2>2, <2>3
  <1>13. WithLast(fs, g) = Append(P.fs, g)
    <2>1. /\ WithLast(fs, g) \in Seq(X) /\ Len(WithLast(fs, g)) = Len(fs) /\ Last(WithLast(fs, g)) = g
          /\ \A i \in 1..(Len(fs) - 1) : WithLast(fs, g)[i] = fs[i]
      <3>1. fs \in Seq(X) /\ fs # << >> /\ g \in X
        BY <1>10, <1>11
      <3> QED BY <3>1, WithLastIs
    <2>2. /\ Append(P.fs, g) \in Seq(X) /\ Append(P.fs, g) # << >> /\ Len(Append(P.fs, g)) = Len(P.fs) + 1
          /\ Last(Append(P.fs, g)) = g
          /\ \A i \in 1..Len(P.fs) : Append(P.fs, g)[i] = P.fs[i]
      BY <1>10, FrontOfAppend
    <2>3. Len(P.fs) \in Nat
      BY LenProperties
    <2>4. PICK A : A = Append(P.fs, g)  OBVIOUS
    <2>5. PICK B : B = WithLast(fs, g)  OBVIOUS
    <2>6. /\ A \in Seq(X) /\ B \in Seq(X) /\ Len(A) = Len(B) /\ A # << >> /\ Last(A) = Last(B)
      BY <1>11, <2>1, <2>2, <2>4, <2>5
    <2>7. \A i \in 1..(Len(A) - 1) : A[i] = B[i]
      BY <1>11, <2>1, <2>2, <2>3, <2>4, <2>5
    <2>8. A = B
      BY <2>6, <2>7, SameLast
    <2> QED BY <2>4, <2>5, <2>8
  <1>14. PICK R : R = WithF(Q, g)  OBVIOUS
  <1>15. Lists(R) /\ R.fs = Append(P.fs, g) /\ R.error = P.error
    BY <1>4, <1>13, <1>14, WithFIs
  <1>16. R.fs \in Seq(Frames) /\ R.fs # << >>
    BY <1>8, <1>15, FrontOfAppend
  <1>17. UpsRight(R.fs)
    BY <1>8, <1>15, UpsRightOpen
  <1>18. Snap1(g) = Opened(owner)
    <2>1. LevelsOf(<<b>>) = <<0>>
      <3>1. Len(<<b>>) = 1 /\ <<b>>[1] = b  OBVIOUS
      <3>2. LevelsOf(<<b>>) = [i \in 1..1 |-> <<b>>[i].nactvar]
        BY <3>1 DEF LevelsOf
      <3>3. \A i \in 1..1 : i = 1  OBVIOUS
      <3>4. [i \in 1..1 |-> <<b>>[i].nactvar] = [i \in 1..1 |-> 0]
        BY <1>6, <3>1, <3>3
      <3>5. [i \in 1..1 |-> 0] = <<0>>  OBVIOUS
      <3> QED BY <3>2, <3>4, <3>5
    <2> QED BY <1>7, <2>1 DEF Snap1, Framed, Opened
  <1>19. Snap(R.fs) = OpenS(Snap(P.fs), owner)
    BY <1>8, <1>15, <1>18, SnapAppend DEF OpenS
  <1> QED BY <1>12, <1>14, <1>15, <1>16, <1>17, <1>19 DEF Reads, Parser

LEMMA OpenSound ==
    ASSUME NEW P, NEW S, Reads(P, S), NEW owner \in Seq(Vars)
    PROVE  Reads(OpenFunc(P, owner), OpenS(S, owner)) /\ OpenFunc(P, owner).error = P.error
  <1>1. Lists(P) /\ P.fs \in Seq(Frames) /\ UpsRight(P.fs) /\ Snap(P.fs) = S
    BY DEF Reads, Parser
  <1> QED BY <1>1, OpenIs

LEMMA LeaveIs ==
    ASSUME NEW P, Parser(P), Fine(P)
    PROVE  /\ Lists(LeaveBlock(P))
           /\ Fine(LeaveBlock(P)) => LeaveBlock(P).fs = WithLast(P.fs, LeftFrame(Last(P.fs)))
  <1> DEFINE bl == BL(P)
             inner == Len(F(P).bl) > 1
             closed == CloseUpvalues(P, bl)
             Q == IF bl.isloop THEN BreakLabel(closed) ELSE closed
             left == RemoveVars(Q, bl)
  <1>17. LeaveBlock(P) =
           CASE P.error # "" -> P
             [] P.error = "" /\ Q.error # "" -> Q
             [] P.error = "" /\ Q.error = "" /\ inner -> MoveGotosOut(left, bl)
             [] OTHER -> IF bl.firstgoto < Len(Q.gt) THEN [left EXCEPT !.error = "no visible label"] ELSE left
    BY Zenon DEF LeaveBlock
  <1>21. left = [WithF(Q, [F(Q) EXCEPT !.bl = Front(@), !.actvar = SubSeq(@, 1, bl.nactvar)])
                   EXCEPT !.label = SubSeq(@, 1, bl.firstlabel)]
    BY Zenon DEF RemoveVars
  <1> HIDE DEF left
  <1>9. Q = IF bl.isloop THEN BreakLabel(closed) ELSE closed  OBVIOUS
  <1> HIDE DEF Q
  <1>6. PICK more : more = P.closes \union {[at |-> Pos, level |-> bl.nactvar, back |-> FALSE]}
    OBVIOUS
  <1>7. closed = IF inner /\ bl.upval THEN [P EXCEPT !.closes = more] ELSE P
    BY <1>6 DEF CloseUpvalues
  <1> HIDE DEF closed
  <1> HIDE DEF inner
  <1>22. bl = BL(P)  OBVIOUS
  <1> HIDE DEF bl
  <1>1. Lists(P) /\ P.fs \in Seq(Frames) /\ P.fs # << >> /\ Last(P.fs) \in Frames
    BY SnapIs DEF Parser
  <1>2. PICK f : f = Last(P.fs)  OBVIOUS
  <1>3. bl = Last(f.bl)
    BY <1>2, <1>22 DEF BL, F
  <1>4. f \in Frames /\ bl.firstgoto \in Nat /\ bl.firstlabel \in Nat /\ bl.nactvar \in Nat /\ BL(P) = bl
    BY <1>1, <1>2, <1>3, FrameIs DEF BL, F
  <1>8. Alike(closed, P)
    <2>1. Alike(P, P)
      BY <1>1 DEF Alike
    <2>2. [P EXCEPT !.closes = more] = State(P.fs, P.label, P.gt, P.jump, more, P.error)
      BY <1>1, StateIs
    <2>3. Sequence(P.gt)
      BY <1>1 DEF Lists
    <2>4. Alike(State(P.fs, P.label, P.gt, P.jump, more, P.error), P)
      BY <1>1, <2>3, StateAlike
    <2> QED BY <1>7, <2>1, <2>2, <2>4
  <1>10. Alike(Q, P)
    <2>1. BL(closed).firstgoto \in Nat /\ Lists(closed)
      BY <1>4, <1>8 DEF Alike, BL, F
    <2>2. Alike(BreakLabel(closed), closed)
      BY <2>1, GotosAlike DEF BreakLabel
    <2>3. Alike(BreakLabel(closed), P)
      BY <1>8, <2>2, AlikeTwice
    <2> QED BY <1>8, <1>9, <2>3
  <1>11. Lists(Q) /\ Q.fs = P.fs /\ Q.label = P.label
    BY <1>10 DEF Alike
  <1>12. PICK out : out = WithF(Q, LeftFrame(f))  OBVIOUS
  <1>13. Lists(out) /\ out.fs = WithLast(P.fs, LeftFrame(f)) /\ out.label = P.label
    BY <1>11, <1>12, WithFIs
  <1>16. [F(Q) EXCEPT !.bl = Front(@), !.actvar = SubSeq(@, 1, bl.nactvar)] = LeftFrame(f)
    <2>1. F(Q) = f
      BY <1>2, <1>11 DEF F
    <2>2. PICK x : x = Front(f.bl)  OBVIOUS
    <2>3. PICK y : y = SubSeq(f.actvar, 1, bl.nactvar)  OBVIOUS
    <2>4. [f EXCEPT !.bl = x, !.actvar = y] = Framed(x, y, f.ups, f.owner)
      BY <1>4, FrameExcept
    <2> QED BY <1>3, <2>1, <2>2, <2>3, <2>4 DEF LeftFrame
  <1>14. left = [out EXCEPT !.label = SubSeq(out.label, 1, bl.firstlabel)]
    BY <1>12, <1>16, <1>21
  <1>15. Lists(left) /\ left.fs = WithLast(P.fs, LeftFrame(f))
    <2>1. PICK label : label = SubSeq(out.label, 1, bl.firstlabel)  OBVIOUS
    <2>2. left = State(out.fs, label, out.gt, out.jump, out.closes, out.error)
      <3>1. [out EXCEPT !.label = label] = State(out.fs, label, out.gt, out.jump, out.closes, out.error)
        BY <1>13, StateIs
      <3> QED BY <1>14, <2>1, <3>1
    <2>3. left.fs = out.fs /\ left.label = label /\ left.gt = out.gt /\ left.jump = out.jump
          /\ left.closes = out.closes /\ left.error = out.error
      BY <2>2 DEF State
    <2>4. Sequence(label) /\ Sequence(out.gt)
      BY <1>4, <1>13, <2>1, SequenceCut DEF Lists
    <2> QED BY <1>13, <2>2, <2>3, <2>4 DEF Lists
  <1>18. CASE Q.error # ""
    <2>1. LeaveBlock(P) = Q
      BY <1>17, <1>18 DEF Fine
    <2> QED BY <1>11, <1>18, <2>1 DEF Fine
  <1>19. CASE Q.error = "" /\ inner
    <2>1. LeaveBlock(P) = MoveGotosOut(left, bl)
      BY <1>17, <1>19 DEF Fine
    <2>2. Alike(MoveGotosOut(left, bl), left)
      BY <1>4, <1>15, GotosAlike
    <2> QED BY <1>2, <1>15, <2>1, <2>2 DEF Alike
  <1>20. CASE Q.error = "" /\ ~inner
    <2>1. PICK refused : refused = [left EXCEPT !.error = "no visible label"]  OBVIOUS
    <2>2. refused.error = "no visible label" /\ Lists(refused)
      <3>1. [left EXCEPT !.error = "no visible label"]
              = State(left.fs, left.label, left.gt, left.jump, left.closes, "no visible label")
        BY <1>15, StateIs
      <3>2. Alike(State(left.fs, left.label, left.gt, left.jump, left.closes, "no visible label"), left)
        BY <1>15, StateAlike DEF Lists
      <3>3. State(left.fs, left.label, left.gt, left.jump, left.closes, "no visible label").error = "no visible label"
        BY DEF State
      <3> QED BY <2>1, <3>1, <3>2, <3>3 DEF Alike
    <2>3. LeaveBlock(P) = IF bl.firstgoto < Len(Q.gt) THEN refused ELSE left
      BY <1>17, <1>20, <2>1 DEF Fine
    <2>4. LeaveBlock(P) = refused \/ LeaveBlock(P) = left
      BY <2>3
    <2> QED BY <1>2, <1>15, <2>2, <2>4 DEF Fine
  <1> QED BY <1>18, <1>19, <1>20

\* Whatever a block has left to do at its end, its variables are gone.
LEMMA LeaveSound ==
    ASSUME NEW P, NEW S, Reads(P, S), LeaveS(S) \in Seq(Snaps), Fine(P), Fine(LeaveBlock(P))
    PROVE  Reads(LeaveBlock(P), LeaveS(S))
  <1>1. Parser(P) /\ UpsRight(P.fs) /\ Snap(P.fs) = S /\ P.fs \in Seq(Frames) /\ P.fs # << >> /\ Lists(P)
    BY DEF Reads, Parser
  <1>2. PICK f : f = Last(P.fs)  OBVIOUS
  <1>3. f \in Frames /\ Last(S) = Snap1(f) /\ S # << >> /\ S \in Seq(Snaps)
    BY <1>1, <1>2, SnapIs
  <1>4. /\ f.bl \in Seq(Blocks) /\ f.bl # << >> /\ f.actvar \in Seq(Vars) /\ f.ups \in Seq(Ups)
        /\ f.owner \in Seq(Vars) /\ Last(f.bl).nactvar \in Nat
    BY <1>3, FrameIs
  <1>5. PICK g : g = LeftFrame(f)  OBVIOUS
  <1>6. g.bl = Front(f.bl) /\ g.actvar = SubSeq(f.actvar, 1, Last(f.bl).nactvar) /\ g.ups = f.ups
        /\ g.owner = f.owner /\ g = Framed(g.bl, g.actvar, g.ups, g.owner)
    BY <1>5 DEF LeftFrame, Framed
  <1>7. Snap1(g) = Left(Last(S))
    <2>1. LevelsOf(g.bl) = Front(LevelsOf(f.bl)) /\ Last(LevelsOf(f.bl)) = Last(f.bl).nactvar
      BY <1>4, <1>6, LevelsShrink, LevelsAre
    <2>2. Snap1(f).levels = LevelsOf(f.bl) /\ Snap1(f).actvar = f.actvar /\ Snap1(f).owner = f.owner
      BY DEF Snap1
    <2>3. Left(Snap1(f)) = [actvar |-> g.actvar, levels |-> LevelsOf(g.bl), owner |-> g.owner]
      BY <1>6, <2>1, <2>2 DEF Left
    <2> QED BY <1>3, <2>3 DEF Snap1
  <1>8. LeaveS(S) = WithLast(S, Snap1(g))
    BY <1>7 DEF LeaveS
  <1>9. Snap1(g) \in Snaps
    <2>1. PICK T : T = LeaveS(S)  OBVIOUS
    <2>2. Len(S) \in 1..Len(S) /\ DOMAIN S = 1..Len(S)
      <3>1. Len(S) \in Nat \ {0}
        BY <1>3, FrontIs
      <3>4. S \in Seq(Snaps)
        BY <1>3
      <3>2. DOMAIN S = 1..Len(S)
        BY <3>4, LenProperties
      <3>3. Len(S) \in 1..Len(S)
        BY <3>1
      <3> QED BY <3>2, <3>3
    <2>3. T[Len(S)] = Snap1(g) /\ DOMAIN T = DOMAIN S
      BY <1>8, <2>1, <2>2 DEF WithLast
    <2>4. T \in Seq(Snaps) /\ DOMAIN T = 1..Len(T)
      BY <2>1, LenProperties
    <2>5. Len(S) \in 1..Len(T)
      BY <2>2, <2>3, <2>4
    <2>6. T[Len(S)] \in Snaps
      BY <2>4, <2>5, ElementOfSeq
    <2> QED BY <2>3, <2>6
  <1>10. g \in Frames
    <2>1. g.bl \in Seq(Blocks)
      BY <1>4, <1>6, FrontIs
    <2>2. g.bl # << >>
      <3>1. LevelsOf(g.bl) # << >>
        BY <1>9 DEF Snap1, Snaps
      <3>2. ASSUME g.bl = << >> PROVE FALSE
        <4>1. Len(LevelsOf(g.bl)) = 0 /\ LevelsOf(g.bl) \in Seq(Nat)
          BY <2>1, <3>2, LevelsAre
        <4>2. LevelsOf(g.bl) = << >>
          BY <4>1, EmptySeq
        <4> QED BY <3>1, <4>2
      <3> QED BY <3>2
    <2>3. g.actvar \in Seq(Vars)
      BY <1>9 DEF Snap1, Snaps
    <2> QED BY <1>4, <1>6, <2>1, <2>2, <2>3 DEF Framed, Frames
  <1>11. PICK Q : Q = LeaveBlock(P)  OBVIOUS
  <1>12. Lists(Q) /\ Q.fs = WithLast(P.fs, g)
    <2>1. Lists(LeaveBlock(P)) /\ LeaveBlock(P).fs = WithLast(P.fs, LeftFrame(Last(P.fs)))
      BY <1>1, LeaveIs
    <2> QED BY <1>2, <1>5, <1>11, <2>1
  <1>13. Q.fs \in Seq(Frames) /\ Q.fs # << >>
    <2>1. P.fs \in Seq(Frames) /\ P.fs # << >>
      BY <1>1
    <2>2. WithLast(P.fs, g) \in Seq(Frames) /\ WithLast(P.fs, g) # << >>
      BY <1>10, <2>1, WithLastIs
    <2> QED BY <1>12, <2>2
  <1>14. UpsRight(Q.fs)
    BY <1>1, <1>2, <1>6, <1>10, <1>12, UpsRightStay
  <1>15. Snap(Q.fs) = LeaveS(S)
    BY <1>1, <1>8, <1>10, <1>12, SnapWithLast
  <1> QED BY <1>11, <1>12, <1>13, <1>14, <1>15 DEF Reads, Parser

\* With the last function, its variables are gone, and its own variable comes.
LEMMA CloseSound ==
    ASSUME NEW P, NEW S, Reads(P, S), Fine(P), Fine(CloseFunc(P)), CloseFunc(P).fs # << >>
    PROVE  /\ Front(S) \in Seq(Snaps) /\ Front(S) # << >>
           /\ Reads(CloseFunc(P), AddS(Front(S), Last(S).owner))
  <1>1. Parser(P) /\ UpsRight(P.fs) /\ Snap(P.fs) = S /\ P.fs \in Seq(Frames) /\ P.fs # << >> /\ Lists(P)
    BY DEF Reads, Parser
  <1>2. PICK f : f = Last(P.fs)  OBVIOUS
  <1>3. f \in Frames /\ Last(S) = Snap1(f) /\ S # << >> /\ S \in Seq(Snaps)
    BY <1>1, <1>2, SnapIs
  <1>4. PICK Q : Q = LeaveBlock(P)  OBVIOUS
  <1>5. PICK outer : outer = [Q EXCEPT !.fs = Front(Q.fs)]  OBVIOUS
  <1>6. CloseFunc(P) = IF Q.error # "" \/ outer.fs = << >>
                       THEN [Q EXCEPT !.fs = IF Q.error = "" THEN << >> ELSE Q.fs]
                       ELSE AdjustLocalVars(outer, F(Q).owner)
    BY <1>4, <1>5 DEF CloseFunc
  <1>7. Q.error = ""
    <2>1. SUFFICES ASSUME Q.error # "" PROVE FALSE  OBVIOUS
    <2>2. PICK fs : fs = Q.fs  OBVIOUS
    <2>3. CloseFunc(P) = [Q EXCEPT !.fs = fs]
      BY <1>6, <2>1, <2>2
    <2>4. [Q EXCEPT !.fs = fs] = State(fs, Q.label, Q.gt, Q.jump, Q.closes, Q.error)
      BY <1>1, <1>4, LeaveIs, StateIs
    <2>5. CloseFunc(P).error = Q.error
      BY <2>3, <2>4 DEF State
    <2> QED BY <2>1, <2>5 DEF Fine
  <1>8. Lists(Q) /\ Q.fs = WithLast(P.fs, LeftFrame(f))
    <2>1. Lists(LeaveBlock(P)) /\ LeaveBlock(P).fs = WithLast(P.fs, LeftFrame(Last(P.fs)))
      BY <1>1, <1>4, <1>7, LeaveIs DEF Fine
    <2> QED BY <1>2, <1>4, <2>1
  <1>9. PICK g : g = LeftFrame(f)  OBVIOUS
  <1>10. g.owner = f.owner /\ f.owner \in Seq(Vars) /\ Snap1(f).owner = f.owner
    BY <1>3, <1>9, FrameIs DEF LeftFrame, Framed, Snap1
  <1>11. PICK X : X = Frames \union {g}  OBVIOUS
  <1>12. P.fs \in Seq(X) /\ g \in X
    <2>1. Frames \subseteq X /\ g \in X
      BY <1>11
    <2> QED BY <1>1, <2>1, SeqMonotonic
  <1>13. Last(Q.fs) = g /\ Front(Q.fs) = Front(P.fs)
    <2>3. P.fs # << >>
      BY <1>1
    <2>1. Last(WithLast(P.fs, g)) = g
      BY <1>12, <2>3, WithLastIs
    <2>2. Front(WithLast(P.fs, g)) = Front(P.fs)
      BY <1>12, <2>3, WithLastTwice
    <2> QED BY <1>8, <1>9, <2>1, <2>2
  <1>14. Lists(outer) /\ outer.fs = Front(P.fs) /\ outer.error = ""
    <2>1. PICK fs : fs = Front(P.fs)  OBVIOUS
    <2>2. outer = State(fs, Q.label, Q.gt, Q.jump, Q.closes, Q.error)
      <3>1. [Q EXCEPT !.fs = fs] = State(fs, Q.label, Q.gt, Q.jump, Q.closes, Q.error)
        BY <1>8, StateIs
      <3> QED BY <1>5, <1>13, <2>1, <3>1
    <2>3. outer.fs = fs /\ outer.label = Q.label /\ outer.gt = Q.gt /\ outer.jump = Q.jump
          /\ outer.closes = Q.closes /\ outer.error = Q.error
      BY <2>2 DEF State
    <2> QED BY <1>7, <1>8, <2>1, <2>2, <2>3 DEF Lists
  <1>15. outer.fs # << >>
    <2>1. SUFFICES ASSUME outer.fs = << >> PROVE FALSE  OBVIOUS
    <2>2. PICK e : e = << >>  OBVIOUS
    <2>3. CloseFunc(P) = [Q EXCEPT !.fs = e]
      BY <1>6, <1>7, <2>1, <2>2
    <2>4. [Q EXCEPT !.fs = e] = State(e, Q.label, Q.gt, Q.jump, Q.closes, Q.error)
      BY <1>8, StateIs
    <2>5. CloseFunc(P).fs = e
      BY <2>3, <2>4 DEF State
    <2> QED BY <2>2, <2>5
  <1>16. CloseFunc(P) = AdjustLocalVars(outer, f.owner)
    BY <1>6, <1>7, <1>10, <1>13, <1>15 DEF F
  <1>17. outer.fs \in Seq(Frames) /\ Snap(outer.fs) = Front(S)
    BY <1>1, <1>14, SnapFront
  <1>18. UpsRight(outer.fs)
    BY <1>1, <1>14, UpsRightFront
  <1>19. Reads(outer, Front(S))
    BY <1>14, <1>15, <1>17, <1>18 DEF Reads, Parser
  <1>20. Front(S) \in Seq(Snaps) /\ Front(S) # << >>
    BY <1>15, <1>17, SnapIs
  <1>21. Reads(AdjustLocalVars(outer, f.owner), AddS(Front(S), f.owner))
    BY <1>10, <1>19, AddSound
  <1> QED BY <1>3, <1>10, <1>16, <1>20, <1>21

----------------------------------------------------------------------------
(* What singlevaraux() finds.                                              *)

LEMMA SearchExists ==
    ASSUME NEW fs, NEW name, NEW n \in Nat
    PROVE  \E walk : IsSearch(walk, fs, name, n)
  <1> DEFINE Is(walk, d) == IsSearch(walk, fs, name, d)
             Bad == {d \in 0..n : ~ \E walk : Is(walk, d)}
  <1>1. Bad = {}
    <2>1. SUFFICES ASSUME Bad # {} PROVE FALSE  OBVIOUS
    <2>2. Bad \subseteq Nat  OBVIOUS
    <2>3. PICK d \in Bad : \A c \in Bad : d <= c
      <3> HIDE DEF Bad
      <3> QED BY <2>1, <2>2, LeastExists
    <2>4. CASE d = 0
      <3>1. PICK walk : walk = [i \in 0..0 |-> NotFound(fs)]  OBVIOUS
      <3>2. walk = [i \in 0..0 |-> IF i = 0 THEN NotFound(fs) ELSE AskedName(fs, name, i, walk[i - 1])]
        BY <3>1
      <3>3. Is(walk, 0)
        BY <3>2 DEF IsSearch
      <3> QED BY <2>4, <3>3
    <2>5. CASE d # 0
      <3>0. d \in 0..n /\ d - 1 \in 0..n /\ ~(d <= d - 1)
        BY <2>5
      <3>1. d - 1 \notin Bad
        BY <2>3, <3>0
      <3>2. PICK walk : Is(walk, d - 1)
        BY <3>0, <3>1
      <3>3. PICK more : more = [i \in 0..d |-> IF i = d THEN AskedName(fs, name, d, walk[d - 1]) ELSE walk[i]]
        OBVIOUS
      <3>4. ASSUME NEW i \in 0..d
            PROVE  more[i] = IF i = 0 THEN NotFound(fs) ELSE AskedName(fs, name, i, more[i - 1])
        <4>1. CASE i = d
          <5>1. d - 1 \in 0..d /\ d - 1 # d
            BY <3>0
          <5>2. more[d - 1] = walk[d - 1]
            BY <3>3, <5>1
          <5> QED BY <2>5, <3>3, <4>1, <5>2
        <4>2. CASE i # d
          <5>1. i \in 0..(d - 1)
            BY <4>2
          <5>2. walk[i] = IF i = 0 THEN NotFound(fs) ELSE AskedName(fs, name, i, walk[i - 1])
            BY <3>2, <5>1 DEF IsSearch
          <5>3. more[i] = walk[i]
            BY <3>3, <4>2
          <5>4. CASE i = 0
            BY <5>2, <5>3, <5>4
          <5>5. CASE i # 0
            <6>1. i - 1 \in 0..d /\ i - 1 # d
              BY <5>1, <5>5
            <6>2. more[i - 1] = walk[i - 1]
              BY <3>3, <6>1
            <6> QED BY <5>2, <5>3, <5>5, <6>2
          <5> QED BY <5>4, <5>5
        <4> QED BY <4>1, <4>2
      <3>5. DOMAIN more = 0..d /\ more = [i \in DOMAIN more |-> more[i]]
        BY <3>3
      <3>6. more = [i \in 0..d |-> IF i = 0 THEN NotFound(fs) ELSE AskedName(fs, name, i, more[i - 1])]
        BY <3>4, <3>5
      <3>7. Is(more, d)
        BY <3>6 DEF IsSearch
      <3> QED BY <3>7
    <2> QED BY <2>4, <2>5
  <1> QED BY <1>1

LEMMA SingleVarIs ==
    ASSUME NEW fs, NEW name, Len(fs) \in Nat
    PROVE  \E walk : /\ SingleVarAux(fs, name) = walk[Len(fs)] /\ walk[0] = NotFound(fs)
                     /\ \A d \in 1..Len(fs) : walk[d] = AskedName(fs, name, d, walk[d - 1])
  <1> DEFINE IsAt(At) ==
               At = [d \in 0..Len(fs) |->
                       LET v == SearchVar(fs[d], name)
                           u == SearchUpvalue(fs[d], name)
                           r == At[d - 1]
                           up == [name |-> name, instack |-> r.k = "local", idx |-> r.info]
                       IN  CASE d = 0 -> [fs |-> fs, k |-> "void", info |-> 0]
                             [] d > 0 /\ v # 0 ->
                                  [fs |-> IF d = Len(fs) THEN fs ELSE [fs EXCEPT ![d] = MarkUpval(@, v)],
                                   k |-> "local", info |-> v]
                             [] d > 0 /\ v = 0 /\ u # 0 -> [fs |-> fs, k |-> "upval", info |-> u]
                             [] OTHER -> IF r.k = "void" THEN r
                                         ELSE [fs |-> [r.fs EXCEPT ![d].ups = Append(@, up)],
                                               k |-> "upval", info |-> Len(fs[d].ups) + 1]]
  <1>1. SingleVarAux(fs, name) = (CHOOSE At : IsAt(At))[Len(fs)]
    BY Zenon DEF SingleVarAux
  <1>2. ASSUME NEW At PROVE IsAt(At) <=> IsSearch(At, fs, name, Len(fs))
    <2>1. ASSUME NEW d \in 0..Len(fs)
          PROVE  (LET v == SearchVar(fs[d], name)
                      u == SearchUpvalue(fs[d], name)
                      r == At[d - 1]
                      up == [name |-> name, instack |-> r.k = "local", idx |-> r.info]
                  IN  CASE d = 0 -> [fs |-> fs, k |-> "void", info |-> 0]
                        [] d > 0 /\ v # 0 ->
                             [fs |-> IF d = Len(fs) THEN fs ELSE [fs EXCEPT ![d] = MarkUpval(@, v)],
                              k |-> "local", info |-> v]
                        [] d > 0 /\ v = 0 /\ u # 0 -> [fs |-> fs, k |-> "upval", info |-> u]
                        [] OTHER -> IF r.k = "void" THEN r
                                    ELSE [fs |-> [r.fs EXCEPT ![d].ups = Append(@, up)],
                                          k |-> "upval", info |-> Len(fs[d].ups) + 1])
                 = IF d = 0 THEN NotFound(fs) ELSE AskedName(fs, name, d, At[d - 1])
      <3>1. CASE d = 0
        BY <3>1 DEF NotFound, Result
      <3>2. CASE d # 0
        <4>1. d > 0
          BY <3>2
        <4>2. CASE SearchVar(fs[d], name) # 0
          BY <3>2, <4>1, <4>2, Zenon DEF AskedName, Result
        <4>3. CASE SearchVar(fs[d], name) = 0 /\ SearchUpvalue(fs[d], name) # 0
          BY <3>2, <4>1, <4>3, Zenon DEF AskedName, Result
        <4>4. CASE SearchVar(fs[d], name) = 0 /\ SearchUpvalue(fs[d], name) = 0
          BY <3>2, <4>1, <4>4, Zenon DEF AskedName, Result
        <4> QED BY <4>2, <4>3, <4>4
      <3> QED BY <3>1, <3>2
    <2> QED BY <2>1, Zenon DEF IsSearch
  <1>3. PICK walk : IsSearch(walk, fs, name, Len(fs)) /\ SingleVarAux(fs, name) = walk[Len(fs)]
    <2>1. \E At : IsAt(At)
      <3> HIDE DEF IsAt
      <3> QED BY <1>2, SearchExists
    <2> HIDE DEF IsAt
    <2>2. IsAt(CHOOSE At : IsAt(At))
      BY <2>1
    <2> QED BY <1>1, <1>2, <2>2
  <1>4. walk[0] = NotFound(fs) /\ \A d \in 1..Len(fs) : walk[d] = AskedName(fs, name, d, walk[d - 1])
    BY <1>3 DEF IsSearch
  <1> QED BY <1>3, <1>4

\* A mark changes no variable and no upvalue.
LEMMA MarkIs ==
    ASSUME NEW f \in Frames, NEW v
    PROVE  /\ MarkUpval(f, v) \in Frames /\ Snap1(MarkUpval(f, v)) = Snap1(f)
           /\ MarkUpval(f, v).ups = f.ups /\ MarkUpval(f, v).actvar = f.actvar
  <1>1. PICK x : x = Max({i \in DOMAIN f.bl : f.bl[i].nactvar < v})  OBVIOUS
  <1>2. PICK bl : bl = [f.bl EXCEPT ![x].upval = TRUE]  OBVIOUS
  <1>3. MarkUpval(f, v) = Framed(bl, f.actvar, f.ups, f.owner)
    <2>1. MarkUpval(f, v) = [f EXCEPT !.bl = bl]
      BY <1>1, <1>2 DEF MarkUpval
    <2> QED BY <2>1, FrameExcept
  <1>4. f.bl \in Seq(Blocks) /\ f.bl # << >> /\ Len(f.bl) \in Nat /\ DOMAIN f.bl = 1..Len(f.bl)
        /\ \A i \in 1..Len(f.bl) : f.bl[i] \in Blocks
    <2>1. f.bl \in Seq(Blocks) /\ f.bl # << >>
      BY FrameIs
    <2> QED BY <2>1, LenProperties, ElementOfSeq
  <1>5. bl \in Seq(Blocks) /\ Len(bl) = Len(f.bl) /\ \A i \in 1..Len(f.bl) : bl[i].nactvar = f.bl[i].nactvar
    <2>1. CASE x \in 1..Len(f.bl)
      <3>1. PICK b : b = [f.bl[x] EXCEPT !.upval = TRUE]  OBVIOUS
      <3>2. b \in Blocks /\ b.nactvar = f.bl[x].nactvar
        <4>1. f.bl[x] \in Blocks
          BY <1>4, <2>1
        <4>2. \A c \in Blocks : [c EXCEPT !.upval = TRUE] \in Blocks /\ [c EXCEPT !.upval = TRUE].nactvar = c.nactvar
          BY DEF Blocks
        <4> QED BY <3>1, <4>1, <4>2
      <3>3. bl = [f.bl EXCEPT ![x] = b]
        BY <1>2, <3>1
      <3>4. /\ bl \in Seq(Blocks) /\ Len(bl) = Len(f.bl)
            /\ \A j \in 1..Len(f.bl) : bl[j] = IF j = x THEN b ELSE f.bl[j]
        BY <1>4, <2>1, <3>2, <3>3, ExceptSeq
      <3> QED BY <3>2, <3>4
    <2>2. CASE x \notin 1..Len(f.bl)
      <3>1. bl = f.bl
        <4>1. PICK b : b = [f.bl[x] EXCEPT !.upval = TRUE]  OBVIOUS
        <4>2. [f.bl EXCEPT ![x] = b] = [i \in DOMAIN f.bl |-> IF i = x THEN b ELSE f.bl[i]]  OBVIOUS
        <4>3. \A i \in DOMAIN f.bl : i # x
          BY <1>4, <2>2
        <4>4. [i \in DOMAIN f.bl |-> IF i = x THEN b ELSE f.bl[i]] = [i \in DOMAIN f.bl |-> f.bl[i]]
          BY <4>3
        <4>5. f.bl = [i \in DOMAIN f.bl |-> f.bl[i]]
          BY <1>4
        <4>6. bl = [f.bl EXCEPT ![x] = b]
          BY <1>2, <4>1
        <4> QED BY <4>2, <4>4, <4>5, <4>6
      <3> QED BY <1>4, <3>1
    <2> QED BY <2>1, <2>2
  <1>6. bl # << >> /\ LevelsOf(bl) = LevelsOf(f.bl)
    <2>1. Len(f.bl) # 0
      BY <1>4, EmptySeq
    <2>2. bl # << >>
      BY <1>5, <2>1
    <2> QED BY <1>5, <2>2 DEF LevelsOf
  <1>7. PICK g : g = Framed(bl, f.actvar, f.ups, f.owner)  OBVIOUS
  <1>8. g.bl = bl /\ g.actvar = f.actvar /\ g.ups = f.ups /\ g.owner = f.owner
    BY <1>7 DEF Framed
  <1>9. g \in Frames
    <2>1. f.actvar \in Seq(Vars) /\ f.ups \in Seq(Ups) /\ f.owner \in Seq(Vars)
      BY FrameIs
    <2> QED BY <1>5, <1>6, <1>7, <2>1 DEF Framed, Frames
  <1>10. Snap1(g) = Snap1(f)
    BY <1>6, <1>8 DEF Snap1
  <1> QED BY <1>3, <1>7, <1>8, <1>9, <1>10

LEMMA SearchVarIs ==
    ASSUME NEW fs \in Seq(Frames), NEW d \in 1..Len(fs), NEW name
    PROVE  /\ SearchVar(fs[d], name) \in Nat
           /\ SearchVar(fs[d], name) = 0 <=> ~Has(Snap(fs), d, name)
           /\ SearchVar(fs[d], name) # 0 =>
                /\ SearchVar(fs[d], name) = Max(NamedIn(Snap(fs)[d].actvar, name))
                /\ SearchVar(fs[d], name) \in 1..Len(fs[d].actvar)
  <1>1. fs[d] \in Frames /\ Snap(fs)[d] = Snap1(fs[d])
    BY SnapIs
  <1>2. PICK a : a = fs[d].actvar  OBVIOUS
  <1>3. a \in Seq(Vars) /\ Snap(fs)[d].actvar = a
    BY <1>1, <1>2, FrameIs DEF Snap1
  <1>4. Len(a) \in Nat /\ NamedIn(a, name) \subseteq 1..Len(a)
    <2>1. Len(a) \in Nat /\ DOMAIN a = 1..Len(a)
      BY <1>3, LenProperties
    <2> QED BY <2>1 DEF NamedIn
  <1>5. SearchVar(fs[d], name) = IF NamedIn(a, name) = {} THEN 0 ELSE Max(NamedIn(a, name))
    BY <1>2 DEF SearchVar
  <1>6. CASE NamedIn(a, name) = {}
    BY <1>3, <1>5, <1>6 DEF Has
  <1>7. CASE NamedIn(a, name) # {}
    <2>1. PICK I : I = NamedIn(a, name)  OBVIOUS
    <2>2. I \subseteq 0..Len(a) /\ I # {} /\ I \subseteq 1..Len(a)
      BY <1>4, <1>7, <2>1
    <2>3. Max(I) \in I
      BY <1>4, <2>2, MaxIs
    <2>4. Max(I) \in 1..Len(a) /\ Max(I) # 0 /\ Max(I) \in Nat
      <3>1. Max(I) \in 1..Len(a)
        BY <2>2, <2>3
      <3>2. Len(a) \in Nat
        BY <1>4
      <3> QED BY <3>1, <3>2
    <2> QED BY <1>2, <1>3, <1>5, <1>7, <2>1, <2>4 DEF Has
  <1> QED BY <1>6, <1>7

LEMMA SearchUpvalueIs ==
    ASSUME NEW f \in Frames, NEW name, SearchUpvalue(f, name) # 0
    PROVE  /\ SearchUpvalue(f, name) \in 1..Len(f.ups)
           /\ f.ups[SearchUpvalue(f, name)].name = name
  <1>1. PICK I : I = NamedIn(f.ups, name)  OBVIOUS
  <1>2. DOMAIN f.ups = 1..Len(f.ups) /\ Len(f.ups) \in Nat
    BY FrameIs, LenProperties
  <1>3. I = {i \in 1..Len(f.ups) : f.ups[i].name = name}
    BY <1>1, <1>2 DEF NamedIn
  <1>4. I # {} /\ SearchUpvalue(f, name) = Min(I)
    BY <1>1 DEF SearchUpvalue
  <1>5. I \subseteq Nat
    BY <1>2, <1>3
  <1>6. Min(I) \in I
    BY <1>4, <1>5, MinIs
  <1> QED BY <1>3, <1>4, <1>6

LEMMA FrameReplaced ==
    ASSUME NEW fs \in Seq(Frames), NEW d \in 1..Len(fs), NEW g \in Frames, Snap1(g) = Snap1(fs[d]),
           NEW gs, Replaced(gs, fs, d, g)
    PROVE  /\ gs \in Seq(Frames) /\ Len(gs) = Len(fs) /\ Snap(gs) = Snap(fs) /\ gs[d] = g
           /\ \A k \in 1..Len(fs) : k # d => gs[k] = fs[k]
           /\ \A k \in 1..Len(fs) : gs[k].actvar = fs[k].actvar
  <1>2. /\ gs \in Seq(Frames) /\ Len(gs) = Len(fs)
        /\ \A k \in 1..Len(fs) : gs[k] = IF k = d THEN g ELSE fs[k]
    BY ExceptSeq DEF Replaced
  <1>3. \A k \in 1..Len(fs) : Snap1(gs[k]) = Snap1(fs[k])
    <2>1. ASSUME NEW k \in 1..Len(fs) PROVE Snap1(gs[k]) = Snap1(fs[k])
      <3>1. CASE k = d
        BY <1>2, <3>1
      <3>2. CASE k # d
        BY <1>2, <3>2
      <3> QED BY <3>1, <3>2
    <2> QED BY <2>1
  <1>4. Snap(gs) = Snap(fs)
    BY <1>2, <1>3 DEF Snap
  <1>5. \A k \in 1..Len(fs) : gs[k].actvar = fs[k].actvar
    <2>1. ASSUME NEW k \in 1..Len(fs) PROVE gs[k].actvar = fs[k].actvar
      <3>1. Snap1(gs[k]).actvar = gs[k].actvar /\ Snap1(fs[k]).actvar = fs[k].actvar
        BY DEF Snap1
      <3> QED BY <1>3, <3>1
    <2> QED BY <2>1
  <1> QED BY <1>2, <1>4, <1>5

LEMMA SearchVarSame ==
    ASSUME NEW f, NEW g, f.actvar = g.actvar, NEW name
    PROVE  SearchVar(f, name) = SearchVar(g, name)
  BY DEF SearchVar

\* The upvalues that are there stay right when others come.
LEMMA UpRightStays ==
    ASSUME NEW fs \in Seq(Frames), NEW gs \in Seq(Frames), Len(gs) = Len(fs), UpsRight(fs),
           \A k \in 1..Len(fs) : gs[k].actvar = fs[k].actvar,
           \A k \in 1..Len(fs) : \A i \in 1..Len(fs[k].ups) :
               i \in 1..Len(gs[k].ups) /\ gs[k].ups[i] = fs[k].ups[i],
           NEW d \in 1..Len(fs), NEW i \in 1..Len(fs[d].ups)
    PROVE  UpRight(gs, d, i)
  <1>1. UpRight(fs, d, i)
    BY DEF UpsRight
  <1>2. d > 1
    BY <1>1 DEF UpRight
  <1>3. Len(fs) \in Nat
    BY LenProperties
  <1>4. d - 1 \in 1..Len(fs)
    BY <1>2, <1>3
  <1>5. PICK u : u = fs[d].ups[i]  OBVIOUS
  <1>6. gs[d].ups[i] = u
    BY <1>5
  <1>7. PICK v : v = SearchVar(fs[d - 1], u.name)  OBVIOUS
  <1>8. SearchVar(gs[d - 1], u.name) = v
    <2>1. gs[d - 1].actvar = fs[d - 1].actvar
      BY <1>4
    <2> QED BY <1>7, <2>1, SearchVarSame
  <1>9. /\ u.instack => u.idx = v /\ v # 0
        /\ ~u.instack => v = 0 /\ u.idx \in 1..Len(fs[d - 1].ups) /\ fs[d - 1].ups[u.idx].name = u.name
    BY <1>1, <1>5, <1>7 DEF UpRight
  <1>10. ~u.instack => v = 0 /\ u.idx \in 1..Len(gs[d - 1].ups) /\ gs[d - 1].ups[u.idx].name = u.name
    BY <1>4, <1>9
  <1> QED BY <1>2, <1>6, <1>8, <1>9, <1>10 DEF UpRight

LEMMA MarkRight ==
    ASSUME NEW fs \in Seq(Frames), NEW d \in 1..Len(fs), NEW v, UpsRight(fs),
           NEW gs, Marked(gs, fs, d, v)
    PROVE  /\ gs \in Seq(Frames) /\ Len(gs) = Len(fs) /\ Snap(gs) = Snap(fs) /\ UpsRight(gs)
           /\ gs[d].actvar = fs[d].actvar
           /\ \A k \in 1..Len(fs) : k # d => gs[k] = fs[k]
  <1>1. PICK g : g = MarkUpval(fs[d], v)  OBVIOUS
  <1>2. fs[d] \in Frames
    BY SnapIs
  <1>3. g \in Frames /\ Snap1(g) = Snap1(fs[d]) /\ g.ups = fs[d].ups
    BY <1>1, <1>2, MarkIs
  <1>4. Replaced(gs, fs, d, g)
    BY <1>1 DEF Replaced, Marked
  <1>5. /\ gs \in Seq(Frames) /\ Len(gs) = Len(fs) /\ Snap(gs) = Snap(fs) /\ gs[d] = g
        /\ \A k \in 1..Len(fs) : k # d => gs[k] = fs[k]
        /\ \A k \in 1..Len(fs) : gs[k].actvar = fs[k].actvar
    BY <1>3, <1>4, FrameReplaced
  <1>6. \A k \in 1..Len(fs) : gs[k].ups = fs[k].ups
    BY <1>3, <1>5
  <1>7. UpsRight(gs)
    <2>1. ASSUME NEW k \in 1..Len(gs), NEW i \in 1..Len(gs[k].ups) PROVE UpRight(gs, k, i)
      <3>1. k \in 1..Len(fs) /\ i \in 1..Len(fs[k].ups)
        BY <1>5, <1>6
      <3>2. \A m \in 1..Len(fs) : \A j \in 1..Len(fs[m].ups) :
               j \in 1..Len(gs[m].ups) /\ gs[m].ups[j] = fs[m].ups[j]
        BY <1>6
      <3> QED BY <1>5, <3>1, <3>2, UpRightStays
    <2> QED BY <2>1 DEF UpsRight
  <1> QED BY <1>5, <1>7

LEMMA UpAddedRight ==
    ASSUME NEW fs \in Seq(Frames), UpsRight(fs), NEW d \in 1..Len(fs), d > 1, NEW up \in Ups,
           up.instack => up.idx = SearchVar(fs[d - 1], up.name) /\ SearchVar(fs[d - 1], up.name) # 0,
           ~up.instack => /\ SearchVar(fs[d - 1], up.name) = 0 /\ up.idx \in 1..Len(fs[d - 1].ups)
                          /\ fs[d - 1].ups[up.idx].name = up.name,
           NEW gs, Extended(gs, fs, d, up)
    PROVE  /\ gs \in Seq(Frames) /\ Len(gs) = Len(fs) /\ Snap(gs) = Snap(fs) /\ UpsRight(gs)
           /\ gs[d].actvar = fs[d].actvar /\ gs[d].ups = Append(fs[d].ups, up)
           /\ \A k \in 1..Len(fs) : k # d => gs[k] = fs[k]
  <1>1. PICK f : f = fs[d]  OBVIOUS
  <1>2. f \in Frames
    BY <1>1, SnapIs
  <1>3. PICK ups : ups = Append(f.ups, up)  OBVIOUS
  <1>4. /\ f.ups \in Seq(Ups) /\ ups \in Seq(Ups) /\ Len(ups) = Len(f.ups) + 1 /\ Len(f.ups) \in Nat
        /\ ups[Len(f.ups) + 1] = up /\ \A i \in 1..Len(f.ups) : ups[i] = f.ups[i]
    <2>1. f.ups \in Seq(Ups)
      BY <1>2, FrameIs
    <2> QED BY <1>3, <2>1, AppendProperties, LenProperties
  <1>5. PICK g : g = Framed(f.bl, f.actvar, ups, f.owner)  OBVIOUS
  <1>6. g.bl = f.bl /\ g.actvar = f.actvar /\ g.ups = ups /\ g.owner = f.owner
    BY <1>5 DEF Framed
  <1>7. g \in Frames
    BY <1>2, <1>4, <1>5, FrameIs DEF Framed, Frames
  <1>8. Snap1(g) = Snap1(f)
    BY <1>6 DEF Snap1
  <1>9. Replaced(gs, fs, d, g)
    <2>1. [f EXCEPT !.ups = ups] = g
      BY <1>2, <1>5, FrameExcept
    <2>2. [fs EXCEPT ![d].ups = Append(@, up)] = [fs EXCEPT ![d] = [f EXCEPT !.ups = ups]]
      BY <1>1, <1>3
    <2> QED BY <2>1, <2>2 DEF Replaced, Extended
  <1>10. /\ gs \in Seq(Frames) /\ Len(gs) = Len(fs) /\ Snap(gs) = Snap(fs) /\ gs[d] = g
         /\ \A k \in 1..Len(fs) : k # d => gs[k] = fs[k]
         /\ \A k \in 1..Len(fs) : gs[k].actvar = fs[k].actvar
    <2>1. Snap1(g) = Snap1(fs[d])
      BY <1>1, <1>8
    <2> QED BY <1>7, <1>9, <2>1, FrameReplaced
  <1>12. \A m \in 1..Len(fs) : \A j \in 1..Len(fs[m].ups) :
            j \in 1..Len(gs[m].ups) /\ gs[m].ups[j] = fs[m].ups[j]
    <2>1. ASSUME NEW m \in 1..Len(fs), NEW j \in 1..Len(fs[m].ups)
          PROVE  j \in 1..Len(gs[m].ups) /\ gs[m].ups[j] = fs[m].ups[j]
      <3>1. CASE m = d
        <4>1. gs[m].ups = ups /\ j \in 1..Len(f.ups) /\ fs[m].ups = f.ups
          BY <1>1, <1>6, <1>10, <3>1
        <4> QED BY <1>4, <4>1
      <3>2. CASE m # d
        BY <1>10, <3>2
      <3> QED BY <3>1, <3>2
    <2> QED BY <2>1
  <1>13. Len(fs) \in Nat /\ d - 1 \in 1..Len(fs) /\ d - 1 # d
    <2>1. Len(fs) \in Nat
      BY LenProperties
    <2> QED BY <2>1
  <1>14. gs[d - 1] = fs[d - 1]
    BY <1>10, <1>13
  <1>15. UpRight(gs, d, Len(f.ups) + 1)
    <2>1. gs[d].ups[Len(f.ups) + 1] = up
      BY <1>4, <1>6, <1>10
    <2> QED BY <1>14, <2>1 DEF UpRight
  <1>16. UpsRight(gs)
    <2>1. ASSUME NEW k \in 1..Len(gs), NEW i \in 1..Len(gs[k].ups) PROVE UpRight(gs, k, i)
      <3>1. k \in 1..Len(fs)
        BY <1>10
      <3>2. CASE i \in 1..Len(fs[k].ups)
        BY <1>10, <1>12, <3>1, <3>2, UpRightStays
      <3>3. CASE i \notin 1..Len(fs[k].ups)
        <4>1. k = d
          BY <1>10, <3>1, <3>3
        <4>2. gs[k].ups = ups /\ fs[k].ups = f.ups
          BY <1>1, <1>6, <1>10, <4>1
        <4>3. i = Len(f.ups) + 1
          BY <1>4, <3>3, <4>2
        <4> QED BY <1>15, <4>1, <4>3
      <3> QED BY <3>2, <3>3
    <2> QED BY <2>1 DEF UpsRight
  <1> QED BY <1>1, <1>3, <1>6, <1>10, <1>16

LEMMA KindsDiffer ==
    ASSUME NEW r
    PROVE  /\ Void(r) => ~InRegister(r) /\ ~InUpvalue(r)
           /\ InRegister(r) => ~InUpvalue(r)
  BY DEF Void, InRegister, InUpvalue

LEMMA ResultIs ==
    ASSUME NEW fs, NEW info
    PROVE  /\ Result(fs, "void", info).fs = fs /\ Result(fs, "void", info).info = info
           /\ Result(fs, "local", info).fs = fs /\ Result(fs, "local", info).info = info
           /\ Result(fs, "upval", info).fs = fs /\ Result(fs, "upval", info).info = info
           /\ Void(Result(fs, "void", info)) /\ InRegister(Result(fs, "local", info))
           /\ InUpvalue(Result(fs, "upval", info))
  BY DEF Result, Void, InRegister, InUpvalue

\* The same, told with the operators above.
LEMMA AskedNameIs ==
    ASSUME NEW fs, NEW name, NEW d, NEW r
    PROVE  /\ SearchVar(fs[d], name) # 0 =>
                \E gs : /\ IF d = Len(fs) THEN gs = fs ELSE Marked(gs, fs, d, SearchVar(fs[d], name))
                        /\ AskedName(fs, name, d, r).fs = gs /\ InRegister(AskedName(fs, name, d, r))
                        /\ AskedName(fs, name, d, r).info = SearchVar(fs[d], name)
           /\ SearchVar(fs[d], name) = 0 /\ SearchUpvalue(fs[d], name) # 0 =>
                /\ AskedName(fs, name, d, r).fs = fs /\ InUpvalue(AskedName(fs, name, d, r))
                /\ AskedName(fs, name, d, r).info = SearchUpvalue(fs[d], name)
           /\ SearchVar(fs[d], name) = 0 /\ SearchUpvalue(fs[d], name) = 0 /\ Void(r) =>
                AskedName(fs, name, d, r) = r
           /\ SearchVar(fs[d], name) = 0 /\ SearchUpvalue(fs[d], name) = 0 /\ ~Void(r) =>
                \E gs, up : /\ up.name = name /\ (up.instack <=> InRegister(r)) /\ up.idx = r.info
                            /\ up = [name |-> name, instack |-> InRegister(r), idx |-> r.info]
                            /\ Extended(gs, r.fs, d, up)
                            /\ AskedName(fs, name, d, r).fs = gs /\ InUpvalue(AskedName(fs, name, d, r))
                            /\ AskedName(fs, name, d, r).info = Len(fs[d].ups) + 1
  <1>1. PICK v : v = SearchVar(fs[d], name)  OBVIOUS
  <1>2. PICK u : u = SearchUpvalue(fs[d], name)  OBVIOUS
  <1>3. CASE v # 0
    <2>1. PICK gs : gs = IF d = Len(fs) THEN fs ELSE [fs EXCEPT ![d] = MarkUpval(@, v)]  OBVIOUS
    <2>2. AskedName(fs, name, d, r) = Result(gs, "local", v)
      BY <1>1, <1>3, <2>1, Zenon DEF AskedName
    <2>3. IF d = Len(fs) THEN gs = fs ELSE Marked(gs, fs, d, v)
      BY <2>1 DEF Marked
    <2>4. PICK a : a = Result(gs, "local", v)  OBVIOUS
    <2>5. a.fs = gs /\ a.info = v /\ InRegister(a)
      BY <2>4, ResultIs
    <2> QED BY <1>1, <1>3, <2>2, <2>3, <2>4, <2>5
  <1>4. CASE v = 0 /\ u # 0
    <2>1. AskedName(fs, name, d, r) = Result(fs, "upval", u)
      BY <1>1, <1>2, <1>4, Zenon DEF AskedName
    <2> QED BY <1>1, <1>2, <1>4, <2>1, ResultIs
  <1>5. CASE v = 0 /\ u = 0 /\ Void(r)
    BY <1>1, <1>2, <1>5, Zenon DEF AskedName, Void
  <1>6. CASE v = 0 /\ u = 0 /\ ~Void(r)
    <2>1. PICK up : up = [name |-> name, instack |-> r.k = "local", idx |-> r.info]  OBVIOUS
    <2>2. PICK gs : gs = [r.fs EXCEPT ![d].ups = Append(@, up)]  OBVIOUS
    <2>3. AskedName(fs, name, d, r) = Result(gs, "upval", Len(fs[d].ups) + 1)
      BY <1>1, <1>2, <1>6, <2>1, <2>2, Zenon DEF AskedName, Void
    <2>4. Extended(gs, r.fs, d, up)
      BY <2>2 DEF Extended
    <2>5. up = [name |-> name, instack |-> InRegister(r), idx |-> r.info]
      BY <2>1, Zenon DEF InRegister
    <2>6. up.name = name /\ (up.instack <=> InRegister(r)) /\ up.idx = r.info
      BY <2>5
    <2>7. PICK a : a = Result(gs, "upval", Len(fs[d].ups) + 1)  OBVIOUS
    <2>8. a.fs = gs /\ InUpvalue(a) /\ a.info = Len(fs[d].ups) + 1
      BY <2>7, ResultIs
    <2> QED BY <1>1, <1>2, <1>6, <2>3, <2>4, <2>5, <2>6, <2>7, <2>8
  <1> QED BY <1>1, <1>2, <1>3, <1>4, <1>5, <1>6

LEMMA AskedRight ==
    ASSUME NEW fs \in Seq(Frames), UpsRight(fs), NEW name \in VariableNames,
           NEW d \in 1..Len(fs), NEW r, Searched(r, fs, d - 1, name)
    PROVE  Searched(AskedName(fs, name, d, r), fs, d, name)
  <1>1. PICK a : a = AskedName(fs, name, d, r)  OBVIOUS
  <1>2. fs[d] \in Frames /\ Len(fs) \in Nat
    BY SnapIs
  <1>3. /\ r.fs \in Seq(Frames) /\ Len(r.fs) = Len(fs) /\ Snap(r.fs) = Snap(fs) /\ UpsRight(r.fs)
        /\ \A k \in 1..Len(fs) : k > d - 1 => r.fs[k] = fs[k]
        /\ Answered(r, d - 1, name)
    BY DEF Searched
  <1>4. r.fs[d] = fs[d] /\ \A k \in 1..Len(fs) : k > d => r.fs[k] = fs[k]
    BY <1>2, <1>3
  <1>5. CASE SearchVar(fs[d], name) # 0
    <2>1. PICK gs : /\ IF d = Len(fs) THEN gs = fs ELSE Marked(gs, fs, d, SearchVar(fs[d], name))
                    /\ a.fs = gs /\ InRegister(a) /\ a.info = SearchVar(fs[d], name)
      BY <1>1, <1>5, AskedNameIs
    <2>2. /\ gs \in Seq(Frames) /\ Len(gs) = Len(fs) /\ Snap(gs) = Snap(fs) /\ UpsRight(gs)
          /\ gs[d].actvar = fs[d].actvar
          /\ \A k \in 1..Len(fs) : k # d => gs[k] = fs[k]
      <3>1. CASE d = Len(fs)
        BY <2>1, <3>1
      <3>2. CASE d # Len(fs)
        BY <2>1, <3>2, MarkRight
      <3> QED BY <3>1, <3>2
    <2>3. SearchVar(gs[d], name) = SearchVar(fs[d], name)
      BY <2>2, SearchVarSame
    <2>4. \A k \in 1..Len(fs) : k > d => gs[k] = fs[k]
      BY <1>2, <2>2
    <2>5. Answered(a, d, name)
      BY <1>5, <2>1, <2>3 DEF Answered
    <2> QED BY <1>1, <2>1, <2>2, <2>4, <2>5 DEF Searched
  <1>6. CASE SearchVar(fs[d], name) = 0 /\ SearchUpvalue(fs[d], name) # 0
    <2>1. a.fs = fs /\ InUpvalue(a) /\ a.info = SearchUpvalue(fs[d], name)
      BY <1>1, <1>6, AskedNameIs
    <2>2. a.info \in 1..Len(fs[d].ups) /\ fs[d].ups[a.info].name = name
      BY <1>2, <1>6, <2>1, SearchUpvalueIs
    <2>3. Answered(a, d, name)
      BY <1>6, <2>1, <2>2 DEF Answered
    <2> QED BY <1>1, <2>1, <2>3 DEF Searched
  <1>7. CASE SearchVar(fs[d], name) = 0 /\ SearchUpvalue(fs[d], name) = 0 /\ Void(r)
    <2>1. a = r
      BY <1>1, <1>7, AskedNameIs
    <2>2. \A k \in 1..(d - 1) : SearchVar(r.fs[k], name) = 0
      BY <1>3, <1>7, KindsDiffer DEF Answered
    <2>3. SearchVar(r.fs[d], name) = 0
      BY <1>4, <1>7
    <2>4. \A k \in 1..d : k = d \/ k \in 1..(d - 1)
      BY <1>2
    <2>5. Answered(a, d, name)
      BY <1>7, <2>1, <2>2, <2>3, <2>4 DEF Answered
    <2> QED BY <1>1, <1>3, <1>4, <2>1, <2>5 DEF Searched
  <1>8. CASE SearchVar(fs[d], name) = 0 /\ SearchUpvalue(fs[d], name) = 0 /\ ~Void(r)
    <2>1. PICK gs, up :
             /\ up.name = name /\ (up.instack <=> InRegister(r)) /\ up.idx = r.info
             /\ up = [name |-> name, instack |-> InRegister(r), idx |-> r.info]
             /\ Extended(gs, r.fs, d, up)
             /\ a.fs = gs /\ InUpvalue(a) /\ a.info = Len(fs[d].ups) + 1
      BY <1>1, <1>8, AskedNameIs
    <2>2. d - 1 > 0 /\ (InRegister(r) \/ InUpvalue(r))
      BY <1>3, <1>8 DEF Answered
    <2>3. d > 1 /\ d - 1 \in 1..Len(r.fs) /\ d \in 1..Len(r.fs)
      BY <1>2, <1>3, <2>2
    <2>4. InRegister(r) => r.info = SearchVar(r.fs[d - 1], name) /\ SearchVar(r.fs[d - 1], name) # 0
      BY <1>3, <1>8, KindsDiffer DEF Answered
    <2>5. ~InRegister(r) => /\ SearchVar(r.fs[d - 1], name) = 0 /\ r.info \in 1..Len(r.fs[d - 1].ups)
                            /\ r.fs[d - 1].ups[r.info].name = name
      BY <1>3, <1>8 DEF Answered
    <2>6. r.info \in Nat
      <3>1. CASE InRegister(r)
        BY <1>3, <2>3, <2>4, <3>1, SearchVarIs
      <3>2. CASE ~InRegister(r)
        BY <2>5, <3>2
      <3> QED BY <3>1, <3>2
    <2>7. up \in Ups
      <3>1. InRegister(r) \in BOOLEAN
        BY DEF InRegister
      <3> QED BY <2>1, <2>6, <3>1 DEF Ups
    <2>8. /\ up.instack => up.idx = SearchVar(r.fs[d - 1], up.name) /\ SearchVar(r.fs[d - 1], up.name) # 0
          /\ ~up.instack => /\ SearchVar(r.fs[d - 1], up.name) = 0 /\ up.idx \in 1..Len(r.fs[d - 1].ups)
                            /\ r.fs[d - 1].ups[up.idx].name = up.name
      BY <2>1, <2>4, <2>5
    <2>9. /\ gs \in Seq(Frames) /\ Len(gs) = Len(r.fs) /\ Snap(gs) = Snap(r.fs) /\ UpsRight(gs)
          /\ gs[d].actvar = r.fs[d].actvar /\ gs[d].ups = Append(r.fs[d].ups, up)
          /\ \A k \in 1..Len(r.fs) : k # d => gs[k] = r.fs[k]
      <3>1. PICK hs : hs = r.fs  OBVIOUS
      <3>2. hs \in Seq(Frames) /\ UpsRight(hs) /\ d \in 1..Len(hs) /\ Extended(gs, hs, d, up)
        BY <1>3, <2>1, <2>3, <3>1
      <3>3. /\ up.instack => up.idx = SearchVar(hs[d - 1], up.name) /\ SearchVar(hs[d - 1], up.name) # 0
            /\ ~up.instack => /\ SearchVar(hs[d - 1], up.name) = 0 /\ up.idx \in 1..Len(hs[d - 1].ups)
                              /\ hs[d - 1].ups[up.idx].name = up.name
        BY <2>8, <3>1
      <3>4. /\ gs \in Seq(Frames) /\ Len(gs) = Len(hs) /\ Snap(gs) = Snap(hs) /\ UpsRight(gs)
            /\ gs[d].actvar = hs[d].actvar /\ gs[d].ups = Append(hs[d].ups, up)
            /\ \A k \in 1..Len(hs) : k # d => gs[k] = hs[k]
        BY <2>3, <2>7, <3>2, <3>3, UpAddedRight
      <3> QED BY <3>1, <3>4
    <2>10. fs[d].ups \in Seq(Ups)
      BY <1>2, FrameIs
    <2>11. /\ Len(Append(fs[d].ups, up)) = Len(fs[d].ups) + 1 /\ Len(fs[d].ups) \in Nat
           /\ Append(fs[d].ups, up)[Len(fs[d].ups) + 1] = up
      BY <2>7, <2>10, AppendProperties, LenProperties
    <2>12. a.info \in 1..Len(gs[d].ups) /\ gs[d].ups[a.info] = up
      BY <1>4, <2>1, <2>9, <2>11
    <2>13. SearchVar(gs[d], name) = 0
      <3>1. gs[d].actvar = fs[d].actvar
        BY <1>4, <2>9
      <3>2. SearchVar(gs[d], name) = SearchVar(fs[d], name)
        BY <3>1, SearchVarSame
      <3> QED BY <1>8, <3>2
    <2>14. Answered(a, d, name)
      <3>1. d > 0
        BY <2>3
      <3> QED BY <2>1, <2>12, <2>13, <3>1 DEF Answered
    <2>15. \A k \in 1..Len(fs) : k > d => gs[k] = fs[k]
      BY <1>2, <1>3, <1>4, <2>9
    <2> QED BY <1>1, <1>3, <2>1, <2>9, <2>14, <2>15 DEF Searched
  <1> QED BY <1>5, <1>6, <1>7, <1>8

LEMMA SearchRight ==
    ASSUME NEW fs \in Seq(Frames), UpsRight(fs), NEW name \in VariableNames
    PROVE  Searched(SingleVarAux(fs, name), fs, Len(fs), name)
  <1>1. Len(fs) \in Nat
    BY LenProperties
  <1>2. PICK walk : /\ SingleVarAux(fs, name) = walk[Len(fs)] /\ walk[0] = NotFound(fs)
                    /\ \A d \in 1..Len(fs) : walk[d] = AskedName(fs, name, d, walk[d - 1])
    BY <1>1, SingleVarIs
  <1> DEFINE Bad == {d \in 0..Len(fs) : ~Searched(walk[d], fs, d, name)}
  <1>3. Bad = {}
    <2>1. SUFFICES ASSUME Bad # {} PROVE FALSE  OBVIOUS
    <2>2. Bad \subseteq Nat  OBVIOUS
    <2>3. PICK d \in Bad : \A c \in Bad : d <= c
      <3> HIDE DEF Bad
      <3> QED BY <2>1, <2>2, LeastExists
    <2>4. CASE d = 0
      <3>1. NotFound(fs).fs = fs /\ Void(NotFound(fs))
        BY ResultIs DEF NotFound
      <3>2. Answered(NotFound(fs), 0, name)
        <4>1. \A k \in 1..0 : FALSE  OBVIOUS
        <4> QED BY <3>1, <4>1 DEF Answered
      <3>3. Searched(NotFound(fs), fs, 0, name)
        BY <3>1, <3>2 DEF Searched
      <3> QED BY <1>2, <2>4, <3>3
    <2>5. CASE d # 0
      <3>1. d \in 1..Len(fs) /\ d - 1 \in 0..Len(fs) /\ ~(d <= d - 1)
        BY <1>1, <2>5
      <3>2. Searched(walk[d - 1], fs, d - 1, name)
        BY <2>3, <3>1
      <3>3. Searched(walk[d], fs, d, name)
        BY <1>2, <3>1, <3>2, AskedRight
      <3> QED BY <3>3
    <2> QED BY <2>4, <2>5
  <1>4. Len(fs) \in 0..Len(fs)
    BY <1>1
  <1> QED BY <1>2, <1>3, <1>4

\* The innermost function with the name tells what the name stands for.
LEMMA MeansHere ==
    ASSUME NEW S, NEW d \in Nat \ {0}, NEW n, Has(S, d, n)
    PROVE  MeansIn(S, d, n) = S[d].actvar[Max(NamedIn(S[d].actvar, n))].at
  <1>1. PICK A : A = NamedAt(S, d, n)  OBVIOUS
  <1>2. A \subseteq 0..d /\ d \in A
    BY <1>1 DEF NamedAt, Has
  <1>3. Max(A) \in A /\ \A c \in A : c <= Max(A)
    BY <1>2, MaxIs
  <1>4. Max(A) = d
    <2>1. Max(A) \in 0..d /\ d <= Max(A)
      BY <1>2, <1>3
    <2> QED BY <2>1
  <1>5. A # {}
    BY <1>2
  <1> QED BY <1>1, <1>4, <1>5 DEF MeansIn

LEMMA MeansBelow ==
    ASSUME NEW S, NEW d \in Nat \ {0}, NEW n, ~Has(S, d, n)
    PROVE  MeansIn(S, d, n) = MeansIn(S, d - 1, n)
  <1>1. NamedAt(S, d, n) = NamedAt(S, d - 1, n)
    <2>1. \A k \in 1..d : k = d \/ k \in 1..(d - 1)  OBVIOUS
    <2>2. \A k \in 1..(d - 1) : k \in 1..d  OBVIOUS
    <2> QED BY <2>1, <2>2 DEF NamedAt, Has
  <1> QED BY <1>1 DEF MeansIn

LEMMA MeansNothing ==
    ASSUME NEW S, NEW d \in Nat, NEW n, \A k \in 1..d : ~Has(S, k, n)
    PROVE  MeansIn(S, d, n) = 0
  <1>1. NamedAt(S, d, n) = {}
    BY DEF NamedAt, Has
  <1> QED BY <1>1 DEF MeansIn

LEMMA UpsExist ==
    ASSUME NEW fs, NEW n \in Nat
    PROVE  \E walk : IsUps(walk, fs, n)
  <1> DEFINE Is(walk, d) == IsUps(walk, fs, d)
             Bad == {d \in 0..n : ~ \E walk : Is(walk, d)}
  <1>1. Bad = {}
    <2>1. SUFFICES ASSUME Bad # {} PROVE FALSE  OBVIOUS
    <2>2. Bad \subseteq Nat  OBVIOUS
    <2>3. PICK d \in Bad : \A c \in Bad : d <= c
      <3> HIDE DEF Bad
      <3> QED BY <2>1, <2>2, LeastExists
    <2>4. CASE d = 0
      <3>1. PICK walk : walk = [i \in 0..0 |-> << >>]  OBVIOUS
      <3>2. walk = [i \in 0..0 |-> IF i = 0 THEN << >> ELSE UpsAt(fs, i, walk[i - 1])]
        BY <3>1
      <3>3. Is(walk, 0)
        BY <3>2 DEF IsUps
      <3> QED BY <2>4, <3>3
    <2>5. CASE d # 0
      <3>0. d \in 0..n /\ d - 1 \in 0..n /\ ~(d <= d - 1)
        BY <2>5
      <3>1. d - 1 \notin Bad
        BY <2>3, <3>0
      <3>2. PICK walk : Is(walk, d - 1)
        BY <3>0, <3>1
      <3>3. PICK more : more = [i \in 0..d |-> IF i = d THEN UpsAt(fs, d, walk[d - 1]) ELSE walk[i]]
        OBVIOUS
      <3>4. ASSUME NEW i \in 0..d
            PROVE  more[i] = IF i = 0 THEN << >> ELSE UpsAt(fs, i, more[i - 1])
        <4>1. CASE i = d
          <5>1. d - 1 \in 0..d /\ d - 1 # d
            BY <3>0
          <5>2. more[d - 1] = walk[d - 1]
            BY <3>3, <5>1
          <5> QED BY <2>5, <3>3, <4>1, <5>2
        <4>2. CASE i # d
          <5>1. i \in 0..(d - 1)
            BY <4>2
          <5>2. walk[i] = IF i = 0 THEN << >> ELSE UpsAt(fs, i, walk[i - 1])
            BY <3>2, <5>1 DEF IsUps
          <5>3. more[i] = walk[i]
            BY <3>3, <4>2
          <5>4. CASE i = 0
            BY <5>2, <5>3, <5>4
          <5>5. CASE i # 0
            <6>1. i - 1 \in 0..d /\ i - 1 # d
              BY <5>1, <5>5
            <6>2. more[i - 1] = walk[i - 1]
              BY <3>3, <6>1
            <6> QED BY <5>2, <5>3, <5>5, <6>2
          <5> QED BY <5>4, <5>5
        <4> QED BY <4>1, <4>2
      <3>5. DOMAIN more = 0..d /\ more = [i \in DOMAIN more |-> more[i]]
        BY <3>3
      <3>6. more = [i \in 0..d |-> IF i = 0 THEN << >> ELSE UpsAt(fs, i, more[i - 1])]
        BY <3>4, <3>5
      <3>7. Is(more, d)
        BY <3>6 DEF IsUps
      <3> QED BY <3>7
    <2> QED BY <2>4, <2>5
  <1> QED BY <1>1

LEMMA UpvaluesAre ==
    ASSUME NEW fs \in Seq(Frames), UpsRight(fs)
    PROVE  \A d \in 1..Len(fs) : Upvalues(fs)[d] = UpsAt(fs, d, Upvalues(fs)[d - 1])
  <1>1. Len(fs) \in Nat /\ DOMAIN fs = 1..Len(fs)
    BY LenProperties
  <1> DEFINE IsOf(Of) ==
               Of = [d \in DOMAIN fs |->
                       [i \in DOMAIN fs[d].ups |->
                          LET up == fs[d].ups[i]
                          IN  IF up.instack THEN fs[d - 1].actvar[up.idx].at ELSE Of[d - 1][up.idx]]]
  <1>2. Upvalues(fs) = CHOOSE Of : IsOf(Of)
    BY Zenon DEF Upvalues
  <1>3. ASSUME NEW Of PROVE IsOf(Of) <=> Of = [d \in DOMAIN fs |-> UpsAt(fs, d, Of[d - 1])]
    BY Zenon DEF UpsAt
  <1> HIDE DEF IsOf
  <1>4. PICK walk : IsUps(walk, fs, Len(fs))
    BY <1>1, UpsExist
  <1>5. PICK of : of = [d \in DOMAIN fs |-> walk[d]]  OBVIOUS
  <1>6. ASSUME NEW d \in DOMAIN fs PROVE of[d] = UpsAt(fs, d, of[d - 1])
    <2>1. of[d] = UpsAt(fs, d, walk[d - 1])
      <3>1. d \in 0..Len(fs) /\ d # 0
        BY <1>1
      <3> QED BY <1>4, <1>5, <3>1 DEF IsUps
    <2>2. CASE d = 1
      <3>1. DOMAIN fs[d].ups = {}
        <4>1. fs[d] \in Frames
          BY <1>1, SnapIs
        <4>2. DOMAIN fs[d].ups = 1..Len(fs[d].ups)
          BY <4>1, FrameIs, LenProperties
        <4>3. \A i \in 1..Len(fs[d].ups) : FALSE
          BY <1>1, <2>2 DEF UpsRight, UpRight
        <4> QED BY <4>2, <4>3
      <3>2. \A b, c : UpsAt(fs, d, b) = UpsAt(fs, d, c)
        BY <3>1 DEF UpsAt
      <3> QED BY <2>1, <3>2
    <2>3. CASE d # 1
      <3>1. d - 1 \in DOMAIN fs
        BY <1>1, <2>3
      <3>2. of[d - 1] = walk[d - 1]
        BY <1>5, <3>1
      <3> QED BY <2>1, <3>2
    <2> QED BY <2>2, <2>3
  <1>7. of = [d \in DOMAIN fs |-> UpsAt(fs, d, of[d - 1])]
    <2>1. DOMAIN of = DOMAIN fs /\ of = [d \in DOMAIN of |-> of[d]]
      BY <1>5
    <2> QED BY <1>6, <2>1
  <1>8. IsOf(Upvalues(fs))
    <2>1. IsOf(of)
      BY <1>3, <1>7
    <2> QED BY <1>2, <2>1
  <1>9. PICK Of : Of = Upvalues(fs)  OBVIOUS
  <1>10. Of = [d \in DOMAIN fs |-> UpsAt(fs, d, Of[d - 1])]
    BY <1>3, <1>8, <1>9
  <1> QED BY <1>1, <1>9, <1>10

\* An upvalue stands for what its name stands for in the function around it.
LEMMA UpvaluesMean ==
    ASSUME NEW fs \in Seq(Frames), UpsRight(fs)
    PROVE  \A d \in 1..Len(fs) : \A i \in 1..Len(fs[d].ups) :
               Upvalues(fs)[d][i] = MeansIn(Snap(fs), d - 1, fs[d].ups[i].name)
  <1>1. Len(fs) \in Nat /\ Snap(fs) \in Seq(Snaps) /\ Len(Snap(fs)) = Len(fs)
    BY SnapIs
  <1>2. PICK S : S = Snap(fs)  OBVIOUS
  <1>3. PICK Of : Of = Upvalues(fs)  OBVIOUS
  <1> DEFINE Right(d) == \A i \in 1..Len(fs[d].ups) : Of[d][i] = MeansIn(S, d - 1, fs[d].ups[i].name)
             Bad == {d \in 1..Len(fs) : ~Right(d)}
  <1>4. Bad = {}
    <2>1. SUFFICES ASSUME Bad # {} PROVE FALSE  OBVIOUS
    <2>2. Bad \subseteq Nat  OBVIOUS
    <2>3. PICK d \in Bad : \A c \in Bad : d <= c
      <3> HIDE DEF Bad
      <3> QED BY <2>1, <2>2, LeastExists
    <2>4. d \in 1..Len(fs)  OBVIOUS
    <2>5. ASSUME NEW i \in 1..Len(fs[d].ups)
          PROVE  Of[d][i] = MeansIn(S, d - 1, fs[d].ups[i].name)
      <3>1. PICK u : u = fs[d].ups[i]  OBVIOUS
      <3>2. fs[d] \in Frames
        BY <2>4, SnapIs
      <3>3. DOMAIN fs[d].ups = 1..Len(fs[d].ups)
        BY <3>2, FrameIs, LenProperties
      <3>4. Of[d] = UpsAt(fs, d, Of[d - 1])
        BY <1>3, <2>4, UpvaluesAre
      <3>5. Of[d][i] = IF u.instack THEN fs[d - 1].actvar[u.idx].at ELSE Of[d - 1][u.idx]
        BY <3>1, <3>3, <3>4 DEF UpsAt
      <3>6. UpRight(fs, d, i)
        BY <2>4 DEF UpsRight
      <3>7. d > 1
        BY <3>6 DEF UpRight
      <3>8. d - 1 \in 1..Len(fs) /\ d - 1 \in Nat \ {0} /\ ~(d <= d - 1)
        BY <1>1, <2>4, <3>7
      <3>9. PICK v : v = SearchVar(fs[d - 1], u.name)  OBVIOUS
      <3>10. /\ u.instack => u.idx = v /\ v # 0
             /\ ~u.instack => v = 0 /\ u.idx \in 1..Len(fs[d - 1].ups) /\ fs[d - 1].ups[u.idx].name = u.name
        BY <3>1, <3>6, <3>9 DEF UpRight
      <3>11. /\ v = 0 <=> ~Has(S, d - 1, u.name)
             /\ v # 0 => v = Max(NamedIn(S[d - 1].actvar, u.name))
        BY <1>2, <3>8, <3>9, SearchVarIs
      <3>12. CASE u.instack
        <4>1. S[d - 1].actvar = fs[d - 1].actvar
          <5>1. S[d - 1] = Snap1(fs[d - 1])
            BY <1>2, <3>8, SnapIs
          <5> QED BY <5>1 DEF Snap1
        <4>2. MeansIn(S, d - 1, u.name) = S[d - 1].actvar[Max(NamedIn(S[d - 1].actvar, u.name))].at
          BY <3>8, <3>10, <3>11, <3>12, MeansHere
        <4> QED BY <3>1, <3>5, <3>10, <3>11, <3>12, <4>1, <4>2
      <3>13. CASE ~u.instack
        <4>1. MeansIn(S, d - 1, u.name) = MeansIn(S, d - 1 - 1, u.name)
          BY <3>8, <3>10, <3>11, <3>13, MeansBelow
        <4>2. d - 1 \notin Bad
          BY <2>3, <3>8
        <4>3. Right(d - 1)
          BY <3>8, <4>2
        <4>4. Of[d - 1][u.idx] = MeansIn(S, d - 1 - 1, fs[d - 1].ups[u.idx].name)
          BY <3>10, <3>13, <4>3
        <4> QED BY <3>1, <3>5, <3>10, <3>13, <4>1, <4>4
      <3> QED BY <3>12, <3>13
    <2> QED BY <2>5
  <1> QED BY <1>2, <1>3, <1>4

\* What the search finds is the variable that the name stands for.
LEMMA DenotesRight ==
    ASSUME NEW fs \in Seq(Frames), fs # << >>, UpsRight(fs), NEW name \in VariableNames
    PROVE  Denotes(SingleVarAux(fs, name)) = MeansIn(Snap(fs), Len(fs), name)
  <1>1. PICK r : r = SingleVarAux(fs, name)  OBVIOUS
  <1>2. PICK d : d = Len(fs)  OBVIOUS
  <1>3. PICK gs : gs = r.fs  OBVIOUS
  <1>4. PICK S : S = Snap(fs)  OBVIOUS
  <1>5. d \in Nat \ {0}
    BY <1>2, FrontIs
  <1>6. gs \in Seq(Frames) /\ Len(gs) = d /\ Snap(gs) = S /\ UpsRight(gs) /\ Answered(r, d, name)
    BY <1>1, <1>2, <1>3, <1>4, SearchRight DEF Searched
  <1>7. \A k \in 1..d : /\ SearchVar(gs[k], name) = 0 <=> ~Has(S, k, name)
                        /\ SearchVar(gs[k], name) # 0 =>
                             SearchVar(gs[k], name) = Max(NamedIn(S[k].actvar, name))
    BY <1>6, SearchVarIs
  <1>8. d \in 1..d
    BY <1>5
  <1>9. S[d].actvar = gs[d].actvar
    <2>1. S[d] = Snap1(gs[d])
      BY <1>6, <1>8, SnapIs
    <2> QED BY <2>1 DEF Snap1
  <1>10. CASE Void(r)
    <2>1. \A k \in 1..d : SearchVar(gs[k], name) = 0
      BY <1>3, <1>6, <1>10, KindsDiffer DEF Answered
    <2>2. MeansIn(S, d, name) = 0
      BY <1>5, <1>7, <2>1, MeansNothing
    <2>3. Denotes(r) = 0
      BY <1>10 DEF Denotes, Void
    <2> QED BY <1>1, <1>2, <1>4, <2>2, <2>3
  <1>11. CASE InRegister(r)
    <2>1. r.info = SearchVar(gs[d], name) /\ r.info # 0
      BY <1>3, <1>6, <1>11, KindsDiffer DEF Answered
    <2>2. MeansIn(S, d, name) = S[d].actvar[Max(NamedIn(S[d].actvar, name))].at
      BY <1>5, <1>7, <1>8, <2>1, MeansHere
    <2>3. Denotes(r) = Last(r.fs).actvar[r.info].at
      BY <1>11 DEF Denotes, InRegister
    <2>4. Last(r.fs) = gs[d]
      BY <1>3, <1>6 DEF Last
    <2> QED BY <1>1, <1>2, <1>4, <1>7, <1>8, <1>9, <2>1, <2>2, <2>3, <2>4
  <1>12. CASE InUpvalue(r)
    <2>1. SearchVar(gs[d], name) = 0 /\ r.info \in 1..Len(gs[d].ups) /\ gs[d].ups[r.info].name = name
      BY <1>3, <1>6, <1>12, KindsDiffer DEF Answered
    <2>2. MeansIn(S, d, name) = MeansIn(S, d - 1, name)
      BY <1>5, <1>7, <1>8, <2>1, MeansBelow
    <2>3. Denotes(r) = Upvalues(r.fs)[Len(r.fs)][r.info]
      BY <1>12 DEF Denotes, InUpvalue
    <2>4. Upvalues(gs)[d][r.info] = MeansIn(Snap(gs), d - 1, gs[d].ups[r.info].name)
      BY <1>6, <1>8, <2>1, UpvaluesMean
    <2> QED BY <1>1, <1>2, <1>3, <1>4, <1>6, <2>1, <2>2, <2>3, <2>4
  <1>13. Void(r) \/ InRegister(r) \/ InUpvalue(r)
    BY <1>6 DEF Answered
  <1> QED BY <1>10, <1>11, <1>12, <1>13

\* So a use of a name changes nothing of what the functions tell.
LEMMA UseSound ==
    ASSUME NEW P, NEW S, Reads(P, S), NEW name \in VariableNames
    PROVE  /\ Reads([P EXCEPT !.fs = SingleVarAux(P.fs, name).fs], S)
           /\ Denotes(SingleVarAux(P.fs, name)) = MeansIn(S, Len(S), name)
  <1>1. Lists(P) /\ P.fs \in Seq(Frames) /\ P.fs # << >> /\ UpsRight(P.fs) /\ Snap(P.fs) = S
    BY DEF Reads, Parser
  <1>2. PICK gs : gs = SingleVarAux(P.fs, name).fs  OBVIOUS
  <1>3. gs \in Seq(Frames) /\ Len(gs) = Len(P.fs) /\ Snap(gs) = S /\ UpsRight(gs)
    BY <1>1, <1>2, SearchRight DEF Searched
  <1>4. Len(S) = Len(P.fs)
    BY <1>1, SnapIs
  <1>5. gs # << >>
    <2>1. Len(P.fs) # 0 /\ Len(<< >>) = 0
      BY <1>1, FrontIs
    <2> QED BY <1>3, <2>1
  <1>6. PICK Q : Q = State(gs, P.label, P.gt, P.jump, P.closes, P.error)  OBVIOUS
  <1>7. [P EXCEPT !.fs = gs] = Q
    BY <1>1, <1>6, StateIs
  <1>8. Q.fs = gs /\ Q.label = P.label /\ Q.gt = P.gt /\ Q.jump = P.jump /\ Q.closes = P.closes
        /\ Q.error = P.error
    BY <1>6 DEF State
  <1>9. Lists(Q)
    BY <1>1, <1>6, <1>8 DEF Lists
  <1>10. Reads(Q, S)
    BY <1>3, <1>5, <1>8, <1>9 DEF Reads, Parser
  <1> QED BY <1>1, <1>2, <1>4, <1>7, <1>10, DenotesRight

----------------------------------------------------------------------------
(* The statements.                                                         *)

\* What has no error now has had none.
LEMMA FineBefore ==
    ASSUME NEW P, Lists(P)
    PROVE  /\ Fine(LeaveBlock(P)) => Fine(P)
           /\ Fine(CloseFunc(P)) => Fine(P)
  <1>1. ~Fine(P) => LeaveBlock(P) = P
    BY Zenon DEF LeaveBlock, Fine
  <1>2. ASSUME ~Fine(P) PROVE ~Fine(CloseFunc(P))
    <2>1. P.error # ""
      BY <1>2 DEF Fine
    <2>2. CloseFunc(P) = [P EXCEPT !.fs = P.fs]
      BY <1>1, <1>2, <2>1, Zenon DEF CloseFunc
    <2>3. PICK x : x = P.fs  OBVIOUS
    <2>4. [P EXCEPT !.fs = x] = State(x, P.label, P.gt, P.jump, P.closes, P.error)
      BY StateIs
    <2>5. State(x, P.label, P.gt, P.jump, P.closes, P.error).error = P.error
      BY DEF State
    <2> QED BY <2>1, <2>2, <2>3, <2>4, <2>5 DEF Fine
  <1> QED BY <1>1, <1>2

LEMMA UntilSound ==
    ASSUME NEW P, NEW S, Reads(P, S), LeaveS(S) \in Seq(Snaps), Fine(P), Fine(Until(P))
    PROVE  Reads(Until(P), LeaveS(S))
  <1>1. PICK x : x = P.closes \union (IF BL(P).upval
                                      THEN {[at |-> Pos, level |-> BL(P).nactvar, back |-> TRUE]} ELSE {})
    OBVIOUS
  <1>2. PICK Q : Q = [P EXCEPT !.closes = x]  OBVIOUS
  <1>3. Until(P) = LeaveBlock(Q)
    BY <1>1, <1>2, Zenon DEF Until
  <1>4. Lists(P) /\ P.fs \in Seq(Frames) /\ P.fs # << >> /\ UpsRight(P.fs) /\ Snap(P.fs) = S
    BY DEF Reads, Parser
  <1>5. Q = State(P.fs, P.label, P.gt, P.jump, x, P.error)
    BY <1>2, <1>4, StateIs
  <1>6. Q.fs = P.fs /\ Q.label = P.label /\ Q.gt = P.gt /\ Q.jump = P.jump /\ Q.closes = x /\ Q.error = P.error
    BY <1>5 DEF State
  <1>7. Lists(Q)
    BY <1>4, <1>5, <1>6 DEF Lists
  <1>8. Reads(Q, S) /\ Fine(Q)
    BY <1>4, <1>6, <1>7 DEF Reads, Parser, Fine
  <1> QED BY <1>3, <1>8, LeaveSound

\* Leaving what was entered, whatever variables it has had.
LEMMA LeaveEnteredSound ==
    ASSUME NEW P, NEW S \in Seq(Snaps), S # << >>, NEW vs \in Seq(Vars), Reads(P, AddS(EnterS(S), vs)),
           Fine(LeaveBlock(P))
    PROVE  Reads(LeaveBlock(P), S) /\ Fine(P)
  <1>1. LeaveS(AddS(EnterS(S), vs)) = S
    BY LeaveEnter
  <1>2. Lists(P)
    BY DEF Reads, Parser
  <1>3. Fine(P)
    BY <1>2, FineBefore
  <1> QED BY <1>1, <1>3, LeaveSound

LEMMA LeaveEmptySound ==
    ASSUME NEW P, NEW S \in Seq(Snaps), S # << >>, Reads(P, EnterS(S)), Fine(LeaveBlock(P))
    PROVE  Reads(LeaveBlock(P), S) /\ Fine(P)
  <1>1. LeaveS(EnterS(S)) = S
    <2>1. << >> \in Seq(Vars)
      BY EmptySeq
    <2> QED BY <2>1, LeaveEnter
  <1>2. Lists(P)
    BY DEF Reads, Parser
  <1>3. Fine(P)
    BY <1>2, FineBefore
  <1> QED BY <1>1, <1>3, LeaveSound

LEMMA LeaveLists ==
    ASSUME NEW P, NEW S, Reads(P, S), Fine(P)
    PROVE  Lists(LeaveBlock(P))
  BY LeaveIs DEF Reads

LEMMA EndSound ==
    ASSUME NEW S \in Seq(Snaps), S # << >>, NEW vs \in Seq(Vars), NEW kind \in Openings,
           NEW n, kind \in {"for", "local function", "local = function"} => n \in VariableNames,
           NEW o \in Nat,
           NEW P, Reads(P, AddS(After(S, kind, n, o), vs)), Fine(P),
           Fine(EndBlock(P, kind)), EndBlock(P, kind).fs # << >>
    PROVE  Reads(EndBlock(P, kind), AddS(S, Staying(kind, n, o)))
  <1>1. << >> \in Seq(Vars) /\ EnterS(S) \in Seq(Snaps) /\ EnterS(S) # << >> /\ AddS(S, << >>) = S
    <2>1. << >> \in Seq(Vars)
      BY EmptySeq
    <2> QED BY <2>1, StackTypes
  <1>2. PICK T : T = AddS(After(S, kind, n, o), vs)  OBVIOUS
  <1>3. Reads(P, T)
    BY <1>2
  <1>4. CASE kind = "do"
    <2>1. EndBlock(P, kind) = LeaveBlock(P)
      BY <1>4 DEF EndBlock
    <2>2. T = AddS(EnterS(S), vs)
      BY <1>2, <1>4 DEF After
    <2>3. Reads(LeaveBlock(P), S)
      BY <1>3, <2>1, <2>2, LeaveEnteredSound
    <2>4. Staying(kind, n, o) = << >>
      BY <1>4 DEF Staying
    <2> QED BY <1>1, <2>1, <2>3, <2>4
  <1>5. CASE kind = "while"
    <2>1. EndBlock(P, kind) = LeaveBlock(LeaveBlock(P))
      BY <1>5 DEF EndBlock
    <2>2. T = AddS(EnterS(EnterS(S)), vs)
      BY <1>2, <1>5 DEF After
    <2>3. Lists(LeaveBlock(P))
      BY <1>3, LeaveLists
    <2>4. Fine(LeaveBlock(P))
      BY <2>1, <2>3, FineBefore
    <2>5. Reads(LeaveBlock(P), EnterS(S))
      BY <1>1, <1>3, <2>2, <2>4, LeaveEnteredSound
    <2>6. Reads(LeaveBlock(LeaveBlock(P)), S)
      BY <2>1, <2>5, LeaveEmptySound
    <2>7. Staying(kind, n, o) = << >>
      BY <1>5 DEF Staying
    <2> QED BY <1>1, <2>1, <2>6, <2>7
  <1>6. CASE kind = "repeat"
    <2>1. EndBlock(P, kind) = LeaveBlock(Until(P))
      BY <1>6 DEF EndBlock
    <2>2. T = AddS(EnterS(EnterS(S)), vs)
      BY <1>2, <1>6 DEF After
    <2>3. Lists(Until(P))
      <3>1. PICK x : x = P.closes \union (IF BL(P).upval
                                          THEN {[at |-> Pos, level |-> BL(P).nactvar, back |-> TRUE]} ELSE {})
        OBVIOUS
      <3>2. PICK Q : Q = [P EXCEPT !.closes = x]  OBVIOUS
      <3>3. Until(P) = LeaveBlock(Q)
        BY <3>1, <3>2, Zenon DEF Until
      <3>4. Lists(P) /\ P.fs \in Seq(Frames) /\ P.fs # << >>
        BY DEF Reads, Parser
      <3>5. Q = State(P.fs, P.label, P.gt, P.jump, x, P.error)
        BY <3>2, <3>4, StateIs
      <3>6. Q.fs = P.fs /\ Q.label = P.label /\ Q.gt = P.gt /\ Q.jump = P.jump /\ Q.closes = x
            /\ Q.error = P.error
        BY <3>5 DEF State
      <3>7. Lists(Q)
        BY <3>4, <3>5, <3>6 DEF Lists
      <3>8. Parser(Q) /\ Fine(Q)
        BY <3>4, <3>6, <3>7 DEF Parser, Fine
      <3> QED BY <3>3, <3>8, LeaveIs
    <2>4. Fine(Until(P))
      BY <2>1, <2>3, FineBefore
    <2>5. LeaveS(T) = EnterS(S)
      BY <1>1, <2>2, LeaveEnter
    <2>6. Reads(Until(P), EnterS(S))
      BY <1>1, <1>3, <2>4, <2>5, UntilSound
    <2>7. Reads(LeaveBlock(Until(P)), S)
      BY <2>1, <2>6, LeaveEmptySound
    <2>8. Staying(kind, n, o) = << >>
      BY <1>6 DEF Staying
    <2> QED BY <1>1, <2>1, <2>7, <2>8
  <1>7. CASE kind = "for"
    <2>1. EndBlock(P, kind) = LeaveBlock(LeaveBlock(LeaveBlock(P)))
      BY <1>7 DEF EndBlock
    <2>2. PICK A : A = AddS(EnterS(S), Controls)  OBVIOUS
    <2>3. PICK B : B = AddS(EnterS(A), <<VarAt(n, o)>>)  OBVIOUS
    <2>4. T = AddS(EnterS(B), vs)
      BY <1>2, <1>7, <2>2, <2>3 DEF After
    <2>5. <<VarAt(n, o)>> \in Seq(Vars)
      BY <1>7, VarAtIs
    <2>6. A \in Seq(Snaps) /\ A # << >>
      BY <1>1, <2>2, ControlsAre, StackTypes
    <2>7. EnterS(A) \in Seq(Snaps) /\ EnterS(A) # << >>
      BY <1>1, <2>6, StackTypes
    <2>8. B \in Seq(Snaps) /\ B # << >>
      BY <2>3, <2>5, <2>7, StackTypes
    <2>9. Lists(LeaveBlock(P))
      BY <1>3, LeaveLists
    <2>10. Fine(LeaveBlock(P)) => Reads(LeaveBlock(P), B)
      BY <1>3, <2>4, <2>8, LeaveEnteredSound
    <2>11. Fine(LeaveBlock(P)) => Lists(LeaveBlock(LeaveBlock(P)))
      BY <2>10, LeaveLists
    <2>12. ~Fine(LeaveBlock(P)) => LeaveBlock(LeaveBlock(P)) = LeaveBlock(P)
      BY Zenon DEF LeaveBlock, Fine
    <2>13. Lists(LeaveBlock(LeaveBlock(P)))
      BY <2>9, <2>11, <2>12
    <2>14. Fine(LeaveBlock(LeaveBlock(P)))
      BY <2>1, <2>13, FineBefore
    <2>15. Fine(LeaveBlock(P))
      BY <2>9, <2>14, FineBefore
    <2>16. Reads(LeaveBlock(LeaveBlock(P)), A)
      BY <2>3, <2>5, <2>6, <2>10, <2>14, <2>15, LeaveEnteredSound
    <2>17. Reads(LeaveBlock(LeaveBlock(LeaveBlock(P))), S)
      BY <2>1, <2>2, <2>16, ControlsAre, LeaveEnteredSound
    <2>18. Staying(kind, n, o) = << >>
      BY <1>7 DEF Staying
    <2> QED BY <1>1, <2>1, <2>17, <2>18
  <1>8. CASE kind \in Functions
    <2>1. EndBlock(P, kind) = CloseFunc(P)
      BY <1>8 DEF EndBlock, Functions
    <2>2. Reads(CloseFunc(P), AddS(Front(T), Last(T).owner))
      BY <1>3, <2>1, CloseSound
    <2>3. Ended(T, kind) = AddS(Front(T), Last(T).owner)
      BY <1>8 DEF Ended, Functions
    <2>4. Ended(T, kind) = AddS(S, Staying(kind, n, o))
      BY <1>2, EndUndoes
    <2> QED BY <2>1, <2>2, <2>3, <2>4
  <1> QED BY <1>4, <1>5, <1>6, <1>7, <1>8 DEF Openings

\* The main function has none around it.
LEMMA MainEnds ==
    ASSUME NEW P, NEW S \in Seq(Snaps), Len(S) = 1, Reads(P, S), Fine(P), Fine(CloseFunc(P))
    PROVE  CloseFunc(P).fs = << >>
  <1>1. SUFFICES ASSUME CloseFunc(P).fs # << >> PROVE FALSE  OBVIOUS
  <1>2. Front(S) \in Seq(Snaps) /\ Front(S) # << >>
    BY <1>1, CloseSound
  <1>3. S # << >>  OBVIOUS
  <1>4. Len(Front(S)) = 0
    BY <1>3, FrontIs
  <1> QED BY <1>2, <1>4, EmptySeq

LEMMA OpenBlockSound ==
    ASSUME NEW S, NEW P, Reads(P, S), NEW kind \in Openings,
           NEW n, kind \in {"for", "local function", "local = function"} => n \in VariableNames,
           NEW o \in Nat
    PROVE  Reads(OpenBlock(P, kind, n, o), After(S, kind, n, o))
  <1>1. << >> \in Seq(Vars)
    BY EmptySeq
  <1>2. CASE kind = "do"
    <2>1. OpenBlock(P, kind, n, o) = EnterBlock(P, FALSE) /\ After(S, kind, n, o) = EnterS(S)
      BY <1>2 DEF OpenBlock, After
    <2> QED BY <2>1, EnterSound
  <1>3. CASE kind \in {"while", "repeat"}
    <2>1. /\ OpenBlock(P, kind, n, o) = EnterBlock(EnterBlock(P, TRUE), FALSE)
          /\ After(S, kind, n, o) = EnterS(EnterS(S))
      BY <1>3 DEF OpenBlock, After
    <2>2. Reads(EnterBlock(P, TRUE), EnterS(S))
      BY EnterSound
    <2> QED BY <2>1, <2>2, EnterSound
  <1>4. CASE kind = "for"
    <2>1. PICK control : control = AdjustLocalVars(EnterBlock(P, TRUE), Controls)  OBVIOUS
    <2>2. PICK scope : scope = AdjustLocalVars(EnterBlock(control, FALSE), <<VarAt(n, o)>>)  OBVIOUS
    <2>3. /\ OpenBlock(P, kind, n, o) = EnterBlock(scope, FALSE)
          /\ After(S, kind, n, o) = EnterS(AddS(EnterS(AddS(EnterS(S), Controls)), <<VarAt(n, o)>>))
      BY <1>4, <2>1, <2>2 DEF OpenBlock, After
    <2>4. <<VarAt(n, o)>> \in Seq(Vars)
      BY <1>4, VarAtIs
    <2>5. Reads(EnterBlock(P, TRUE), EnterS(S))
      BY EnterSound
    <2>6. Reads(control, AddS(EnterS(S), Controls))
      BY <2>1, <2>5, ControlsAre, AddSound
    <2>7. Reads(EnterBlock(control, FALSE), EnterS(AddS(EnterS(S), Controls)))
      BY <2>6, EnterSound
    <2>8. Reads(scope, AddS(EnterS(AddS(EnterS(S), Controls)), <<VarAt(n, o)>>))
      BY <2>2, <2>4, <2>7, AddSound
    <2> QED BY <2>3, <2>8, EnterSound
  <1>5. CASE kind = "function"
    <2>1. OpenBlock(P, kind, n, o) = OpenFunc(P, << >>) /\ After(S, kind, n, o) = OpenS(S, << >>)
      BY <1>5 DEF OpenBlock, After
    <2> QED BY <1>1, <2>1, OpenSound
  <1>6. CASE kind = "local function"
    <2>1. /\ OpenBlock(P, kind, n, o) = OpenFunc(AdjustLocalVars(P, <<VarAt(n, o)>>), << >>)
          /\ After(S, kind, n, o) = OpenS(AddS(S, <<VarAt(n, o)>>), << >>)
      BY <1>6 DEF OpenBlock, After
    <2>2. <<VarAt(n, o)>> \in Seq(Vars)
      BY <1>6, VarAtIs
    <2>3. Reads(AdjustLocalVars(P, <<VarAt(n, o)>>), AddS(S, <<VarAt(n, o)>>))
      BY <2>2, AddSound
    <2> QED BY <1>1, <2>1, <2>3, OpenSound
  <1>7. CASE kind = "local = function"
    <2>1. OpenBlock(P, kind, n, o) = OpenFunc(P, <<VarAt(n, o)>>) /\ After(S, kind, n, o) = OpenS(S, <<VarAt(n, o)>>)
      BY <1>7 DEF OpenBlock, After
    <2>2. <<VarAt(n, o)>> \in Seq(Vars)
      BY <1>7, VarAtIs
    <2> QED BY <2>1, <2>2, OpenSound
  <1> QED BY <1>2, <1>3, <1>4, <1>5, <1>6, <1>7 DEF Openings, Functions

LEMMA AlikeSound ==
    ASSUME NEW P, NEW S, Reads(P, S), NEW Q, Alike(Q, P)
    PROVE  Reads(Q, S)
  BY DEF Reads, Parser, Alike

\* A goto, and its jump.
LEMMA GotoSound ==
    ASSUME NEW P, NEW S, Reads(P, S), NEW jump, NEW Q, Q = [P EXCEPT !.jump = jump], NEW gd
    PROVE  Reads(Pend(Q, gd), S) /\ Reads(FindLabel(Q, gd), S)
  <1>1. Lists(P)
    BY DEF Reads, Parser
  <1>2. Q = State(P.fs, P.label, P.gt, jump, P.closes, P.error)
    BY <1>1, StateIs
  <1>3. Alike(Q, P)
    <2>1. Sequence(P.gt)
      BY <1>1 DEF Lists
    <2> QED BY <1>1, <1>2, <2>1, StateAlike
  <1>4. Lists(Q)
    BY <1>3 DEF Alike
  <1>5. Alike(Pend(Q, gd), Q) /\ Alike(FindLabel(Q, gd), Q)
    BY <1>4, JumpAlike, FindLabelAlike
  <1>6. Alike(Pend(Q, gd), P) /\ Alike(FindLabel(Q, gd), P)
    BY <1>3, <1>5, AlikeTwice
  <1> QED BY <1>6, AlikeSound

\* A label, and the gotos that it closes.
LEMMA LabelSound ==
    ASSUME NEW P, NEW S, Reads(P, S), NEW lb
    PROVE  Reads(FindGotos([P EXCEPT !.label = Append(@, lb)], lb), S)
  <1>1. Lists(P) /\ P.fs \in Seq(Frames) /\ P.fs # << >> /\ UpsRight(P.fs) /\ Snap(P.fs) = S
    BY DEF Reads, Parser
  <1>2. PICK x : x = Append(P.label, lb)  OBVIOUS
  <1>3. PICK Q : Q = [P EXCEPT !.label = x]  OBVIOUS
  <1>4. Q = State(P.fs, x, P.gt, P.jump, P.closes, P.error)
    BY <1>1, <1>3, StateIs
  <1>5. Q.fs = P.fs /\ Q.label = x /\ Q.gt = P.gt /\ Q.jump = P.jump /\ Q.closes = P.closes /\ Q.error = P.error
    BY <1>4 DEF State
  <1>6. Sequence(x)
    BY <1>1, <1>2, SequenceGrows DEF Lists
  <1>7. Lists(Q)
    BY <1>1, <1>4, <1>5, <1>6 DEF Lists
  <1>8. Reads(Q, S)
    BY <1>1, <1>5, <1>7 DEF Reads, Parser
  <1>9. BL(Q).firstgoto \in Nat
    <2>1. Last(Q.fs) \in Frames
      BY <1>1, <1>5, SnapIs
    <2> QED BY <2>1, FrameIs DEF BL, F
  <1>10. Alike(FindGotos(Q, lb), Q)
    BY <1>7, <1>9, GotosAlike
  <1>11. [P EXCEPT !.label = Append(@, lb)] = Q
    BY <1>2, <1>3
  <1> QED BY <1>8, <1>10, <1>11, AlikeSound

----------------------------------------------------------------------------
(* The text.                                                               *)

LEMMA PrefixIs ==
    ASSUME NEW X, NEW p \in Seq(X), NEW q \in Seq(X)
    PROVE  IsPrefix(p, q) <=> Prefix(p, q)
  <1>1. Len(p) \in Nat /\ Len(q) \in Nat
    BY LenProperties
  <1>2. CASE Len(p) <= Len(q)
    <2>1. PICK a : a = SubSeq(p, 1, Len(p))  OBVIOUS
    <2>2. PICK b : b = SubSeq(q, 1, Len(p))  OBVIOUS
    <2>3. a \in Seq(X) /\ Len(a) = Len(p) /\ \A i \in 1..Len(p) : a[i] = p[i]
      BY <1>1, <2>1, SubSeqProperties
    <2>4. b \in Seq(X) /\ Len(b) = Len(p) /\ \A i \in 1..Len(p) : b[i] = q[i]
      BY <1>1, <1>2, <2>2, SubSeqProperties
    <2>5. a = b <=> \A i \in 1..Len(p) : p[i] = q[i]
      <3>1. ASSUME a = b PROVE \A i \in 1..Len(p) : p[i] = q[i]
        BY <2>3, <2>4, <3>1
      <3>2. ASSUME \A i \in 1..Len(p) : p[i] = q[i] PROVE a = b
        <4>1. \A i \in 1..Len(a) : a[i] = b[i]
          BY <2>3, <2>4, <3>2
        <4> QED BY <2>3, <2>4, <4>1, SeqEqual
      <3> QED BY <3>1, <3>2
    <2> QED BY <1>2, <2>1, <2>2, <2>5 DEF IsPrefix, Prefix
  <1>3. CASE ~(Len(p) <= Len(q))
    BY <1>3 DEF IsPrefix, Prefix
  <1> QED BY <1>2, <1>3

LEMMA GrownIs ==
    ASSUME NEW t, Sequence(t), NEW s
    PROVE  Grown(Append(t, s), t, s) /\ Sequence(Append(t, s))
  <1>1. PICK X : t \in Seq(X)
    BY DEF Sequence
  <1>2. PICK Y : Y = X \union {s}  OBVIOUS
  <1>3. t \in Seq(Y) /\ s \in Y
    BY <1>1, <1>2, SeqMonotonic
  <1>4. PICK u : u = Append(t, s)  OBVIOUS
  <1>5. Len(t) \in Nat /\ Len(u) = Len(t) + 1 /\ u[Len(t) + 1] = s /\ \A d \in 1..Len(t) : u[d] = t[d]
    BY <1>3, <1>4, AppendProperties, LenProperties
  <1> QED BY <1>4, <1>5, SequenceGrows DEF Grown

LEMMA EndInIs ==
    ASSUME NEW t, Len(t) \in Nat, NEW d \in 1..Len(t)
    PROVE  \/ EndIn(t, d) = 0 /\ \A e \in (d + 1)..Len(t) : ~(Ends(t[e]) /\ t[e].path = t[d].path)
           \/ /\ EndIn(t, d) \in (d + 1)..Len(t) /\ Ends(t[EndIn(t, d)]) /\ t[EndIn(t, d)].path = t[d].path
              /\ \A e \in (d + 1)..Len(t) : Ends(t[e]) /\ t[e].path = t[d].path => EndIn(t, d) <= e
  <1>1. PICK E : E = EndsIn(t, d)  OBVIOUS
  <1>2. E = {e \in (d + 1)..Len(t) : Ends(t[e]) /\ t[e].path = t[d].path}
    BY <1>1 DEF EndsIn
  <1>3. EndIn(t, d) = IF E = {} THEN 0 ELSE Min(E)
    BY <1>1 DEF EndIn
  <1>4. CASE E = {}
    BY <1>2, <1>3, <1>4
  <1>5. CASE E # {}
    <2>1. E \subseteq Nat
      BY <1>2
    <2>2. Min(E) \in E /\ \A c \in E : Min(E) <= c
      BY <1>5, <2>1, MinIs
    <2> QED BY <1>2, <1>3, <1>5, <2>2
  <1> QED BY <1>4, <1>5

\* What has ended stays where it ended; what has not may end now.
LEMMA EndLater ==
    ASSUME NEW t, NEW u, NEW s, Grown(u, t, s), NEW d \in 1..Len(t)
    PROVE  /\ EndIn(t, d) # 0 => EndIn(u, d) = EndIn(t, d) /\ EndIn(t, d) \in (d + 1)..Len(t)
           /\ EndIn(t, d) = 0 /\ Ends(s) /\ s.path = t[d].path => EndIn(u, d) = Len(t) + 1
           /\ EndIn(t, d) = 0 /\ ~(Ends(s) /\ s.path = t[d].path) => EndIn(u, d) = 0
  <1>1. /\ Len(t) \in Nat /\ Len(u) = Len(t) + 1 /\ u[Len(t) + 1] = s
        /\ \A e \in 1..Len(t) : u[e] = t[e]
    BY DEF Grown
  <1>2. PICK a : a = EndIn(t, d)  OBVIOUS
  <1>3. PICK b : b = EndIn(u, d)  OBVIOUS
  <1>4. PICK p : p = t[d].path  OBVIOUS
  <1>5. PICK m \in Nat : m = Len(t)
    BY <1>1
  <1>6. d \in 1..m /\ u[d] = t[d] /\ u[m + 1] = s /\ \A e \in (d + 1)..m : u[e] = t[e]
    BY <1>1, <1>5
  <1>7. \/ a = 0 /\ \A e \in (d + 1)..m : ~(Ends(t[e]) /\ t[e].path = p)
        \/ /\ a \in (d + 1)..m /\ Ends(t[a]) /\ t[a].path = p
           /\ \A e \in (d + 1)..m : Ends(t[e]) /\ t[e].path = p => a <= e
    BY <1>1, <1>2, <1>4, <1>5, EndInIs
  <1>8. \/ b = 0 /\ \A e \in (d + 1)..(m + 1) : ~(Ends(u[e]) /\ u[e].path = p)
        \/ /\ b \in (d + 1)..(m + 1) /\ Ends(u[b]) /\ u[b].path = p
           /\ \A e \in (d + 1)..(m + 1) : Ends(u[e]) /\ u[e].path = p => b <= e
    <2>1. d \in 1..Len(u) /\ Len(u) \in Nat /\ u[d].path = p /\ Len(u) = m + 1
      BY <1>1, <1>4, <1>5, <1>6
    <2> QED BY <1>3, <2>1, EndInIs
  <1>9. \A e \in (d + 1)..(m + 1) : e = m + 1 \/ e \in (d + 1)..m  OBVIOUS
  <1>10. ASSUME a # 0 PROVE b = a /\ a \in (d + 1)..m
    <2>1. a \in (d + 1)..m /\ Ends(u[a]) /\ u[a].path = p /\ a \in (d + 1)..(m + 1)
      BY <1>6, <1>7, <1>10
    <2>2. b \in (d + 1)..(m + 1) /\ b <= a /\ Ends(u[b]) /\ u[b].path = p
      BY <1>8, <2>1
    <2>3. b \in (d + 1)..m
      BY <2>1, <2>2
    <2>4. a <= b
      BY <1>6, <1>7, <1>10, <2>2, <2>3
    <2> QED BY <2>1, <2>2, <2>4
  <1>11. ASSUME a = 0, b # 0 PROVE b = m + 1 /\ Ends(s) /\ s.path = p
    <2>1. b \in (d + 1)..(m + 1) /\ Ends(u[b]) /\ u[b].path = p
      BY <1>8, <1>11
    <2>2. b \notin (d + 1)..m
      BY <1>6, <1>7, <1>11, <2>1
    <2> QED BY <1>6, <1>9, <2>1, <2>2
  <1>12. ASSUME Ends(s), s.path = p PROVE b # 0
    <2>1. m + 1 \in (d + 1)..(m + 1) /\ Ends(u[m + 1]) /\ u[m + 1].path = p
      BY <1>6, <1>12
    <2>2. 0 \notin (d + 1)..(m + 1)
      BY <1>6
    <2> QED BY <1>8, <2>1, <2>2
  <1> QED BY <1>2, <1>3, <1>4, <1>5, <1>10, <1>11, <1>12

\* What was seen up to k is seen up to k whatever comes after it.
LEMMA SeenBefore ==
    ASSUME NEW t, NEW u, NEW s, Grown(u, t, s), NEW k \in 0..Len(t), NEW path
    PROVE  SeenBy(u, k, path) = SeenBy(t, k, path)
  <1>1. Len(t) \in Nat /\ \A d \in 1..Len(t) : u[d] = t[d]
    BY DEF Grown
  <1>2. ASSUME NEW d \in 1..k
        PROVE  /\ u[d] = t[d] /\ BlockIn(u, d) = BlockIn(t, d)
               /\ SinceIn(u, d) \in 1..k <=> SinceIn(t, d) \in 1..k
    <2>1. d \in 1..Len(t)
      BY <1>1
    <2>2. u[d] = t[d]
      BY <1>1, <2>1
    <2>3. PICK a : a = EndIn(t, d)  OBVIOUS
    <2>4. PICK b : b = EndIn(u, d)  OBVIOUS
    <2>5. (a # 0 /\ b = a) \/ (a = 0 /\ b = Len(t) + 1) \/ (a = 0 /\ b = 0)
      BY <2>1, <2>3, <2>4, EndLater
    <2>6. b \in 1..k <=> a \in 1..k
      BY <1>1, <2>5
    <2> QED BY <2>2, <2>3, <2>4, <2>6 DEF SinceIn, BlockIn
  <1> QED BY <1>2 DEF SeenBy

\* A statement that ends nothing adds itself at most.
LEMMA SeenNext ==
    ASSUME NEW t, NEW u, NEW s, Grown(u, t, s), ~Ends(s), NEW path
    PROVE  SeenBy(u, Len(t) + 1, path) =
             SeenBy(t, Len(t), path) \union
               {d \in {Len(t) + 1} : Declaring(s) /\ ~Delayed(s) /\ IsPrefix(BlockIn(u, Len(t) + 1), path)}
  <1>1. PICK m \in Nat : m = Len(t)
    BY DEF Grown
  <1>2. Len(u) = m + 1 /\ u[m + 1] = s /\ \A d \in 1..m : u[d] = t[d]
    BY <1>1 DEF Grown
  <1>3. SinceIn(u, m + 1) \in 1..(m + 1) <=> ~Delayed(s)
    <2>1. EndIn(u, m + 1) = 0
      <3>1. m + 1 \in 1..Len(u) /\ Len(u) \in Nat
        BY <1>2
      <3>2. \A e \in (m + 1 + 1)..Len(u) : FALSE
        BY <1>2
      <3> QED BY <3>1, <3>2, EndInIs
    <2> QED BY <1>2, <2>1 DEF SinceIn
  <1>4. ASSUME NEW d \in 1..m
        PROVE  /\ u[d] = t[d] /\ BlockIn(u, d) = BlockIn(t, d)
               /\ SinceIn(u, d) \in 1..(m + 1) <=> SinceIn(t, d) \in 1..m
    <2>1. d \in 1..Len(t)
      BY <1>1
    <2>2. u[d] = t[d]
      BY <1>2
    <2>3. PICK a : a = EndIn(t, d)  OBVIOUS
    <2>4. PICK b : b = EndIn(u, d)  OBVIOUS
    <2>5. (a # 0 /\ b = a /\ a \in (d + 1)..m) \/ (a = 0 /\ b = 0)
      BY <1>1, <2>1, <2>3, <2>4, EndLater
    <2>6. b \in 1..(m + 1) <=> a \in 1..m
      BY <2>5
    <2>7. d \in 1..(m + 1)  OBVIOUS
    <2> QED BY <2>2, <2>3, <2>4, <2>6, <2>7 DEF SinceIn, BlockIn
  <1>5. \A d : d \in 1..(m + 1) <=> d = m + 1 \/ d \in 1..m  OBVIOUS
  <1>6. ASSUME NEW d PROVE d \in SeenBy(u, m + 1, path) <=>
                             \/ d \in SeenBy(t, m, path)
                             \/ /\ d = m + 1 /\ Declaring(s) /\ ~Delayed(s)
                                /\ IsPrefix(BlockIn(u, m + 1), path)
    <2>1. CASE d = m + 1
      <3>1. d \notin SeenBy(t, m, path)
        BY <2>1 DEF SeenBy
      <3> QED BY <1>2, <1>3, <1>5, <2>1, <3>1 DEF SeenBy
    <2>2. CASE d # m + 1
      BY <1>4, <1>5, <2>2 DEF SeenBy
    <2> QED BY <2>1, <2>2
  <1> QED BY <1>1, <1>6

LEMMA KindsAre ==
    ASSUME NEW s, Written(s)
    PROVE  /\ Ends(s) => ~s.opens /\ ~Declaring(s)
           /\ Delayed(s) => s.opens /\ Declaring(s)
           /\ Looping(s) => s.opens
           /\ Declaring(s) /\ ~s.opens => ~Delayed(s) /\ ~Looping(s)
  BY DEF Written, Ends, Declaring, Delayed, Looping, Openings, Functions, Declares

LEMMA TextIs ==
    ASSUME NEW t, NEW p, TextRight(t, p), NEW s
    PROVE  /\ Len(t) \in Nat /\ Len(p) \in Nat /\ Grown(Append(t, s), t, s) /\ Sequence(Append(t, s))
           /\ \A r \in 1..Len(p) : p[r] \in 1..Len(t)
           /\ \A d \in 1..Len(t) : t[d].path \in Seq(Nat) /\ Len(t[d].path) \in Nat
  <1>1. Len(t) \in Nat /\ Grown(Append(t, s), t, s) /\ Sequence(Append(t, s))
    BY GrownIs, SequenceIs DEF TextRight
  <1>2. Len(p) \in Nat
    BY LenProperties DEF TextRight
  <1>3. \A r \in 1..Len(p) : p[r] \in 1..Len(t)
    BY DEF TextRight, WellPlaced
  <1>4. \A d \in 1..Len(t) : t[d].path \in Seq(Nat)
    BY DEF TextRight, Written
  <1> QED BY <1>1, <1>2, <1>3, <1>4, LenProperties

LEMMA TextSame ==
    ASSUME NEW t, NEW p, TextRight(t, p), NEW s, Written(s), s.path = p, ~s.opens, ~Ends(s)
    PROVE  TextRight(Append(t, s), p)
  <1>1. PICK u : u = Append(t, s)  OBVIOUS
  <1>2. PICK m \in Nat : m = Len(t)
    BY TextIs
  <1>3. Grown(u, t, s) /\ Sequence(u) /\ p \in Seq(Nat)
    BY <1>1, TextIs DEF TextRight
  <1>4. Len(u) = m + 1 /\ u[m + 1] = s /\ \A d \in 1..m : u[d] = t[d]
    BY <1>2, <1>3 DEF Grown
  <1>5. \A d \in 1..(m + 1) : d = m + 1 \/ d \in 1..m  OBVIOUS
  <1>6. \A d \in 1..(m + 1) : Written(u[d])
    BY <1>2, <1>4, <1>5 DEF TextRight
  <1>7. \A r \in 1..Len(p) : p[r] \in 1..m /\ u[p[r]] = t[p[r]] /\ p[r] \in 1..(m + 1)
    <2>1. \A r \in 1..Len(p) : p[r] \in 1..m
      BY <1>2, TextIs
    <2> QED BY <1>4, <2>1
  <1>8. Backwards(u)
    <2>1. ASSUME NEW d \in 1..(m + 1), NEW i \in 1..Len(u[d].path) PROVE u[d].path[i] < d
      <3>1. CASE d = m + 1
        <4>1. u[d].path[i] = p[i] /\ i \in 1..Len(p)
          BY <1>4, <3>1
        <4> QED BY <1>7, <3>1, <4>1
      <3>2. CASE d # m + 1
        BY <1>2, <1>4, <1>5, <3>2 DEF TextRight, Backwards
      <3> QED BY <3>1, <3>2
    <2> QED BY <1>4, <2>1 DEF Backwards
  <1>9. WellPlaced(u, p)
    <2>1. ASSUME NEW r \in 1..Len(p)
          PROVE  /\ p[r] \in 1..(m + 1) /\ u[p[r]].opens /\ Len(u[p[r]].path) = r - 1
                 /\ \A j \in 1..(r - 1) : u[p[r]].path[j] = p[j]
      <3>1. /\ t[p[r]].opens /\ Len(t[p[r]].path) = r - 1
            /\ \A j \in 1..(r - 1) : t[p[r]].path[j] = p[j]
        BY DEF TextRight, WellPlaced
      <3>2. u[p[r]] = t[p[r]] /\ p[r] \in 1..(m + 1)
        BY <1>7
      <3> QED BY <3>1, <3>2
    <2> QED BY <1>4, <2>1 DEF WellPlaced
  <1>10. Inside(u, p)
    <2>1. ASSUME NEW r \in 1..Len(p), NEW d \in 1..(m + 1), d > p[r]
          PROVE  Len(u[d].path) >= r /\ \A j \in 1..r : u[d].path[j] = p[j]
      <3>1. CASE d = m + 1
        <4>1. u[d].path = p
          BY <1>4, <3>1
        <4>2. Len(p) \in Nat
          BY TextIs
        <4> QED BY <4>1, <4>2
      <3>2. CASE d # m + 1
        <4>1. d \in 1..Len(t) /\ u[d] = t[d]
          BY <1>2, <1>4, <1>5, <3>2
        <4> QED BY <2>1, <4>1 DEF TextRight, Inside
      <3> QED BY <3>1, <3>2
    <2> QED BY <1>4, <2>1 DEF Inside
  <1>11. Open(u, p)
    <2>1. ASSUME NEW d \in 1..(m + 1), u[d].opens
          PROVE  EndIn(u, d) = 0 <=> \E r \in 1..Len(p) : p[r] = d
      <3>1. d # m + 1
        BY <1>4, <2>1
      <3>2. d \in 1..Len(t) /\ u[d] = t[d]
        BY <1>2, <1>4, <1>5, <3>1
      <3>3. EndIn(t, d) # 0 => EndIn(u, d) = EndIn(t, d)
        BY <1>3, <3>2, EndLater
      <3>4. EndIn(t, d) = 0 => EndIn(u, d) = 0
        BY <1>3, <3>2, EndLater
      <3>5. EndIn(t, d) = 0 <=> \E r \in 1..Len(p) : p[r] = d
        BY <2>1, <3>2 DEF TextRight, Open
      <3> QED BY <3>3, <3>4, <3>5
    <2> QED BY <1>4, <2>1 DEF Open
  <1> QED BY <1>1, <1>3, <1>4, <1>6, <1>8, <1>9, <1>10, <1>11 DEF TextRight

LEMMA TextOpens ==
    ASSUME NEW t, NEW p, TextRight(t, p), NEW s, Written(s), s.path = p, s.opens
    PROVE  TextRight(Append(t, s), Append(p, Len(t) + 1))
  <1>1. PICK u : u = Append(t, s)  OBVIOUS
  <1>2. PICK m \in Nat : m = Len(t)
    BY TextIs
  <1>3. Grown(u, t, s) /\ Sequence(u) /\ p \in Seq(Nat) /\ ~Ends(s)
    BY <1>1, TextIs, KindsAre DEF TextRight
  <1>4. Len(u) = m + 1 /\ u[m + 1] = s /\ \A d \in 1..m : u[d] = t[d]
    BY <1>2, <1>3 DEF Grown
  <1>5. \A d \in 1..(m + 1) : d = m + 1 \/ d \in 1..m  OBVIOUS
  <1>6. \A d \in 1..(m + 1) : Written(u[d])
    BY <1>2, <1>4, <1>5 DEF TextRight
  <1>7. \A r \in 1..Len(p) : p[r] \in 1..m /\ u[p[r]] = t[p[r]] /\ p[r] \in 1..(m + 1)
    <2>1. \A r \in 1..Len(p) : p[r] \in 1..m
      BY <1>2, TextIs
    <2> QED BY <1>4, <2>1
  <1>8. Backwards(u)
    <2>1. ASSUME NEW d \in 1..(m + 1), NEW i \in 1..Len(u[d].path) PROVE u[d].path[i] < d
      <3>1. CASE d = m + 1
        <4>1. u[d].path[i] = p[i] /\ i \in 1..Len(p)
          BY <1>4, <3>1
        <4> QED BY <1>7, <3>1, <4>1
      <3>2. CASE d # m + 1
        BY <1>2, <1>4, <1>5, <3>2 DEF TextRight, Backwards
      <3> QED BY <3>1, <3>2
    <2> QED BY <1>4, <2>1 DEF Backwards
  <1>9. PICK n \in Nat : n = Len(p)
    BY TextIs
  <1>10. PICK q : q = Append(p, m + 1)  OBVIOUS
  <1>11. q \in Seq(Nat) /\ Len(q) = n + 1 /\ q[n + 1] = m + 1 /\ \A r \in 1..n : q[r] = p[r]
    <2>1. m + 1 \in Nat  OBVIOUS
    <2> QED BY <1>3, <1>9, <1>10, <2>1, AppendProperties
  <1>12. \A r \in 1..(n + 1) : r = n + 1 \/ r \in 1..n  OBVIOUS
  <1>13. WellPlaced(u, q)
    <2>1. ASSUME NEW r \in 1..(n + 1)
          PROVE  /\ q[r] \in 1..(m + 1) /\ u[q[r]].opens /\ Len(u[q[r]].path) = r - 1
                 /\ \A j \in 1..(r - 1) : u[q[r]].path[j] = q[j]
      <3>1. CASE r = n + 1
        <4>1. u[q[r]] = s /\ q[r] \in 1..(m + 1) /\ r - 1 = n
          BY <1>4, <1>11, <3>1
        <4> QED BY <1>9, <1>11, <4>1
      <3>2. CASE r \in 1..n
        <4>1. /\ p[r] \in 1..m /\ t[p[r]].opens /\ Len(t[p[r]].path) = r - 1
              /\ \A j \in 1..(r - 1) : t[p[r]].path[j] = p[j]
          BY <1>2, <1>9, <3>2 DEF TextRight, WellPlaced
        <4>2. \A j \in 1..(r - 1) : j \in 1..n
          BY <3>2
        <4>3. q[r] = p[r] /\ u[p[r]] = t[p[r]] /\ p[r] \in 1..(m + 1)
          BY <1>7, <1>9, <1>11, <3>2
        <4>4. \A j \in 1..(r - 1) : q[j] = p[j]
          BY <1>11, <4>2
        <4> QED BY <4>1, <4>3, <4>4
      <3> QED BY <1>12, <3>1, <3>2
    <2> QED BY <1>4, <1>11, <2>1 DEF WellPlaced
  <1>14. Inside(u, q)
    <2>1. ASSUME NEW r \in 1..(n + 1), NEW d \in 1..(m + 1), d > q[r]
          PROVE  Len(u[d].path) >= r /\ \A j \in 1..r : u[d].path[j] = q[j]
      <3>1. r \in 1..n
        BY <1>11, <1>12, <2>1
      <3>2. \A j \in 1..r : j \in 1..n
        BY <3>1
      <3>3. CASE d = m + 1
        <4>1. u[d].path = p
          BY <1>4, <3>3
        <4> QED BY <1>9, <1>11, <3>1, <3>2, <4>1
      <3>4. CASE d # m + 1
        <4>1. d \in 1..Len(t) /\ u[d] = t[d]
          BY <1>2, <1>4, <1>5, <3>4
        <4>2. d > p[r]
          BY <1>11, <2>1, <3>1
        <4>3. Len(t[d].path) >= r /\ \A j \in 1..r : t[d].path[j] = p[j]
          BY <1>9, <3>1, <4>1, <4>2 DEF TextRight, Inside
        <4> QED BY <1>11, <3>2, <4>1, <4>3
      <3> QED BY <3>3, <3>4
    <2>2. 1..Len(q) = 1..(n + 1) /\ 1..Len(u) = 1..(m + 1)
      BY <1>4, <1>11
    <2> QED BY <2>1, <2>2, Zenon DEF Inside
  <1>15. Open(u, q)
    <2>1. ASSUME NEW d \in 1..(m + 1), u[d].opens
          PROVE  EndIn(u, d) = 0 <=> \E r \in 1..(n + 1) : q[r] = d
      <3>1. CASE d = m + 1
        <4>1. EndIn(u, d) = 0
          <5>1. d \in 1..Len(u) /\ Len(u) \in Nat
            BY <1>4
          <5>2. \A e \in (d + 1)..Len(u) : FALSE
            BY <1>4, <3>1
          <5> QED BY <5>1, <5>2, EndInIs
        <4>2. n + 1 \in 1..(n + 1) /\ q[n + 1] = d
          BY <1>11, <3>1
        <4> QED BY <4>1, <4>2
      <3>2. CASE d # m + 1
        <4>1. d \in 1..Len(t) /\ u[d] = t[d]
          BY <1>2, <1>4, <1>5, <3>2
        <4>2. EndIn(t, d) # 0 => EndIn(u, d) = EndIn(t, d)
          BY <1>3, <4>1, EndLater
        <4>3. EndIn(t, d) = 0 => EndIn(u, d) = 0
          BY <1>3, <4>1, EndLater
        <4>4. EndIn(t, d) = 0 <=> \E r \in 1..n : p[r] = d
          BY <1>9, <2>1, <4>1 DEF TextRight, Open
        <4>5. (\E r \in 1..(n + 1) : q[r] = d) <=> \E r \in 1..n : p[r] = d
          <5>1. q[n + 1] # d
            BY <1>11, <3>2
          <5>2. \A r \in 1..n : r \in 1..(n + 1)  OBVIOUS
          <5> QED BY <1>11, <1>12, <5>1, <5>2
        <4> QED BY <4>2, <4>3, <4>4, <4>5
      <3> QED BY <3>1, <3>2
    <2> QED BY <1>4, <1>11, <2>1 DEF Open
  <1>16. TextRight(u, q)
    BY <1>3, <1>4, <1>6, <1>8, <1>11, <1>13, <1>14, <1>15 DEF TextRight
  <1> QED BY <1>1, <1>2, <1>10, <1>16

LEMMA ClosingIs ==
    ASSUME NEW t, NEW p, TextRight(t, p), NEW s, Closing(t, p, s)
    PROVE  /\ s.path = t[Last(p)].path /\ Last(p) \in 1..Len(t) /\ t[Last(p)].opens
           /\ Len(p) \in Nat \ {0} /\ Len(s.path) = Len(p) - 1
           /\ \A r \in 1..(Len(p) - 1) : s.path[r] = p[r]
           /\ Last(p) = p[Len(p)]
           /\ \A d \in 1..Len(t) : d # Last(p) =>
                 (t[d].opens /\ EndIn(t, d) = 0 => t[d].path # s.path)
  <1>1. PICK q : q = Front(p)  OBVIOUS
  <1>2. p \in Seq(Nat) /\ p # << >>
    BY DEF TextRight, Closing
  <1>3. PICK n : n = Len(p)  OBVIOUS
  <1>4. q \in Seq(Nat) /\ n \in Nat \ {0} /\ Len(q) = n - 1 /\ \A i \in 1..(n - 1) : q[i] = p[i]
    BY <1>1, <1>2, <1>3, FrontIs
  <1>5. PICK b : b = p[n]  OBVIOUS
  <1>6. Last(p) = b
    BY <1>3, <1>5 DEF Last
  <1>7. n \in 1..n
    BY <1>4
  <1>8. /\ b \in 1..Len(t) /\ t[b].opens /\ Len(t[b].path) = n - 1
        /\ \A j \in 1..(n - 1) : t[b].path[j] = p[j]
    BY <1>3, <1>5, <1>7 DEF TextRight, WellPlaced
  <1>9. t[b].path \in Seq(Nat)
    BY <1>8, TextIs
  <1>10. t[b].path = q
    <2>1. PICK a : a = t[b].path  OBVIOUS
    <2>2. a \in Seq(Nat) /\ Len(a) = n - 1 /\ \A j \in 1..(n - 1) : a[j] = p[j]
      BY <1>8, <1>9, <2>1
    <2>3. \A i \in 1..Len(a) : a[i] = q[i]
      BY <1>4, <2>2
    <2>4. a = q
      BY <1>4, <2>2, <2>3, SeqEqual
    <2> QED BY <2>1, <2>4
  <1>11. ASSUME NEW d \in 1..Len(t), d # b, t[d].opens, EndIn(t, d) = 0 PROVE t[d].path # q
    <2>1. PICK r \in 1..n : p[r] = d
      BY <1>3, <1>11 DEF TextRight, Open
    <2>2. r # n
      BY <1>5, <1>11, <2>1
    <2>3. Len(t[d].path) = r - 1
      BY <1>3, <2>1 DEF TextRight, WellPlaced
    <2> QED BY <1>4, <2>2, <2>3
  <1>12. s.path = q
    BY <1>1 DEF Closing
  <1> QED BY <1>3, <1>4, <1>5, <1>6, <1>8, <1>10, <1>11, <1>12

LEMMA TextEnds ==
    ASSUME NEW t, NEW p, TextRight(t, p), NEW s, Closing(t, p, s)
    PROVE  TextRight(Append(t, s), Front(p))
  <1>1. PICK u : u = Append(t, s)  OBVIOUS
  <1>2. PICK m \in Nat : m = Len(t)
    BY TextIs
  <1>3. Grown(u, t, s) /\ Sequence(u) /\ p \in Seq(Nat) /\ ~s.opens /\ Written(s) /\ Ends(s)
    BY <1>1, TextIs, KindsAre DEF TextRight, Closing
  <1>4. Len(u) = m + 1 /\ u[m + 1] = s /\ \A d \in 1..m : u[d] = t[d]
    BY <1>2, <1>3 DEF Grown
  <1>5. \A d \in 1..(m + 1) : d = m + 1 \/ d \in 1..m  OBVIOUS
  <1>6. \A d \in 1..(m + 1) : Written(u[d])
    BY <1>2, <1>3, <1>4, <1>5 DEF TextRight
  <1>7. PICK q : q = Front(p)  OBVIOUS
  <1>8. PICK n : n = Len(p)  OBVIOUS
  <1>9. q \in Seq(Nat) /\ n \in Nat \ {0} /\ Len(q) = n - 1 /\ (\A i \in 1..(n - 1) : q[i] = p[i]) /\ s.path = q
    BY <1>3, <1>7, <1>8, FrontIs DEF Closing
  <1>10. \A r \in 1..(n - 1) : r \in 1..n /\ p[r] \in 1..m /\ u[p[r]] = t[p[r]] /\ p[r] \in 1..(m + 1)
    <2>1. \A r \in 1..n : p[r] \in 1..m
      BY <1>2, <1>8, TextIs
    <2>2. \A r \in 1..(n - 1) : r \in 1..n
      BY <1>9
    <2> QED BY <1>4, <2>1, <2>2
  <1>11. Backwards(u)
    <2>1. ASSUME NEW d \in 1..(m + 1), NEW i \in 1..Len(u[d].path) PROVE u[d].path[i] < d
      <3>1. CASE d = m + 1
        <4>1. u[d].path[i] = p[i] /\ i \in 1..(n - 1)
          BY <1>4, <1>9, <3>1
        <4> QED BY <1>10, <3>1, <4>1
      <3>2. CASE d # m + 1
        BY <1>2, <1>4, <1>5, <3>2 DEF TextRight, Backwards
      <3> QED BY <3>1, <3>2
    <2> QED BY <1>4, <2>1 DEF Backwards
  <1>12. WellPlaced(u, q)
    <2>1. ASSUME NEW r \in 1..(n - 1)
          PROVE  /\ q[r] \in 1..(m + 1) /\ u[q[r]].opens /\ Len(u[q[r]].path) = r - 1
                 /\ \A j \in 1..(r - 1) : u[q[r]].path[j] = q[j]
      <3>1. /\ t[p[r]].opens /\ Len(t[p[r]].path) = r - 1
            /\ \A j \in 1..(r - 1) : t[p[r]].path[j] = p[j]
        BY <1>8, <1>10 DEF TextRight, WellPlaced
      <3>2. \A j \in 1..(r - 1) : j \in 1..(n - 1)
        BY <1>9
      <3> QED BY <1>9, <1>10, <3>1, <3>2
    <2> QED BY <1>4, <1>9, <2>1 DEF WellPlaced
  <1>13. Inside(u, q)
    <2>1. ASSUME NEW r \in 1..(n - 1), NEW d \in 1..(m + 1), d > q[r]
          PROVE  Len(u[d].path) >= r /\ \A j \in 1..r : u[d].path[j] = q[j]
      <3>1. \A j \in 1..r : j \in 1..(n - 1)
        BY <1>9
      <3>2. CASE d = m + 1
        <4>1. u[d].path = q
          BY <1>4, <1>9, <3>2
        <4> QED BY <1>9, <4>1
      <3>3. CASE d # m + 1
        <4>1. d \in 1..Len(t) /\ u[d] = t[d]
          BY <1>2, <1>4, <1>5, <3>3
        <4>2. d > p[r]
          BY <1>9, <2>1
        <4>3. Len(t[d].path) >= r /\ \A j \in 1..r : t[d].path[j] = p[j]
          BY <1>8, <1>10, <4>1, <4>2 DEF TextRight, Inside
        <4> QED BY <1>9, <3>1, <4>1, <4>3
      <3> QED BY <3>2, <3>3
    <2> QED BY <1>4, <1>9, <2>1 DEF Inside
  <1>14. PICK b : b = Last(p)  OBVIOUS
  <1>15. /\ s.path = t[b].path /\ b \in 1..m /\ t[b].opens /\ b = p[n]
         /\ \A d \in 1..m : d # b => (t[d].opens /\ EndIn(t, d) = 0 => t[d].path # s.path)
    BY <1>2, <1>8, <1>14, ClosingIs
  <1>16. Open(u, q)
    <2>1. ASSUME NEW d \in 1..(m + 1), u[d].opens
          PROVE  EndIn(u, d) = 0 <=> \E r \in 1..(n - 1) : q[r] = d
      <3>1. d # m + 1
        BY <1>3, <1>4, <2>1
      <3>2. d \in 1..Len(t) /\ u[d] = t[d] /\ t[d].opens /\ d \in 1..m
        BY <1>2, <1>4, <1>5, <2>1, <3>1
      <3>3. EndIn(t, d) = 0 <=> \E r \in 1..n : p[r] = d
        BY <1>8, <3>2 DEF TextRight, Open
      <3>4. CASE d = b
        <4>1. EndIn(t, d) = 0
          <5>1. n \in 1..n
            BY <1>9
          <5> QED BY <1>15, <3>3, <3>4, <5>1
        <4>2. EndIn(u, d) = m + 1
          BY <1>2, <1>3, <1>15, <3>2, <3>4, <4>1, EndLater
        <4>3. \A r \in 1..(n - 1) : q[r] # d
          <5>1. ASSUME NEW r \in 1..(n - 1), q[r] = d PROVE FALSE
            <6>1. p[r] = d /\ r \in 1..n
              BY <1>9, <1>10, <5>1
            <6>2. Len(t[d].path) = r - 1
              BY <1>8, <6>1 DEF TextRight, WellPlaced
            <6>3. Len(t[d].path) = n - 1
              BY <1>9, <1>15, <3>4
            <6> QED BY <1>9, <6>2, <6>3
          <5> QED BY <5>1
        <4> QED BY <4>2, <4>3
      <3>5. CASE d # b
        <4>1. EndIn(u, d) = 0 <=> EndIn(t, d) = 0
          <5>1. EndIn(t, d) # 0 => EndIn(u, d) = EndIn(t, d)
            BY <1>3, <3>2, EndLater
          <5>2. EndIn(t, d) = 0 => t[d].path # s.path
            BY <1>15, <3>2, <3>5
          <5>3. EndIn(t, d) = 0 => EndIn(u, d) = 0
            BY <1>3, <3>2, <5>2, EndLater
          <5> QED BY <5>1, <5>3
        <4>2. (\E r \in 1..(n - 1) : q[r] = d) <=> \E r \in 1..n : p[r] = d
          <5>1. \A r \in 1..n : r = n \/ r \in 1..(n - 1)
            BY <1>9
          <5> QED BY <1>9, <1>10, <1>15, <3>5, <5>1
        <4> QED BY <3>3, <4>1, <4>2
      <3> QED BY <3>4, <3>5
    <2> QED BY <1>4, <1>9, <2>1 DEF Open
  <1>17. TextRight(u, q)
    BY <1>3, <1>4, <1>6, <1>9, <1>11, <1>12, <1>13, <1>16 DEF TextRight
  <1> QED BY <1>1, <1>7, <1>17

\* What is seen after a statement that opens and ends nothing, ...
LEMMA SeenSame ==
    ASSUME NEW t, NEW p, TextRight(t, p), NEW s, Written(s), s.path = p, ~s.opens, ~Ends(s)
    PROVE  SeenBy(Append(t, s), Len(t) + 1, p) =
             SeenBy(t, Len(t), p) \union {d \in {Len(t) + 1} : Declaring(s)}
  <1>1. PICK u : u = Append(t, s)  OBVIOUS
  <1>2. PICK m \in Nat : m = Len(t)
    BY TextIs
  <1>3. Grown(u, t, s) /\ p \in Seq(Nat)
    BY <1>1, TextIs DEF TextRight
  <1>4. u[m + 1] = s
    BY <1>2, <1>3 DEF Grown
  <1>5. Declaring(s) => ~Delayed(s) /\ ~Looping(s)
    BY KindsAre
  <1>6. Declaring(s) => BlockIn(u, m + 1) = p
    BY <1>4, <1>5 DEF BlockIn
  <1>7. IsPrefix(p, p)
    <2>1. Len(p) <= Len(p)
      BY TextIs
    <2> QED BY <1>3, <2>1, PrefixIs DEF Prefix
  <1>8. SeenBy(u, m + 1, p) = SeenBy(t, m, p) \union
          {d \in {m + 1} : Declaring(s) /\ ~Delayed(s) /\ IsPrefix(BlockIn(u, m + 1), p)}
    BY <1>2, <1>3, SeenNext
  <1>9. {d \in {m + 1} : Declaring(s) /\ ~Delayed(s) /\ IsPrefix(BlockIn(u, m + 1), p)}
          = {d \in {m + 1} : Declaring(s)}
    BY <1>5, <1>6, <1>7
  <1> QED BY <1>1, <1>2, <1>8, <1>9

\* ... at the begin of a block, ...
LEMMA SeenOpens ==
    ASSUME NEW t, NEW p, TextRight(t, p), NEW s, Written(s), s.path = p, s.opens
    PROVE  SeenBy(Append(t, s), Len(t) + 1, Append(p, Len(t) + 1)) =
             SeenBy(t, Len(t), p) \union {d \in {Len(t) + 1} : Declaring(s) /\ ~Delayed(s)}
  <1>1. PICK u : u = Append(t, s)  OBVIOUS
  <1>2. PICK m \in Nat : m = Len(t)
    BY TextIs
  <1>3. Grown(u, t, s) /\ p \in Seq(Nat) /\ ~Ends(s)
    BY <1>1, TextIs, KindsAre DEF TextRight
  <1>4. u[m + 1] = s
    BY <1>2, <1>3 DEF Grown
  <1>5. PICK q : q = Append(p, m + 1)  OBVIOUS
  <1>6. PICK n \in Nat : n = Len(p)
    BY TextIs
  <1>7. q \in Seq(Nat) /\ Len(q) = n + 1 /\ q[n + 1] = m + 1 /\ \A r \in 1..n : q[r] = p[r]
    <2>1. m + 1 \in Nat  OBVIOUS
    <2> QED BY <1>3, <1>5, <1>6, <2>1, AppendProperties
  <1>8. IsPrefix(BlockIn(u, m + 1), q)
    <2>1. IsPrefix(p, q) /\ IsPrefix(q, q)
      <3>1. Prefix(p, q) /\ Prefix(q, q)
        BY <1>6, <1>7 DEF Prefix
      <3> QED BY <1>3, <1>7, <3>1, PrefixIs
    <2>2. BlockIn(u, m + 1) = p \/ BlockIn(u, m + 1) = q
      BY <1>4, <1>5 DEF BlockIn
    <2> QED BY <2>1, <2>2
  <1>9. SeenBy(u, m + 1, q) = SeenBy(t, m, q) \union
          {d \in {m + 1} : Declaring(s) /\ ~Delayed(s) /\ IsPrefix(BlockIn(u, m + 1), q)}
    BY <1>2, <1>3, SeenNext
  <1>10. SeenBy(t, m, q) = SeenBy(t, m, p)
    <2>1. ASSUME NEW d \in 1..m, Declaring(t[d])
          PROVE  IsPrefix(BlockIn(t, d), q) <=> IsPrefix(BlockIn(t, d), p)
      <3>1. PICK a : a = BlockIn(t, d)  OBVIOUS
      <3>2. t[d].path \in Seq(Nat) /\ \A i \in 1..Len(t[d].path) : t[d].path[i] < d
        BY <1>2, TextIs DEF TextRight, Backwards
      <3>3. a \in Seq(Nat) /\ \A i \in 1..Len(a) : a[i] <= d
        <4>1. CASE Looping(t[d])
          <5>1. a = Append(t[d].path, d)
            BY <3>1, <4>1 DEF BlockIn
          <5>2. PICK l : l = t[d].path  OBVIOUS
          <5>3. l \in Seq(Nat) /\ d \in Nat /\ Len(l) \in Nat /\ \A i \in 1..Len(l) : l[i] < d
            BY <3>2, <5>2, LenProperties
          <5>4. /\ a \in Seq(Nat) /\ Len(a) = Len(l) + 1 /\ a[Len(l) + 1] = d
                /\ \A i \in 1..Len(l) : a[i] = l[i]
            BY <5>1, <5>2, <5>3, AppendProperties
          <5>5. \A i \in 1..Len(l) : a[i] \in Nat
            BY <5>4
          <5> QED BY <5>3, <5>4, <5>5
        <4>2. CASE ~Looping(t[d])
          <5>1. a = t[d].path
            BY <3>1, <4>2 DEF BlockIn
          <5>2. \A i \in 1..Len(a) : a[i] \in Nat
            BY <3>2, <5>1, ElementOfSeq
          <5> QED BY <3>2, <5>1, <5>2
        <4> QED BY <4>1, <4>2
      <3>4. Len(a) \in Nat
        BY <3>3, LenProperties
      <3>5. Prefix(a, q) <=> Prefix(a, p)
        <4>1. ASSUME Prefix(a, p) PROVE Prefix(a, q)
          <5>1. \A i \in 1..Len(a) : i \in 1..n
            BY <1>6, <3>4, <4>1 DEF Prefix
          <5> QED BY <1>6, <1>7, <3>4, <4>1, <5>1 DEF Prefix
        <4>2. ASSUME Prefix(a, q) PROVE Prefix(a, p)
          <5>1. Len(a) # n + 1
            <6>1. SUFFICES ASSUME Len(a) = n + 1 PROVE FALSE  OBVIOUS
            <6>2. n + 1 \in 1..Len(a)
              BY <6>1
            <6>3. a[n + 1] = m + 1 /\ a[n + 1] <= d
              BY <1>7, <3>3, <4>2, <6>2 DEF Prefix
            <6> QED BY <6>3
          <5>2. Len(a) <= n
            BY <1>7, <3>4, <4>2, <5>1 DEF Prefix
          <5>3. \A i \in 1..Len(a) : i \in 1..n
            BY <3>4, <5>2
          <5> QED BY <1>6, <1>7, <4>2, <5>2, <5>3 DEF Prefix
        <4> QED BY <4>1, <4>2
      <3> QED BY <1>3, <1>7, <3>1, <3>3, <3>5, PrefixIs
    <2> QED BY <2>1 DEF SeenBy
  <1> QED BY <1>1, <1>2, <1>5, <1>8, <1>9, <1>10

\* ... and at the end of one: what was seen before it, and its function.
LEMMA SeenEnds ==
    ASSUME NEW t, NEW p, TextRight(t, p), NEW s, Closing(t, p, s)
    PROVE  SeenBy(Append(t, s), Len(t) + 1, s.path) =
             SeenBy(Append(t, s), Last(p) - 1, s.path) \union
               {d \in {Last(p)} : Declaring(t[d]) /\ ~Looping(t[d])}
  <1>1. PICK u : u = Append(t, s)  OBVIOUS
  <1>2. PICK m \in Nat : m = Len(t)
    BY TextIs
  <1>3. Grown(u, t, s) /\ p \in Seq(Nat) /\ Ends(s) /\ Written(s) /\ ~Declaring(s)
    BY <1>1, TextIs, KindsAre DEF TextRight, Closing
  <1>4. Len(u) = m + 1 /\ u[m + 1] = s /\ \A d \in 1..m : u[d] = t[d]
    BY <1>2, <1>3 DEF Grown
  <1>5. PICK b : b = Last(p)  OBVIOUS
  <1>6. PICK q : q = s.path  OBVIOUS
  <1>7. PICK n : n = Len(p)  OBVIOUS
  <1>8. /\ q = t[b].path /\ b \in 1..m /\ t[b].opens /\ n \in Nat \ {0} /\ Len(q) = n - 1
        /\ \A r \in 1..(n - 1) : q[r] = p[r]
        /\ b = p[n]
        /\ \A d \in 1..m : d # b => (t[d].opens /\ EndIn(t, d) = 0 => t[d].path # q)
    BY <1>2, <1>5, <1>6, <1>7, ClosingIs
  <1>9. q \in Seq(Nat) /\ n \in 1..n
    BY <1>3, <1>6, <1>8 DEF Written
  <1>10. EndIn(t, b) = 0
    <2>1. \E r \in 1..Len(p) : p[r] = b
      BY <1>7, <1>8, <1>9
    <2>2. b \in 1..Len(t)
      BY <1>2, <1>8
    <2>3. Open(t, p)
      BY DEF TextRight
    <2> QED BY <1>8, <2>1, <2>2, <2>3 DEF Open
  <1>11. EndIn(u, b) = m + 1
    <2>1. b \in 1..Len(t)
      BY <1>2, <1>8
    <2>2. s.path = t[b].path
      BY <1>6, <1>8
    <2>3. EndIn(u, b) = Len(t) + 1
      BY <1>3, <1>10, <2>1, <2>2, EndLater
    <2> QED BY <1>2, <2>3
  <1>12. \A d \in 1..m : t[d].path \in Seq(Nat) /\ Len(t[d].path) \in Nat
    BY <1>2, TextIs
  <1>13. \A d \in 1..m : d > b => Len(t[d].path) >= n
    BY <1>2, <1>7, <1>8, <1>9 DEF TextRight, Inside
  <1>14. ASSUME NEW d \in 1..m
         PROVE  /\ BlockIn(u, d) \in Seq(Nat) /\ u[d] = t[d]
                /\ Len(t[d].path) > n - 1 => ~IsPrefix(BlockIn(u, d), q)
                /\ IsPrefix(BlockIn(u, d), q) => Len(t[d].path) <= n - 1
    <2>1. PICK l : l = t[d].path  OBVIOUS
    <2>2. l \in Seq(Nat) /\ Len(l) \in Nat /\ u[d] = t[d] /\ d \in Nat
      BY <1>4, <1>12, <2>1
    <2>3. Append(l, d) \in Seq(Nat) /\ Len(Append(l, d)) = Len(l) + 1
      BY <2>2, AppendProperties
    <2>4. PICK a : a = BlockIn(u, d)  OBVIOUS
    <2>5. a = l \/ a = Append(l, d)
      BY <2>1, <2>2, <2>4 DEF BlockIn
    <2>6. a \in Seq(Nat) /\ Len(a) >= Len(l) /\ Len(a) \in Nat
      BY <2>2, <2>3, <2>5
    <2>7. IsPrefix(a, q) <=> Prefix(a, q)
      BY <1>9, <2>6, PrefixIs
    <2>8. IsPrefix(a, q) => Len(a) <= n - 1
      BY <1>8, <2>7 DEF Prefix
    <2> QED BY <1>8, <2>1, <2>2, <2>4, <2>6, <2>8
  <1>15. ASSUME NEW d \in SeenBy(u, m + 1, q)
         PROVE  d \in SeenBy(u, b - 1, q) \/ (d = b /\ Declaring(t[d]) /\ ~Looping(t[d]))
    <2>1. /\ d \in 1..(m + 1) /\ Declaring(u[d]) /\ SinceIn(u, d) \in 1..(m + 1) /\ IsPrefix(BlockIn(u, d), q)
      BY DEF SeenBy
    <2>2. d \in 1..m
      BY <1>3, <1>4, <2>1
    <2>3. CASE d = b
      <3>1. ~Looping(t[d])
        <4>1. SUFFICES ASSUME Looping(t[d]) PROVE FALSE  OBVIOUS
        <4>2. BlockIn(u, d) = Append(q, d)
          BY <1>4, <1>8, <2>2, <2>3, <4>1 DEF BlockIn
        <4>3. Append(q, d) \in Seq(Nat) /\ Len(Append(q, d)) = Len(q) + 1
          BY <1>9, <2>2, AppendProperties
        <4>4. Prefix(Append(q, d), q)
          BY <1>9, <2>1, <4>2, <4>3, PrefixIs
        <4> QED BY <1>8, <4>3, <4>4 DEF Prefix
      <3> QED BY <1>4, <2>1, <2>2, <2>3, <3>1
    <2>4. CASE d > b
      <3>1. Len(t[d].path) > n - 1
        BY <1>8, <1>12, <1>13, <2>2, <2>4
      <3> QED BY <1>14, <2>1, <2>2, <3>1
    <2>5. CASE d < b
      <3>1. d \in 1..(b - 1)
        BY <1>8, <2>2, <2>5
      <3>2. SinceIn(u, d) \in 1..(b - 1)
        <4>1. CASE ~Delayed(u[d])
          BY <3>1, <4>1 DEF SinceIn
        <4>2. CASE Delayed(u[d])
          <5>1. SinceIn(u, d) = EndIn(u, d) /\ t[d].opens
            <6>1. Written(t[d]) /\ u[d] = t[d]
              BY <1>2, <1>4, <2>2 DEF TextRight
            <6> QED BY <4>2, <6>1, KindsAre DEF SinceIn
          <5>2. EndIn(u, d) # 0
            BY <2>1, <5>1
          <5>3. EndIn(t, d) # 0
            <6>1. SUFFICES ASSUME EndIn(t, d) = 0 PROVE FALSE  OBVIOUS
            <6>2. t[d].path # s.path
              BY <1>6, <1>8, <2>2, <2>5, <5>1, <6>1
            <6>3. EndIn(u, d) = 0
              BY <1>2, <1>3, <2>2, <6>1, <6>2, EndLater
            <6> QED BY <5>2, <6>3
          <5>4. EndIn(u, d) = EndIn(t, d) /\ EndIn(t, d) \in (d + 1)..m
            BY <1>2, <1>3, <2>2, <5>3, EndLater
          <5>5. PICK e : e = EndIn(t, d)  OBVIOUS
          <5>6. e \in 1..m /\ Ends(t[e]) /\ t[e].path = t[d].path
            <6>1. Ends(t[e]) /\ t[e].path = t[d].path
              BY <1>2, <2>2, <5>3, <5>5, EndInIs
            <6> QED BY <2>2, <5>4, <5>5, <6>1
          <5>7. Len(t[e].path) <= n - 1
            BY <1>14, <2>1, <2>2, <5>6
          <5>8. ~(e > b)
            BY <1>8, <1>12, <1>13, <5>6, <5>7
          <5>9. e # b
            <6>1. Written(t[e])
              BY <1>2, <5>6 DEF TextRight
            <6> QED BY <1>8, <5>6, <6>1, KindsAre
          <5> QED BY <1>8, <5>1, <5>4, <5>5, <5>6, <5>8, <5>9
        <4> QED BY <4>1, <4>2
      <3> QED BY <2>1, <3>1, <3>2 DEF SeenBy
    <2> QED BY <1>8, <2>2, <2>3, <2>4, <2>5
  <1>16. ASSUME NEW d \in SeenBy(u, b - 1, q)
         PROVE  d \in SeenBy(u, m + 1, q)
    <2>1. d \in 1..(b - 1) /\ SinceIn(u, d) \in 1..(b - 1)
      BY DEF SeenBy
    <2>2. d \in 1..(m + 1) /\ SinceIn(u, d) \in 1..(m + 1)
      BY <1>8, <2>1
    <2> QED BY <2>2 DEF SeenBy
  <1>17. ASSUME Declaring(t[b]), ~Looping(t[b])
         PROVE  b \in SeenBy(u, m + 1, q)
    <2>1. u[b] = t[b] /\ b \in 1..(m + 1)
      BY <1>4, <1>8
    <2>2. BlockIn(u, b) = q
      BY <1>8, <1>17, <2>1 DEF BlockIn
    <2>3. IsPrefix(q, q)
      <3>1. Len(q) <= Len(q)
        BY <1>8
      <3> QED BY <1>9, <3>1, PrefixIs DEF Prefix
    <2>4. SinceIn(u, b) \in 1..(m + 1)
      BY <1>8, <1>11, <2>1 DEF SinceIn
    <2> QED BY <1>17, <2>1, <2>2, <2>3, <2>4 DEF SeenBy
  <1>18. SeenBy(u, m + 1, q) = SeenBy(u, b - 1, q) \union {d \in {b} : Declaring(t[d]) /\ ~Looping(t[d])}
    BY <1>15, <1>16, <1>17
  <1> QED BY <1>1, <1>2, <1>5, <1>6, <1>18

----------------------------------------------------------------------------
(* The snapshots at the begin of each open block and that of now: C.       *)

LEMMA VarsInAre ==
    ASSUME NEW t, NEW p, TextRight(t, p), NEW m \in 0..Len(t), NEW path, NEW D, D = SeenBy(t, m, path)
    PROVE  /\ D \subseteq 1..m /\ VarsIn(t, D) \in SUBSET Actual
           /\ \A v \in VarsIn(t, D) : v.at \in D /\ v.at <= m /\ v.name = t[v.at].name
           /\ \A d \in D : VarAt(t[d].name, d) \in VarsIn(t, D)
  <1>1. Len(t) \in Nat /\ m \in Nat
    BY TextIs
  <1>2. ASSUME NEW d \in D
        PROVE  /\ d \in 1..m /\ VarAt(t[d].name, d) \in Actual
               /\ VarAt(t[d].name, d).at = d /\ VarAt(t[d].name, d).name = t[d].name
    <2>1. d \in 1..m /\ Declaring(t[d])
      BY DEF SeenBy
    <2>2. Written(t[d])
      BY <1>1, <2>1 DEF TextRight
    <2>3. t[d].name \in VariableNames
      BY <2>1, <2>2 DEF Written
    <2>4. VarAt(t[d].name, d) \in Vars
      BY <1>1, <2>1, <2>3, VarAtIs
    <2> QED BY <1>1, <2>1, <2>4 DEF Actual, VarAt
  <1>3. ASSUME NEW v \in VarsIn(t, D) PROVE v \in Actual /\ v.at \in D /\ v.at <= m /\ v.name = t[v.at].name
    <2>1. PICK d \in D : v = VarAt(t[d].name, d)
      BY DEF VarsIn
    <2>2. d \in 1..m /\ v \in Actual /\ v.at = d /\ v.name = t[d].name
      BY <1>2, <2>1
    <2> QED BY <1>1, <2>2
  <1>4. D \subseteq 1..m
    BY <1>2
  <1>5. \A d \in D : VarAt(t[d].name, d) \in VarsIn(t, D)
    BY DEF VarsIn
  <1> QED BY <1>3, <1>4, <1>5

LEMMA VarsInSame ==
    ASSUME NEW t, NEW u, NEW s, Grown(u, t, s), NEW D, D \subseteq 1..Len(t)
    PROVE  VarsIn(u, D) = VarsIn(t, D)
  BY DEF Grown, VarsIn

LEMMA ConcatThree ==
    ASSUME NEW X, NEW a \in Seq(X), NEW b \in Seq(X), NEW c \in Seq(X)
    PROVE  (a \o b) \o c = a \o (b \o c)
  OBVIOUS

LEMMA AddTwice ==
    ASSUME NEW S \in Seq(Snaps), S # << >>, NEW vs \in Seq(Vars), NEW ws \in Seq(Vars)
    PROVE  AddS(AddS(S, vs), ws) = AddS(S, vs \o ws) /\ vs \o ws \in Seq(Vars)
  <1>1. PICK f : f = Last(S)  OBVIOUS
  <1>2. f \in Snaps
    BY <1>1, WithLastIs, FrontIs
  <1>3. f.actvar \in Seq(Vars)
    BY <1>2 DEF Snaps
  <1>4. vs \o ws \in Seq(Vars)
    BY ConcatProperties
  <1>5. PICK g : g = AddVars(f, vs)  OBVIOUS
  <1>6. PICK h : h = AddVars(f, vs \o ws)  OBVIOUS
  <1>7. g \in Snaps /\ g.actvar = f.actvar \o vs /\ g.levels = f.levels /\ g.owner = f.owner
    BY <1>2, <1>5, FunctionTypes
  <1>8. h \in Snaps
    BY <1>2, <1>4, <1>6, FunctionTypes
  <1>9. AddVars(g, ws) = h
    <2>1. (f.actvar \o vs) \o ws = f.actvar \o (vs \o ws)
      <3>1. PICK a \in Seq(Vars) : a = f.actvar
        BY <1>3
      <3>2. (a \o vs) \o ws = a \o (vs \o ws)
        BY ConcatThree
      <3> QED BY <3>1, <3>2
    <2> QED BY <1>6, <1>7, <2>1 DEF AddVars
  <1>10. AddS(S, vs) = WithLast(S, g)
    BY <1>1, <1>5 DEF AddS
  <1>11. Last(WithLast(S, g)) = g
    BY <1>7, WithLastIs
  <1>12. AddS(AddS(S, vs), ws) = WithLast(WithLast(S, g), h)
    BY <1>9, <1>10, <1>11 DEF AddS
  <1>13. WithLast(WithLast(S, g), h) = WithLast(S, h)
    BY <1>7, <1>8, WithLastTwice
  <1>14. AddS(S, vs \o ws) = WithLast(S, h)
    BY <1>1, <1>6 DEF AddS
  <1> QED BY <1>4, <1>12, <1>13, <1>14

LEMMA LinksAre ==
    ASSUME NEW t, NEW p, TextRight(t, p), NEW C, StackLinks(C, t, p)
    PROVE  /\ C \in Stacks /\ C # << >> /\ Last(C) = C[Len(p) + 1] /\ Last(C) \in Seq(Snaps) /\ Last(C) # << >>
           /\ Len(p) \in Nat /\ Len(C) = Len(p) + 1
           /\ \A r \in 1..Len(C) : C[r] \in Seq(Snaps)
  <1>1. C \in Seq(Seq(Snaps)) /\ Len(C) = Len(p) + 1 /\ \A r \in 1..Len(C) : C[r] # << >>
    BY DEF StackLinks, Stacks
  <1>2. Len(p) \in Nat
    BY TextIs
  <1>3. C # << >>
    <2>1. Len(C) # 0
      BY <1>1, <1>2
    <2> QED BY <1>1, <2>1, EmptySeq
  <1>4. Last(C) = C[Len(p) + 1] /\ Last(C) \in Seq(Snaps)
    BY <1>1, <1>3, FrontIs
  <1>5. Last(C) # << >>
    <2>1. Len(p) + 1 \in 1..Len(C)
      BY <1>1, <1>2
    <2> QED BY <1>1, <1>4, <2>1
  <1>6. \A r \in 1..Len(C) : C[r] \in Seq(Snaps)
    BY <1>1, ElementOfSeq
  <1> QED BY <1>1, <1>2, <1>3, <1>4, <1>5, <1>6 DEF Stacks

\* What block r was opened on, for what is known of the operations.
LEMMA AfterIs ==
    ASSUME NEW t, NEW p, TextRight(t, p), NEW r \in 1..Len(p), NEW S \in Seq(Snaps), S # << >>
    PROVE  /\ t[p[r]].kind \in Openings /\ p[r] \in Nat /\ p[r] # 0
           /\ t[p[r]].kind \in {"for", "local function", "local = function"} => t[p[r]].name \in VariableNames
           /\ After(S, t[p[r]].kind, t[p[r]].name, p[r]) \in Seq(Snaps)
           /\ After(S, t[p[r]].kind, t[p[r]].name, p[r]) # << >>
  <1>1. PICK b : b = p[r]  OBVIOUS
  <1>2. b \in 1..Len(t) /\ t[b].opens /\ Len(t) \in Nat
    BY <1>1, TextIs DEF TextRight, WellPlaced
  <1>3. PICK s : s = t[b]  OBVIOUS
  <1>4. Written(s) /\ s.opens
    BY <1>2, <1>3 DEF TextRight
  <1>5. s.kind \in Openings
    BY <1>4 DEF Written
  <1>6. s.kind \in {"for", "local function", "local = function"} => s.name \in VariableNames
    BY <1>4 DEF Written, Declaring, Declares
  <1>7. b \in Nat /\ b # 0
    BY <1>2
  <1>8. << >> \in Seq(Vars)
    BY EmptySeq
  <1>9. After(S, s.kind, s.name, b) \in Seq(Snaps) /\ After(S, s.kind, s.name, b) # << >>
    BY <1>5, <1>6, <1>7, <1>8, EndUndoes
  <1> QED BY <1>1, <1>3, <1>5, <1>6, <1>7, <1>9

LEMMA LinksAdd ==
    ASSUME NEW t, NEW p, TextRight(t, p), NEW C, StackLinks(C, t, p), NEW ws \in Seq(Vars)
    PROVE  StackLinks(WithLast(C, AddS(Last(C), ws)), t, p)
  <1>1. PICK n \in Nat : n = Len(p)
    BY TextIs
  <1>2. PICK L : L = Last(C)  OBVIOUS
  <1>3. /\ C \in Stacks /\ C # << >> /\ L = C[n + 1] /\ L \in Seq(Snaps) /\ L # << >> /\ Len(C) = n + 1
        /\ \A r \in 1..(n + 1) : C[r] \in Seq(Snaps)
    BY <1>1, <1>2, LinksAre
  <1>4. PICK T : T = AddS(L, ws)  OBVIOUS
  <1>5. T \in Seq(Snaps) /\ T # << >> /\ Len(T) = Len(L)
    <2>1. T \in Seq(Snaps) /\ T # << >>
      BY <1>3, <1>4, StackTypes
    <2>2. Adds(L, T, ws, Len(L[Len(L)].actvar))
      BY <1>3, <1>4, AddedAre
    <2> QED BY <2>1, <2>2 DEF Adds
  <1>6. PICK D : D = WithLast(C, T)  OBVIOUS
  <1>7. /\ D \in Stacks /\ Len(D) = n + 1 /\ D[n + 1] = T
        /\ \A r \in 1..n : D[r] = C[r]
    <2>1. C \in Seq(Seq(Snaps)) /\ C # << >> /\ T \in Seq(Snaps)
      BY <1>3, <1>5 DEF Stacks
    <2>2. /\ WithLast(C, T) \in Seq(Seq(Snaps)) /\ WithLast(C, T) # << >>
          /\ Len(WithLast(C, T)) = Len(C) /\ Last(WithLast(C, T)) = T
          /\ \A i \in 1..(Len(C) - 1) : WithLast(C, T)[i] = C[i]
      BY <2>1, WithLastIs
    <2>3. /\ D \in Seq(Seq(Snaps)) /\ D # << >> /\ Len(D) = n + 1 /\ Last(D) = T
          /\ \A i \in 1..n : D[i] = C[i]
      BY <1>3, <1>6, <2>2
    <2>4. Last(D) = D[n + 1]
      BY <2>3, FrontIs
    <2> QED BY <2>3, <2>4 DEF Stacks
  <1>8. Len(D[1]) = 1
    <2>1. Len(C[1]) = 1
      BY DEF StackLinks
    <2>2. CASE n = 0
      BY <1>3, <1>5, <1>7, <2>1, <2>2
    <2>3. CASE n # 0
      <3>1. 1 \in 1..n
        BY <2>3
      <3> QED BY <1>7, <2>1, <3>1
    <2> QED BY <2>2, <2>3
  <1>9. \A r \in 1..(n + 1) : r = n + 1 \/ r \in 1..n  OBVIOUS
  <1>10. \A r \in 1..(n + 1) : D[r] # << >>
    <2>1. \A r \in 1..(n + 1) : C[r] # << >>
      BY <1>3 DEF StackLinks
    <2>2. \A r \in 1..n : r \in 1..(n + 1)  OBVIOUS
    <2> QED BY <1>5, <1>7, <1>9, <2>1, <2>2
  <1>11. ASSUME NEW r \in 1..n PROVE Linked(D, t, p, r)
    <2>1. Linked(C, t, p, r)
      BY <1>1 DEF StackLinks
    <2>2. r + 1 \in 1..(n + 1)  OBVIOUS
    <2>3. CASE r + 1 = n + 1
      <3>1. PICK vs \in Seq(Vars) : L = AddS(After(C[r], t[p[r]].kind, t[p[r]].name, p[r]), vs)
        BY <1>3, <2>1, <2>3 DEF Linked, Leads
      <3>2. PICK X : X = After(C[r], t[p[r]].kind, t[p[r]].name, p[r])  OBVIOUS
      <3>3. C[r] \in Seq(Snaps) /\ C[r] # << >>
        <4>1. r \in 1..(n + 1)  OBVIOUS
        <4> QED BY <1>3, <4>1 DEF StackLinks
      <3>4. X \in Seq(Snaps) /\ X # << >>
        BY <1>1, <3>2, <3>3, AfterIs
      <3>5. AddS(AddS(X, vs), ws) = AddS(X, vs \o ws) /\ vs \o ws \in Seq(Vars)
        BY <3>4, AddTwice
      <3>6. T = AddS(X, vs \o ws)
        BY <1>4, <3>1, <3>2, <3>5
      <3>7. Leads(C[r], T, t, p[r])
        BY <3>2, <3>5, <3>6 DEF Leads
      <3> QED BY <1>7, <2>1, <2>3, <3>7 DEF Linked
    <2>4. CASE r + 1 # n + 1
      <3>1. r + 1 \in 1..n
        BY <2>4
      <3>2. D[r] = C[r] /\ D[r + 1] = C[r + 1]
        BY <1>7, <3>1
      <3> QED BY <2>1, <3>2 DEF Linked
    <2> QED BY <2>3, <2>4
  <1>12. StackLinks(D, t, p)
    BY <1>1, <1>7, <1>8, <1>10, <1>11 DEF StackLinks
  <1> QED BY <1>2, <1>4, <1>6, <1>12

\* Another statement changes nothing of what has been.
LEMMA LinksGrow ==
    ASSUME NEW t, NEW p, TextRight(t, p), NEW C, StackLinks(C, t, p), NEW s
    PROVE  StackLinks(C, Append(t, s), p)
  <1>1. PICK u : u = Append(t, s)  OBVIOUS
  <1>2. Grown(u, t, s)
    BY <1>1, TextIs
  <1>3. ASSUME NEW r \in 1..Len(p) PROVE Linked(C, u, p, r)
    <2>1. Linked(C, t, p, r)
      BY DEF StackLinks
    <2>2. PICK b : b = p[r]  OBVIOUS
    <2>3. b \in 1..Len(t) /\ Len(t) \in Nat
      BY <2>2, TextIs
    <2>4. u[b] = t[b]
      BY <1>2, <2>3 DEF Grown
    <2>5. b - 1 \in 0..Len(t)
      BY <2>3
    <2>6. PICK D : D = SeenBy(t, b - 1, t[b].path)  OBVIOUS
    <2>7. SeenBy(u, b - 1, u[b].path) = D
      BY <1>2, <2>4, <2>5, <2>6, SeenBefore
    <2>8. D \subseteq 1..(b - 1)
      BY <2>5, <2>6, VarsInAre
    <2>9. D \subseteq 1..Len(t)
      BY <2>3, <2>8
    <2>10. VarsIn(u, D) = VarsIn(t, D)
      BY <1>2, <2>9, VarsInSame
    <2>11. Shows(C[r], VarsIn(u, SeenBy(u, b - 1, u[b].path)))
      BY <2>1, <2>2, <2>6, <2>7, <2>10 DEF Linked
    <2>12. Leads(C[r], C[r + 1], u, b)
      BY <2>1, <2>2, <2>4 DEF Linked, Leads
    <2> QED BY <2>2, <2>11, <2>12 DEF Linked
  <1> QED BY <1>1, <1>3 DEF StackLinks

LEMMA ChainSame ==
    ASSUME NEW t, NEW p, TextRight(t, p), NEW s, Written(s), s.path = p, ~s.opens, ~Ends(s),
           NEW C, NEW S, ChainOf(C, t, p, S),
           NEW ws, ws = IF Declaring(s) THEN <<VarAt(s.name, Len(t) + 1)>> ELSE << >>
    PROVE  \E D : ChainOf(D, Append(t, s), p, AddS(S, ws))
  <1>1. PICK u : u = Append(t, s)  OBVIOUS
  <1>2. PICK m \in Nat : m = Len(t)
    BY TextIs
  <1>3. Grown(u, t, s)
    BY <1>1, TextIs
  <1>4. StackLinks(C, t, p) /\ Last(C) = S
    BY DEF ChainOf
  <1>5. S \in Seq(Snaps) /\ S # << >>
    BY <1>4, LinksAre
  <1>6. TextRight(u, p)
    BY <1>1, TextSame
  <1>7. StackLinks(C, u, p)
    BY <1>1, <1>4, LinksGrow
  <1>8. ws \in Seq(Vars)
    <2>1. CASE Declaring(s)
      <3>1. s.name \in VariableNames
        BY <2>1 DEF Written
      <3>2. ws = <<VarAt(s.name, m + 1)>> /\ m + 1 \in Nat
        BY <1>2, <2>1
      <3> QED BY <3>1, <3>2, VarAtIs
    <2>2. CASE ~Declaring(s)
      BY <2>2, EmptySeq
    <2> QED BY <2>1, <2>2
  <1>9. PICK D : D = WithLast(C, AddS(S, ws))  OBVIOUS
  <1>10. StackLinks(D, u, p)
    BY <1>4, <1>6, <1>7, <1>8, <1>9, LinksAdd
  <1>11. Last(D) = AddS(S, ws)
    <2>1. C \in Seq(Seq(Snaps)) /\ C # << >>
      BY <1>4, LinksAre DEF Stacks
    <2>2. AddS(S, ws) \in Seq(Snaps)
      BY <1>5, <1>8, StackTypes
    <2> QED BY <1>9, <2>1, <2>2, WithLastIs
  <1>12. PICK A : A = SeenBy(t, m, p)  OBVIOUS
  <1>13. A \subseteq 1..m /\ VarsIn(t, A) \in SUBSET Actual /\ \A v \in VarsIn(t, A) : v.at <= m
    <2>1. m \in 0..Len(t)
      BY <1>2
    <2> QED BY <1>12, <2>1, VarsInAre
  <1>14. Shows(S, VarsIn(t, A))
    BY <1>2, <1>12 DEF ChainOf
  <1>15. SeenBy(u, m + 1, p) = A \union {d \in {m + 1} : Declaring(s)}
    BY <1>1, <1>2, <1>12, SeenSame
  <1>16. VarsIn(u, A) = VarsIn(t, A)
    BY <1>2, <1>3, <1>13, VarsInSame
  <1>17. Len(u) = m + 1 /\ u[m + 1] = s
    BY <1>2, <1>3 DEF Grown
  <1>18. Shows(AddS(S, ws), VarsIn(u, SeenBy(u, m + 1, p)))
    <2>1. CASE Declaring(s)
      <3>1. s.name \in VariableNames
        BY <2>1 DEF Written
      <3>2. ws = <<VarAt(s.name, m + 1)>> /\ m + 1 \in Nat /\ m + 1 # 0
        BY <1>2, <2>1
      <3>3. \A v \in VarsIn(t, A) : v.at < m + 1
        <4>1. \A v \in VarsIn(t, A) : v.at \in Nat
          BY <1>13 DEF Actual, Vars
        <4> QED BY <1>13, <4>1
      <3>4. Shows(AddS(S, <<VarAt(s.name, m + 1)>>), VarsIn(t, A) \union {VarAt(s.name, m + 1)})
        BY <1>5, <1>13, <1>14, <3>1, <3>2, <3>3, NamedShows
      <3>5. SeenBy(u, m + 1, p) = A \union {m + 1}
        BY <1>15, <2>1
      <3>6. VarsIn(u, A \union {m + 1}) = VarsIn(u, A) \union {VarAt(s.name, m + 1)}
        BY <1>17 DEF VarsIn
      <3> QED BY <1>16, <3>2, <3>4, <3>5, <3>6
    <2>2. CASE ~Declaring(s)
      <3>1. SeenBy(u, m + 1, p) = A /\ ws = << >>
        BY <1>15, <2>2
      <3>2. AddS(S, << >>) = S
        BY <1>5, <1>8, <3>1, StackTypes
      <3> QED BY <1>14, <1>16, <3>1, <3>2
    <2> QED BY <2>1, <2>2
  <1>19. ChainOf(D, u, p, AddS(S, ws))
    BY <1>10, <1>11, <1>17, <1>18 DEF ChainOf
  <1> QED BY <1>1, <1>19

LEMMA ChainOpens ==
    ASSUME NEW t, NEW p, TextRight(t, p), NEW s, Written(s), s.path = p, s.opens,
           NEW C, NEW S, ChainOf(C, t, p, S)
    PROVE  \E D : ChainOf(D, Append(t, s), Append(p, Len(t) + 1), After(S, s.kind, s.name, Len(t) + 1))
  <1>1. PICK u : u = Append(t, s)  OBVIOUS
  <1>2. PICK m \in Nat : m = Len(t)
    BY TextIs
  <1>3. PICK q : q = Append(p, m + 1)  OBVIOUS
  <1>4. Grown(u, t, s) /\ p \in Seq(Nat)
    BY <1>1, TextIs DEF TextRight
  <1>5. Len(u) = m + 1 /\ u[m + 1] = s /\ \A d \in 1..m : u[d] = t[d]
    BY <1>2, <1>4 DEF Grown
  <1>6. StackLinks(C, t, p) /\ Last(C) = S
    BY DEF ChainOf
  <1>7. S \in Seq(Snaps) /\ S # << >>
    BY <1>6, LinksAre
  <1>8. TextRight(u, q)
    BY <1>1, <1>2, <1>3, TextOpens
  <1>9. StackLinks(C, u, p)
    BY <1>1, <1>6, LinksGrow
  <1>10. PICK n \in Nat : n = Len(p)
    BY TextIs
  <1>11. q \in Seq(Nat) /\ Len(q) = n + 1 /\ q[n + 1] = m + 1 /\ \A r \in 1..n : q[r] = p[r]
    <2>1. m + 1 \in Nat  OBVIOUS
    <2> QED BY <1>3, <1>4, <1>10, <2>1, AppendProperties
  <1>12. PICK T : T = After(S, s.kind, s.name, m + 1)  OBVIOUS
  <1>13. /\ T \in Seq(Snaps) /\ T # << >> /\ s.kind \in Openings
         /\ s.kind \in {"for", "local function", "local = function"} => s.name \in VariableNames
    <2>1. PICK r : r = n + 1  OBVIOUS
    <2>2. r \in 1..Len(q) /\ u[q[r]] = s /\ q[r] = m + 1
      BY <1>5, <1>11, <2>1
    <2>3. /\ u[q[r]].kind \in Openings /\ q[r] \in Nat /\ q[r] # 0
          /\ u[q[r]].kind \in {"for", "local function", "local = function"} => u[q[r]].name \in VariableNames
          /\ After(S, u[q[r]].kind, u[q[r]].name, q[r]) \in Seq(Snaps)
          /\ After(S, u[q[r]].kind, u[q[r]].name, q[r]) # << >>
      BY <1>7, <1>8, <2>2, AfterIs
    <2> QED BY <1>12, <2>2, <2>3, Zenon
  <1>14. /\ C \in Stacks /\ C # << >> /\ S = C[n + 1] /\ Len(C) = n + 1
         /\ \A r \in 1..(n + 1) : C[r] \in Seq(Snaps)
    BY <1>6, <1>10, LinksAre
  <1>15. PICK D : D = Append(C, T)  OBVIOUS
  <1>16. /\ D \in Stacks /\ Len(D) = n + 2 /\ D[n + 2] = T /\ Last(D) = T /\ \A r \in 1..(n + 1) : D[r] = C[r]
    <2>1. C \in Seq(Seq(Snaps))
      BY <1>14 DEF Stacks
    <2>2. /\ D \in Seq(Seq(Snaps)) /\ Len(D) = Len(C) + 1 /\ Last(D) = T
          /\ \A r \in 1..Len(C) : D[r] = C[r]
      BY <1>13, <1>15, <2>1, FrontOfAppend
    <2>3. D[n + 2] = T
      <3>1. D # << >>
        BY <1>13, <1>15, <2>1, FrontOfAppend
      <3>2. Last(D) = D[Len(D)]
        BY <2>2, <3>1, FrontIs
      <3> QED BY <1>14, <2>2, <3>2
    <2> QED BY <1>14, <2>2, <2>3 DEF Stacks
  <1>17. \A r \in 1..(n + 2) : r = n + 2 \/ r \in 1..(n + 1)  OBVIOUS
  <1>18. PICK A : A = SeenBy(t, m, p)  OBVIOUS
  <1>19. A \subseteq 1..m /\ VarsIn(t, A) \in SUBSET Actual /\ \A v \in VarsIn(t, A) : v.at <= m
    <2>1. m \in 0..Len(t)
      BY <1>2
    <2> QED BY <1>18, <2>1, VarsInAre
  <1>20. Shows(S, VarsIn(t, A))
    BY <1>2, <1>18 DEF ChainOf
  <1>21. VarsIn(u, A) = VarsIn(t, A)
    BY <1>2, <1>4, <1>19, VarsInSame
  <1>22. Linked(D, u, q, n + 1)
    <2>1. SeenBy(u, m, p) = A
      <3>1. m \in 0..Len(t)
        BY <1>2
      <3> QED BY <1>4, <1>18, <3>1, SeenBefore
    <2>2. q[n + 1] = m + 1 /\ m + 1 - 1 = m /\ u[m + 1].path = p
      BY <1>5, <1>11
    <2>3. D[n + 1] = S /\ D[n + 1 + 1] = T
      BY <1>14, <1>16
    <2>4. Shows(S, VarsIn(u, SeenBy(u, m, p)))
      BY <1>20, <1>21, <2>1
    <2>5. Leads(S, T, u, m + 1)
      <3>1. << >> \in Seq(Vars)
        BY EmptySeq
      <3>2. AddS(T, << >>) = T
        BY <1>13, <3>1, StackTypes
      <3> QED BY <1>5, <1>12, <3>1, <3>2 DEF Leads
    <2> QED BY <2>2, <2>3, <2>4, <2>5 DEF Linked
  <1>23. ASSUME NEW r \in 1..n PROVE Linked(D, u, q, r)
    <2>1. Linked(C, u, p, r)
      BY <1>9, <1>10 DEF StackLinks
    <2>2. r \in 1..(n + 1) /\ r + 1 \in 1..(n + 1)  OBVIOUS
    <2>3. D[r] = C[r] /\ D[r + 1] = C[r + 1] /\ q[r] = p[r]
      BY <1>11, <1>16, <2>2
    <2> QED BY <2>1, <2>3 DEF Linked
  <1>24. StackLinks(D, u, q)
    <2>1. \A r \in 1..(n + 1) : r = n + 1 \/ r \in 1..n  OBVIOUS
    <2>2. \A r \in 1..Len(q) : Linked(D, u, q, r)
      BY <1>11, <1>22, <1>23, <2>1
    <2>3. \A r \in 1..(n + 1) : C[r] # << >>
      BY <1>6, <1>14 DEF StackLinks
    <2>4. \A r \in 1..(n + 2) : D[r] # << >>
      BY <1>13, <1>16, <1>17, <2>3
    <2>5. D[1] = C[1]
      BY <1>16
    <2>6. Len(C[1]) = 1
      BY <1>6 DEF StackLinks
    <2> QED BY <1>11, <1>16, <2>2, <2>4, <2>5, <2>6 DEF StackLinks
  <1>25. SeenBy(u, m + 1, q) = A \union {d \in {m + 1} : Declaring(s) /\ ~Delayed(s)}
    BY <1>1, <1>2, <1>3, <1>18, SeenOpens
  <1>26. VarsIn(u, SeenBy(u, m + 1, q)) = VarsIn(t, A) \union Gained(s.kind, s.name, m + 1)
    <2>1. Declaring(s) /\ ~Delayed(s) <=> s.kind \in {"for", "local function"}
      BY <1>13 DEF Declaring, Delayed, Declares, Openings, Functions
    <2>2. CASE s.kind \in {"for", "local function"}
      <3>1. SeenBy(u, m + 1, q) = A \union {m + 1}
        BY <1>25, <2>1, <2>2
      <3>2. VarsIn(u, A \union {m + 1}) = VarsIn(u, A) \union {VarAt(s.name, m + 1)}
        BY <1>5 DEF VarsIn
      <3>3. Gained(s.kind, s.name, m + 1) = {VarAt(s.name, m + 1)}
        BY <2>2 DEF Gained
      <3> QED BY <1>21, <3>1, <3>2, <3>3
    <2>3. CASE s.kind \notin {"for", "local function"}
      <3>1. SeenBy(u, m + 1, q) = A
        BY <1>25, <2>1, <2>3
      <3>2. Gained(s.kind, s.name, m + 1) = {}
        BY <2>3 DEF Gained
      <3> QED BY <1>21, <3>1, <3>2
    <2> QED BY <2>2, <2>3
  <1>27. Shows(T, VarsIn(t, A) \union Gained(s.kind, s.name, m + 1))
    <2>1. m + 1 \in Nat /\ m + 1 # 0  OBVIOUS
    <2>2. \A v \in VarsIn(t, A) : v.at < m + 1
      <3>1. \A v \in VarsIn(t, A) : v.at \in Nat
        BY <1>19 DEF Actual, Vars
      <3> QED BY <1>19, <3>1
    <2> QED BY <1>7, <1>12, <1>13, <1>19, <1>20, <2>1, <2>2, AfterShows
  <1>28. ChainOf(D, u, q, T)
    BY <1>5, <1>16, <1>24, <1>26, <1>27 DEF ChainOf
  <1> QED BY <1>1, <1>2, <1>3, <1>12, <1>28

LEMMA ChainEnds ==
    ASSUME NEW t, NEW p, TextRight(t, p), NEW s, Closing(t, p, s), NEW C, NEW S, ChainOf(C, t, p, S),
           NEW b, b = Last(p)
    PROVE  \E Z \in Seq(Snaps) : \E vs \in Seq(Vars) :
              /\ Z # << >> /\ S = AddS(After(Z, t[b].kind, t[b].name, b), vs)
              /\ \E D : ChainOf(D, Append(t, s), Front(p), AddS(Z, Staying(t[b].kind, t[b].name, b)))
  <1>1. PICK u : u = Append(t, s)  OBVIOUS
  <1>2. PICK m \in Nat : m = Len(t)
    BY TextIs
  <1>3. PICK q : q = Front(p)  OBVIOUS
  <1>4. PICK n : n = Len(p)  OBVIOUS
  <1>5. Grown(u, t, s) /\ p \in Seq(Nat) /\ p # << >> /\ s.path = q
    BY <1>1, <1>3, TextIs DEF TextRight, Closing
  <1>6. q \in Seq(Nat) /\ n \in Nat \ {0} /\ Len(q) = n - 1 /\ (\A i \in 1..(n - 1) : q[i] = p[i]) /\ b = p[n]
    BY <1>3, <1>4, <1>5, FrontIs
  <1>7. Len(u) = m + 1 /\ u[m + 1] = s /\ \A d \in 1..m : u[d] = t[d]
    BY <1>2, <1>5 DEF Grown
  <1>8. q = t[b].path /\ b \in 1..m /\ t[b].opens
    BY <1>2, <1>5, ClosingIs
  <1>9. StackLinks(C, t, p) /\ Last(C) = S
    BY DEF ChainOf
  <1>10. /\ C \in Stacks /\ C # << >> /\ S = C[n + 1] /\ Len(C) = n + 1
         /\ \A r \in 1..(n + 1) : C[r] \in Seq(Snaps)
    BY <1>4, <1>9, LinksAre
  <1>11. n \in 1..n /\ n \in 1..(n + 1)
    BY <1>6
  <1>12. PICK Z : Z = C[n]  OBVIOUS
  <1>13. Z \in Seq(Snaps) /\ Z # << >> /\ Linked(C, t, p, n)
    BY <1>4, <1>9, <1>10, <1>11, <1>12 DEF StackLinks
  <1>14. PICK vs \in Seq(Vars) : S = AddS(After(Z, t[b].kind, t[b].name, b), vs)
    BY <1>6, <1>10, <1>12, <1>13 DEF Linked, Leads
  <1>15. PICK kind : kind = t[b].kind  OBVIOUS
  <1>16. PICK name : name = t[b].name  OBVIOUS
  <1>17. /\ kind \in Openings /\ b \in Nat /\ b # 0
         /\ kind \in {"for", "local function", "local = function"} => name \in VariableNames
    <2>1. n \in 1..Len(p)
      BY <1>4, <1>11
    <2>2. /\ t[p[n]].kind \in Openings /\ p[n] \in Nat /\ p[n] # 0
          /\ t[p[n]].kind \in {"for", "local function", "local = function"} => t[p[n]].name \in VariableNames
      BY <1>13, <2>1, AfterIs
    <2> QED BY <1>6, <1>15, <1>16, <2>2, Zenon
  <1>18. PICK B : B = Front(C)  OBVIOUS
  <1>19. B \in Stacks /\ Len(B) = n /\ Last(B) = Z /\ \A r \in 1..n : B[r] = C[r]
    <2>1. C \in Seq(Seq(Snaps))
      BY <1>10 DEF Stacks
    <2>2. B \in Seq(Seq(Snaps)) /\ Len(B) = n /\ \A r \in 1..n : B[r] = C[r]
      <3>1. /\ B \in Seq(Seq(Snaps)) /\ Len(B) = Len(C) - 1
            /\ \A r \in 1..(Len(C) - 1) : B[r] = C[r]
        BY <1>10, <1>18, <2>1, FrontIs
      <3>2. Len(C) - 1 = n
        BY <1>6, <1>10
      <3> QED BY <3>1, <3>2
    <2>3. Last(B) = B[n]
      BY <2>2 DEF Last
    <2> QED BY <1>11, <1>12, <2>2, <2>3 DEF Stacks
  <1>20. StackLinks(C, u, p)
    BY <1>1, <1>9, LinksGrow
  <1>21. StackLinks(B, u, q)
    <2>1. ASSUME NEW r \in 1..(n - 1) PROVE Linked(B, u, q, r)
      <3>1. r \in 1..n /\ r + 1 \in 1..n
        BY <1>6
      <3>2. Linked(C, u, p, r)
        BY <1>4, <1>20, <3>1 DEF StackLinks
      <3>3. B[r] = C[r] /\ B[r + 1] = C[r + 1] /\ q[r] = p[r]
        BY <1>6, <1>19, <3>1
      <3> QED BY <3>2, <3>3 DEF Linked
    <2>2. \A r \in 1..(n + 1) : C[r] # << >>
      BY <1>9, <1>10 DEF StackLinks
    <2>3. \A r \in 1..n : r \in 1..(n + 1)
      BY <1>6
    <2>4. \A r \in 1..n : B[r] # << >>
      BY <1>19, <2>2, <2>3
    <2>5. 1 \in 1..n
      BY <1>6
    <2>6. Len(B[1]) = 1
      BY <1>9, <1>19, <2>5 DEF StackLinks
    <2>7. Len(B) = Len(q) + 1
      BY <1>6, <1>19
    <2> QED BY <1>6, <1>19, <2>1, <2>4, <2>6, <2>7 DEF StackLinks
  <1>22. TextRight(u, q)
    BY <1>1, <1>3, TextEnds
  <1>23. PICK ws : ws = Staying(kind, name, b)  OBVIOUS
  <1>24. ws \in Seq(Vars)
    <2>1. CASE kind \in {"local function", "local = function"}
      <3>1. ws = <<VarAt(name, b)>> /\ name \in VariableNames
        BY <1>17, <1>23, <2>1 DEF Staying
      <3> QED BY <1>17, <3>1, VarAtIs
    <2>2. CASE kind \notin {"local function", "local = function"}
      <3>1. ws = << >>
        BY <1>23, <2>2 DEF Staying
      <3> QED BY <3>1, EmptySeq
    <2> QED BY <2>1, <2>2
  <1>25. PICK D : D = WithLast(B, AddS(Z, ws))  OBVIOUS
  <1>26. StackLinks(D, u, q)
    BY <1>19, <1>21, <1>22, <1>24, <1>25, LinksAdd
  <1>27. Last(D) = AddS(Z, ws)
    <2>1. B \in Seq(Seq(Snaps)) /\ B # << >>
      BY <1>21, <1>22, LinksAre DEF Stacks
    <2>2. AddS(Z, ws) \in Seq(Snaps)
      BY <1>13, <1>24, StackTypes
    <2> QED BY <1>25, <2>1, <2>2, WithLastIs
  <1>28. PICK A : A = SeenBy(t, b - 1, q)  OBVIOUS
  <1>29. b - 1 \in 0..Len(t) /\ b - 1 \in Nat
    BY <1>2, <1>8
  <1>30. A \subseteq 1..(b - 1) /\ VarsIn(t, A) \in SUBSET Actual /\ \A v \in VarsIn(t, A) : v.at <= b - 1
    BY <1>28, <1>29, VarsInAre
  <1>31. Shows(Z, VarsIn(t, A))
    BY <1>6, <1>8, <1>12, <1>13, <1>28 DEF Linked
  <1>32. VarsIn(u, A) = VarsIn(t, A)
    <2>1. A \subseteq 1..Len(t)
      BY <1>2, <1>8, <1>30
    <2> QED BY <1>5, <2>1, VarsInSame
  <1>33. SeenBy(u, b - 1, q) = A
    BY <1>5, <1>28, <1>29, SeenBefore
  <1>34. SeenBy(u, m + 1, q) = A \union {d \in {b} : Declaring(t[d]) /\ ~Looping(t[d])}
    BY <1>1, <1>2, <1>5, <1>33, SeenEnds
  <1>35. VarsIn(u, SeenBy(u, m + 1, q)) = VarsIn(t, A) \union KeptVars(kind, name, b)
    <2>1. Declaring(t[b]) /\ ~Looping(t[b]) <=> kind \in {"local function", "local = function"}
      BY <1>15, <1>17 DEF Declaring, Looping, Declares, Openings, Functions
    <2>2. CASE kind \in {"local function", "local = function"}
      <3>1. SeenBy(u, m + 1, q) = A \union {b}
        BY <1>34, <2>1, <2>2
      <3>2. VarsIn(u, A \union {b}) = VarsIn(u, A) \union {VarAt(name, b)}
        BY <1>7, <1>8, <1>16 DEF VarsIn
      <3>3. KeptVars(kind, name, b) = {VarAt(name, b)}
        BY <2>2 DEF KeptVars
      <3> QED BY <1>32, <3>1, <3>2, <3>3
    <2>3. CASE kind \notin {"local function", "local = function"}
      <3>1. SeenBy(u, m + 1, q) = A
        BY <1>34, <2>1, <2>3
      <3>2. KeptVars(kind, name, b) = {}
        BY <2>3 DEF KeptVars
      <3> QED BY <1>32, <3>1, <3>2
    <2> QED BY <2>2, <2>3
  <1>36. Shows(AddS(Z, ws), VarsIn(t, A) \union KeptVars(kind, name, b))
    <2>1. \A v \in VarsIn(t, A) : v.at < b
      <3>1. \A v \in VarsIn(t, A) : v.at \in Nat
        BY <1>30 DEF Actual, Vars
      <3> QED BY <1>8, <1>30, <3>1
    <2> QED BY <1>13, <1>17, <1>23, <1>30, <1>31, <2>1, AfterShows
  <1>37. ChainOf(D, u, q, AddS(Z, ws))
    BY <1>7, <1>26, <1>27, <1>35, <1>36 DEF ChainOf
  <1> QED BY <1>1, <1>3, <1>13, <1>14, <1>15, <1>16, <1>23, <1>37

----------------------------------------------------------------------------
(* The invariant.                                                          *)

LEMMA NamesAre ==
    /\ NamesResolved <=> NamesIn(text, found)
    /\ NamesResolved' <=> NamesIn(text', found')
  BY DEF NamesResolved, NamesIn, Means, MeansOf, Seen, SeenBy, Since, SinceIn, EndOf, EndIn, EndsIn,
         BlockOf, BlockIn, Kind, Ends, Declaring, Delayed, Looping

LEMMA PathNext ==
    ASSUME NEW s, Sequence(text), text' = Append(text, s)
    PROVE  Path' = PathAfter(text, s) /\ (s.kind # "use" => NamesResolved')
  <1>1. PICK X : text \in Seq(X)
    BY DEF Sequence
  <1>2. PICK Y : Y = X \union {s}  OBVIOUS
  <1>3. text \in Seq(Y) /\ s \in Y
    BY <1>1, <1>2, SeqMonotonic
  <1>4. /\ Append(text, s) # << >> /\ Len(Append(text, s)) = Len(text) + 1
        /\ Last(Append(text, s)) = s
    BY <1>3, FrontOfAppend
  <1>5. PICK u : u = Append(text, s)  OBVIOUS
  <1>6. u # << >> /\ Len(u) = Len(text) + 1 /\ Last(u) = s /\ text' = u
    BY <1>4, <1>5
  <1>7. Path' = IF u = << >> THEN << >>
                ELSE IF Last(u).opens THEN Append(Last(u).path, Len(u)) ELSE Last(u).path
    BY <1>6 DEF Path
  <1>8. s.kind # "use" => NamesIn(u, found')
    BY <1>6 DEF NamesIn
  <1> QED BY <1>6, <1>7, <1>8, NamesAre DEF PathAfter

LEMMA KnownSame ==
    ASSUME NEW t, NEW p, TextRight(t, p), NEW S, NEW C, ChainOf(C, t, p, S),
           NEW s, Written(s), s.path = p, ~s.opens, ~Ends(s),
           NEW ws, ws = IF Declaring(s) THEN <<VarAt(s.name, Len(t) + 1)>> ELSE << >>,
           NEW Q, Reads(Q, AddS(S, ws))
    PROVE  Known(Q, Append(t, s), PathAfter(t, s))
  <1>1. PathAfter(t, s) = p
    BY DEF PathAfter
  <1>2. TextRight(Append(t, s), p)
    BY TextSame
  <1>3. \E D : ChainOf(D, Append(t, s), p, AddS(S, ws))
    BY ChainSame
  <1> QED BY <1>1, <1>2, <1>3 DEF Known

LEMMA KnownOpens ==
    ASSUME NEW t, NEW p, TextRight(t, p), NEW S, NEW C, ChainOf(C, t, p, S),
           NEW s, Written(s), s.path = p, s.opens, NEW P, Reads(P, S)
    PROVE  Known(OpenBlock(P, s.kind, s.name, Len(t) + 1), Append(t, s), PathAfter(t, s))
  <1>1. PathAfter(t, s) = Append(p, Len(t) + 1)
    BY DEF PathAfter
  <1>2. TextRight(Append(t, s), Append(p, Len(t) + 1))
    BY TextOpens
  <1>3. \E D : ChainOf(D, Append(t, s), Append(p, Len(t) + 1), After(S, s.kind, s.name, Len(t) + 1))
    BY ChainOpens
  <1>4. /\ s.kind \in Openings
        /\ s.kind \in {"for", "local function", "local = function"} => s.name \in VariableNames
    BY DEF Written, Declaring, Declares
  <1>5. Len(t) + 1 \in Nat
    BY TextIs
  <1>6. Reads(OpenBlock(P, s.kind, s.name, Len(t) + 1), After(S, s.kind, s.name, Len(t) + 1))
    BY <1>4, <1>5, OpenBlockSound
  <1> QED BY <1>1, <1>2, <1>3, <1>6 DEF Known

LEMMA KnownEnds ==
    ASSUME NEW t, NEW p, TextRight(t, p), NEW S, NEW C, ChainOf(C, t, p, S), NEW s, Closing(t, p, s),
           NEW P, Reads(P, S), Fine(P), NEW Q, Q = EndBlock(P, t[Last(p)].kind), Fine(Q), Q.fs # << >>
    PROVE  Known(Q, Append(t, s), PathAfter(t, s))
  <1>1. Written(s) /\ Ends(s) /\ s.path = Front(p)
    BY DEF Closing
  <1>2. PathAfter(t, s) = Front(p)
    BY <1>1, KindsAre DEF PathAfter
  <1>3. TextRight(Append(t, s), Front(p))
    BY TextEnds
  <1>4. PICK b : b = Last(p)  OBVIOUS
  <1>5. PICK Z \in Seq(Snaps) : \E vs \in Seq(Vars) :
              /\ Z # << >> /\ S = AddS(After(Z, t[b].kind, t[b].name, b), vs)
              /\ \E D : ChainOf(D, Append(t, s), Front(p), AddS(Z, Staying(t[b].kind, t[b].name, b)))
    BY <1>4, ChainEnds
  <1>6. PICK vs \in Seq(Vars) :
              /\ Z # << >> /\ S = AddS(After(Z, t[b].kind, t[b].name, b), vs)
              /\ \E D : ChainOf(D, Append(t, s), Front(p), AddS(Z, Staying(t[b].kind, t[b].name, b)))
    BY <1>5
  <1>7. PICK kind : kind = t[b].kind  OBVIOUS
  <1>8. PICK name : name = t[b].name  OBVIOUS
  <1>9. b \in Nat /\ Written(t[b]) /\ t[b].opens
    <2>1. b \in 1..Len(t) /\ t[b].opens /\ Len(t) \in Nat
      BY <1>4, ClosingIs, TextIs
    <2> QED BY <2>1 DEF TextRight
  <1>10. /\ kind \in Openings
         /\ kind \in {"for", "local function", "local = function"} => name \in VariableNames
    BY <1>7, <1>8, <1>9 DEF Written, Declaring, Declares
  <1>11. Reads(P, AddS(After(Z, kind, name, b), vs))
    BY <1>6, <1>7, <1>8
  <1>12. Fine(EndBlock(P, kind)) /\ EndBlock(P, kind).fs # << >> /\ Q = EndBlock(P, kind)
    BY <1>4, <1>7
  <1>13. Reads(EndBlock(P, kind), AddS(Z, Staying(kind, name, b)))
    BY <1>6, <1>9, <1>10, <1>11, <1>12, EndSound
  <1> QED BY <1>2, <1>3, <1>6, <1>7, <1>8, <1>12, <1>13 DEF Known

\* The main function is the only one when no block is open.
LEMMA KnownMain ==
    ASSUME NEW t, TextRight(t, << >>), NEW S, NEW C, ChainOf(C, t, << >>, S),
           NEW P, Reads(P, S), Fine(P), Fine(CloseFunc(P))
    PROVE  CloseFunc(P).fs = << >>
  <1>1. StackLinks(C, t, << >>) /\ Last(C) = S
    BY DEF ChainOf
  <1>2. Len(<< >>) = 0  OBVIOUS
  <1>3. S \in Seq(Snaps) /\ S = C[0 + 1] /\ Len(C[1]) = 1
    BY <1>1, <1>2, LinksAre DEF StackLinks
  <1>4. Len(S) = 1
    BY <1>3
  <1> QED BY <1>3, <1>4, MainEnds

LEMMA StartedIs ==
    ASSUME NEW P, Started(P)
    PROVE  P.fs = << >> /\ Lists(P) /\ Fine(P)
  <1>1. PICK jump, closes :
            P = [fs |-> << >>, label |-> << >>, gt |-> << >>, jump |-> jump, closes |-> closes, error |-> ""]
    BY DEF Started
  <1>2. P = State(<< >>, << >>, << >>, jump, closes, "")
    BY <1>1, Zenon DEF State
  <1>3. Sequence(<< >>)
    BY EmptySeq, Zenon DEF Sequence
  <1>4. P.fs = << >> /\ P.label = << >> /\ P.gt = << >> /\ P.jump = jump /\ P.closes = closes /\ P.error = ""
    BY <1>1
  <1> QED BY <1>2, <1>3, <1>4, Zenon DEF Lists, Fine

LEMMA KnownFirst ==
    ASSUME NEW P, Started(P)
    PROVE  Known(OpenFunc(P, << >>), << >>, << >>)
  <1>2. P.fs = << >>
    BY StartedIs
  <1>3. Lists(P)
    BY StartedIs
  <1>4. P.fs \in Seq(Frames) /\ UpsRight(P.fs)
    <2>1. Len(<< >>) = 0 /\ 1..0 = {}  OBVIOUS
    <2>2. << >> \in Seq(Frames)
      BY EmptySeq
    <2> QED BY <1>2, <2>1, <2>2 DEF UpsRight
  <1>5. Snap(P.fs) = << >>
    <2>1. Snap(P.fs) \in Seq(Snaps) /\ Len(Snap(P.fs)) = Len(P.fs)
      BY <1>4, SnapIs
    <2> QED BY <1>2, <2>1, EmptySeq
  <1>6. << >> \in Seq(Vars) /\ << >> \in Seq(Snaps) /\ << >> \in Seq(Nat)
    BY EmptySeq
  <1>7. PICK S : S = OpenS(<< >>, << >>)  OBVIOUS
  <1>8. Reads(OpenFunc(P, << >>), S)
    BY <1>3, <1>4, <1>5, <1>6, <1>7, OpenIs
  <1>9. S \in Seq(Snaps) /\ S # << >> /\ Len(S) = 1
    <2>1. Opened(<< >>) \in Snaps
      <3>1. << >> \in Seq(Vars)
        BY <1>6
      <3>2. 0 \in Nat /\ <<0>> \in Seq(Nat) /\ <<0>> # << >>  OBVIOUS
      <3> QED BY <3>1, <3>2 DEF Opened, Snaps
    <2>2. /\ Append(<< >>, Opened(<< >>)) \in Seq(Snaps) /\ Append(<< >>, Opened(<< >>)) # << >>
          /\ Len(Append(<< >>, Opened(<< >>))) = Len(<< >>) + 1
      BY <1>6, <2>1, FrontOfAppend
    <2>3. Len(<< >>) + 1 = 1  OBVIOUS
    <2> QED BY <1>7, <2>2, <2>3 DEF OpenS
  <1>10. PICK C : C = <<S>>  OBVIOUS
  <1>11. C \in Stacks /\ Len(C) = 1 /\ C[1] = S /\ Last(C) = S
    <2>1. C \in Seq(Seq(Snaps)) /\ Len(C) = 1 /\ C[1] = S
      BY <1>9, <1>10
    <2> QED BY <2>1 DEF Stacks, Last
  <1>12. Len(<< >>) = 0 /\ (\A r \in 1..0 : FALSE) /\ \A r \in 1..1 : r = 1  OBVIOUS
  <1>13. StackLinks(C, << >>, << >>)
    BY <1>9, <1>11, <1>12 DEF StackLinks
  <1>14. VarsIn(<< >>, SeenBy(<< >>, Len(<< >>), << >>)) = {}
    BY <1>12 DEF VarsIn, SeenBy
  <1>15. Shows(S, {})
    <2>1. Shows(<< >>, {})
      BY <1>12 DEF Shows, AllKnown, AllThere, InOrder
    <2> QED BY <1>6, <1>7, <2>1, OpenedShows
  <1>16. ChainOf(C, << >>, << >>, S)
    BY <1>11, <1>13, <1>14, <1>15 DEF ChainOf
  <1>17. TextRight(<< >>, << >>)
    <2>1. Sequence(<< >>)
      BY EmptySeq DEF Sequence
    <2> QED BY <1>6, <1>12, <2>1 DEF TextRight, Backwards, WellPlaced, Inside, Open
  <1> QED BY <1>8, <1>16, <1>17 DEF Known

----------------------------------------------------------------------------
(* The steps of the parser.                                                *)

LEMMA ParsesIs ==
    ASSUME NEW s, NEW Q, Parses(s, Q)
    PROVE  Stepped(s, Q)
  BY Zenon DEF Parses, Stepped, Fine

\* What the step knows before it.
LEMMA StepBefore ==
    ASSUME ScopesInv, NEW s, NEW Q, Stepped(s, Q)
    PROVE  /\ TextRight(text, Path) /\ Sequence(text) /\ Path \in Seq(Nat) /\ Len(text) \in Nat
           /\ \E S : Reads(ls, S) /\ \E C : ChainOf(C, text, Path, S)
  <1>1. Known(ls, text, Path)
    BY DEF ScopesInv, Stepped
  <1>2. TextRight(text, Path) /\ \E S : Reads(ls, S) /\ \E C : ChainOf(C, text, Path, S)
    BY <1>1 DEF Known
  <1>3. Sequence(text) /\ Path \in Seq(Nat)
    BY <1>2 DEF TextRight
  <1>4. Len(text) \in Nat
    BY <1>2, TextIs
  <1> QED BY <1>2, <1>3, <1>4

LEMMA StepAfter ==
    ASSUME ScopesInv, NEW s, NEW Q, Stepped(s, Q), s.kind # "use" \/ NamesResolved',
           Fine(Q) /\ Q.fs # << >> => Known(Q, Append(text, s), PathAfter(text, s))
    PROVE  ScopesInv'
  <1>1. Sequence(text) /\ text' = Append(text, s) /\ ls' = Q
    BY StepBefore DEF Stepped
  <1>2. Path' = PathAfter(text, s) /\ (s.kind # "use" => NamesResolved')
    BY <1>1, PathNext
  <1>3. (Fine(ls) /\ ls.fs # << >> => Known(ls, text, Path))'
    <2>1. Fine(Q) /\ Q.fs # << >> => Known(Q, text', Path')
      BY <1>1, <1>2
    <2>2. Fine(ls)' <=> Fine(Q)
      BY <1>1, Zenon DEF Fine
    <2>3. Known(ls, text, Path)' <=> Known(Q, text', Path')
      BY <1>1, Zenon DEF Known, Reads, Parser, Lists, State, UpsRight
    <2> QED BY <1>1, <2>1, <2>2, <2>3
  <1> QED BY <1>2, <1>3 DEF ScopesInv

\* A statement that neither opens nor ends a block.
LEMMA StepSame ==
    ASSUME ScopesInv, NEW s, NEW Q, Stepped(s, Q), s.kind # "use" \/ NamesResolved',
           Written(s), s.path = Path, ~s.opens, ~Ends(s),
           NEW ws, ws = IF Declaring(s) THEN <<VarAt(s.name, Len(text) + 1)>> ELSE << >>,
           Fine(Q) => \A S : Reads(ls, S) => Reads(Q, AddS(S, ws))
    PROVE  ScopesInv'
  <1>1. TextRight(text, Path)
    BY StepBefore
  <1>2. PICK S : Reads(ls, S) /\ \E C : ChainOf(C, text, Path, S)
    BY StepBefore
  <1>3. PICK C : ChainOf(C, text, Path, S)
    BY <1>2
  <1>4. PICK p : p = Path  OBVIOUS
  <1>5. ASSUME Fine(Q) PROVE Known(Q, Append(text, s), PathAfter(text, s))
    <2>1. Reads(Q, AddS(S, ws))
      BY <1>2, <1>5
    <2> QED BY <1>1, <1>3, <1>4, <2>1, KnownSame
  <1> QED BY <1>5, StepAfter

LEMMA StepOpens ==
    ASSUME ScopesInv, NEW s, NEW Q, Stepped(s, Q), s.kind # "use",
           Written(s), s.path = Path, s.opens, Q = OpenBlock(ls, s.kind, s.name, Len(text) + 1)
    PROVE  ScopesInv'
  <1>1. TextRight(text, Path)
    BY StepBefore
  <1>2. PICK S : Reads(ls, S) /\ \E C : ChainOf(C, text, Path, S)
    BY StepBefore
  <1>3. PICK C : ChainOf(C, text, Path, S)
    BY <1>2
  <1>4. PICK p : p = Path  OBVIOUS
  <1>5. Known(Q, Append(text, s), PathAfter(text, s))
    BY <1>1, <1>2, <1>3, <1>4, KnownOpens
  <1> QED BY <1>5, StepAfter

LEMMA StepEnds ==
    ASSUME ScopesInv, NEW s, NEW Q, Stepped(s, Q), s.kind # "use", Path # << >>, Closing(text, Path, s),
           Q = EndBlock(ls, text[Last(Path)].kind)
    PROVE  ScopesInv'
  <1>1. TextRight(text, Path)
    BY StepBefore
  <1>2. PICK S : Reads(ls, S) /\ \E C : ChainOf(C, text, Path, S)
    BY StepBefore
  <1>3. PICK C : ChainOf(C, text, Path, S)
    BY <1>2
  <1>4. PICK p : p = Path  OBVIOUS
  <1>5. Fine(ls)
    BY DEF Stepped
  <1>6. ASSUME Fine(Q), Q.fs # << >> PROVE Known(Q, Append(text, s), PathAfter(text, s))
    BY <1>1, <1>2, <1>3, <1>4, <1>5, <1>6, KnownEnds
  <1> QED BY <1>6, StepAfter

LEMMA StepLast ==
    ASSUME ScopesInv, NEW s, NEW Q, Stepped(s, Q), s.kind # "use", Path = << >>, Q = CloseFunc(ls)
    PROVE  ScopesInv'
  <1>1. TextRight(text, << >>)
    BY StepBefore
  <1>2. PICK S : Reads(ls, S) /\ \E C : ChainOf(C, text, << >>, S)
    BY StepBefore
  <1>3. PICK C : ChainOf(C, text, << >>, S)
    BY <1>2
  <1>4. Fine(ls)
    BY DEF Stepped
  <1>5. Fine(Q) => Q.fs = << >>
    BY <1>1, <1>2, <1>3, <1>4, KnownMain
  <1> QED BY <1>5, StepAfter

----------------------------------------------------------------------------
(* The actions.                                                            *)

LEMMA LocalKeeps ==
    ASSUME ScopesInv, NEW n \in VariableNames, Local(n)
    PROVE  ScopesInv'
  <1>1. PICK s : s = Statement("local", n, FALSE)  OBVIOUS
  <1>2. s.kind = "local" /\ s.name = n /\ s.opens = FALSE /\ s.path = Path
    BY <1>1 DEF Statement
  <1>3. PICK Q : Q = AdjustLocalVars(ls, <<Var(n)>>)  OBVIOUS
  <1>4. Stepped(s, Q)
    BY <1>1, <1>3, ParsesIs, Zenon DEF Local
  <1>5. Path \in Seq(Nat)
    BY <1>4, StepBefore
  <1>6. Written(s) /\ ~s.opens /\ ~Ends(s) /\ Declaring(s) /\ s.kind # "use"
    BY <1>2, <1>5 DEF Written, Declaring, Declares, Openings, Functions, Ends
  <1>7. Q = AdjustLocalVars(ls, <<VarAt(n, Len(text) + 1)>>)
    BY <1>3 DEF Var, VarAt, Pos
  <1>8. <<VarAt(n, Len(text) + 1)>> \in Seq(Vars)
    <2>1. VarAt(n, Len(text) + 1) \in Vars
      <3>1. Len(text) \in Nat
        BY <1>4, StepBefore
      <3>2. Len(text) + 1 \in Nat
        BY <3>1
      <3> QED BY <3>2 DEF VarAt, Vars
    <2> QED BY <2>1
  <1>9. \A S : Reads(ls, S) => Reads(Q, AddS(S, <<VarAt(n, Len(text) + 1)>>))
    BY <1>7, <1>8, AddSound
  <1> QED BY <1>2, <1>4, <1>6, <1>9, StepSame

\* The variable that a use finds is the one that the text means.
LEMMA UseMeans ==
    ASSUME NEW t, NEW p, TextRight(t, p), NEW S, S \in Seq(Snaps), Shows(S, VarsIn(t, SeenBy(t, Len(t), p))),
           NEW s, s.path = p, s.name \in VariableNames
    PROVE  MeansIn(S, Len(S), s.name) = MeansOf(Append(t, s), Len(Append(t, s)))
  <1>1. PICK u : u = Append(t, s)  OBVIOUS
  <1>2. PICK m \in Nat : m = Len(t)
    BY TextIs
  <1>3. Grown(u, t, s)
    BY <1>1, TextIs
  <1>4. Len(u) = m + 1 /\ u[m + 1] = s /\ \A d \in 1..m : u[d] = t[d]
    BY <1>2, <1>3 DEF Grown
  <1>5. PICK D : D = SeenBy(t, m, p)  OBVIOUS
  <1>6. SeenBy(u, m, p) = D
    <2>1. m \in 0..Len(t)
      BY <1>2
    <2> QED BY <1>3, <1>5, <2>1, SeenBefore
  <1>7. /\ D \subseteq 1..m /\ VarsIn(t, D) \in SUBSET Actual
        /\ \A v \in VarsIn(t, D) : v.at \in D /\ v.at <= m /\ v.name = t[v.at].name
        /\ \A d \in D : VarAt(t[d].name, d) \in VarsIn(t, D)
    <2>1. m \in 0..Len(t)
      BY <1>2
    <2> QED BY <1>5, <2>1, VarsInAre
  <1>8. PICK n : n = s.name  OBVIOUS
  <1> DEFINE A == {v.at : v \in {w \in VarsIn(t, D) : w.name = n}}
             B == {d \in D : u[d].name = n}
  <1>9. A = B
    <2>1. ASSUME NEW v \in VarsIn(t, D), v.name = n PROVE v.at \in B
      BY <1>4, <1>7, <2>1
    <2>2. ASSUME NEW d \in B PROVE d \in A
      <3>1. d \in D /\ t[d].name = n
        BY <1>4, <1>7
      <3>2. VarAt(t[d].name, d) \in VarsIn(t, D)
        BY <1>7, <3>1
      <3>3. VarAt(t[d].name, d).at = d /\ VarAt(t[d].name, d).name = n
        BY <3>1 DEF VarAt
      <3> QED BY <3>2, <3>3
    <2> QED BY <2>1, <2>2
  <1>10. MeansIn(S, Len(S), n) = IF A = {} THEN 0 ELSE Max(A)
    <2>1. Shows(S, VarsIn(t, D)) /\ n \in VariableNames
      BY <1>2, <1>5, <1>8
    <2> HIDE DEF A
    <2>2. MeansIn(S, Len(S), n) =
            LET X == {v.at : v \in {w \in VarsIn(t, D) : w.name = n}} IN IF X = {} THEN 0 ELSE Max(X)
      BY <1>7, <2>1, MeansIs
    <2> QED BY <2>2, Zenon DEF A
  <1>11. MeansOf(u, Len(u)) = IF B = {} THEN 0 ELSE Max(B)
    <2>1. Len(u) - 1 = m /\ u[Len(u)] = s
      BY <1>4
    <2>2. PICK k : k = Len(u) - 1  OBVIOUS
    <2>3. MeansOf(u, Len(u)) =
            LET X == {d \in SeenBy(u, k, u[Len(u)].path) : u[d].name = u[Len(u)].name}
            IN  IF X = {} THEN 0 ELSE Max(X)
      BY <2>2, Zenon DEF MeansOf
    <2>4. k = m
      BY <2>1, <2>2
    <2>5. SeenBy(u, k, u[Len(u)].path) = D /\ u[Len(u)].name = n
      BY <1>6, <1>8, <2>1, <2>4
    <2> QED BY <2>3, <2>5, Zenon
  <1> HIDE DEF A, B
  <1> QED BY <1>1, <1>8, <1>9, <1>10, <1>11

LEMMA UseKeeps ==
    ASSUME ScopesInv, NEW n \in VariableNames, Use(n)
    PROVE  ScopesInv'
  <1>1. PICK s : s = Statement("use", n, FALSE)  OBVIOUS
  <1>2. s.kind = "use" /\ s.name = n /\ s.opens = FALSE /\ s.path = Path
    BY <1>1 DEF Statement
  <1>3. PICK r : r = SingleVarAux(ls.fs, n)  OBVIOUS
  <1>4. PICK Q : Q = [ls EXCEPT !.fs = r.fs]  OBVIOUS
  <1>5. Stepped(s, Q) /\ found' = Denotes(r)
    BY <1>1, <1>3, <1>4, ParsesIs, Zenon DEF Use
  <1>6. Path \in Seq(Nat) /\ TextRight(text, Path)
    BY <1>5, StepBefore
  <1>7. Written(s) /\ ~s.opens /\ ~Ends(s) /\ ~Declaring(s)
    BY <1>2, <1>6 DEF Written, Declaring, Declares, Openings, Functions, Ends
  <1>8. PICK S : Reads(ls, S) /\ \E C : ChainOf(C, text, Path, S)
    BY <1>5, StepBefore
  <1>9. PICK C : ChainOf(C, text, Path, S)
    BY <1>8
  <1>10. \A T : Reads(ls, T) => T \in Seq(Snaps) /\ T # << >>
    BY SnapIs DEF Reads, Parser
  <1>11. NamesResolved'
    <2>1. found' = MeansIn(S, Len(S), n)
      BY <1>3, <1>5, <1>8, UseSound
    <2>2. PICK p : p = Path  OBVIOUS
    <2>3. S \in Seq(Snaps) /\ Shows(S, VarsIn(text, SeenBy(text, Len(text), p)))
      BY <1>8, <1>9, <1>10, <2>2 DEF ChainOf
    <2>4. MeansIn(S, Len(S), s.name) = MeansOf(Append(text, s), Len(Append(text, s)))
      BY <1>2, <1>6, <2>2, <2>3, UseMeans
    <2>5. text' = Append(text, s)
      BY <1>5 DEF Stepped
    <2>6. found' = MeansOf(text', Len(text'))
      BY <1>2, <2>1, <2>4, <2>5
    <2>7. NamesIn(text', found')
      BY <2>6, Zenon DEF NamesIn
    <2> QED BY <2>7, NamesAre
  <1>12. ASSUME NEW T, Reads(ls, T) PROVE Reads(Q, AddS(T, << >>))
    <2>1. Reads(Q, T)
      BY <1>3, <1>4, <1>12, UseSound
    <2>2. AddS(T, << >>) = T
      BY <1>10, <1>12, EmptySeq, StackTypes
    <2> QED BY <2>1, <2>2
  <1> QED BY <1>2, <1>5, <1>7, <1>11, <1>12, StepSame

\* The openings of blocks and functions.
LEMMA OpensKeeps ==
    ASSUME ScopesInv, NEW kind, NEW n, kind \in Openings, kind \in Declares => n \in VariableNames,
           kind # "use", NEW Q, Stepped(Statement(kind, n, TRUE), Q),
           Q = OpenBlock(ls, kind, n, Len(text) + 1)
    PROVE  ScopesInv'
  <1>1. PICK s : s = Statement(kind, n, TRUE)  OBVIOUS
  <1>2. s.kind = kind /\ s.name = n /\ s.opens = TRUE /\ s.path = Path
    BY <1>1 DEF Statement
  <1>3. Stepped(s, Q)
    BY <1>1
  <1>4. Path \in Seq(Nat)
    BY <1>3, StepBefore
  <1>5. Written(s)
    BY <1>2, <1>4, Zenon DEF Written, Declaring
  <1>6. Q = OpenBlock(ls, s.kind, s.name, Len(text) + 1) /\ s.kind # "use" /\ s.opens
    BY <1>2
  <1> QED BY <1>2, <1>3, <1>5, <1>6, StepOpens

LEMMA DoKeeps ==
    ASSUME ScopesInv, Do
    PROVE  ScopesInv'
  <1>1. PICK Q : Q = EnterBlock(ls, FALSE)  OBVIOUS
  <1>2. Stepped(Statement("do", "", TRUE), Q)
    BY <1>1, ParsesIs, Zenon DEF Do
  <1>3. Q = OpenBlock(ls, "do", "", Len(text) + 1)
    BY <1>1 DEF OpenBlock
  <1>4. "do" \in Openings /\ "do" \notin Declares /\ "do" # "use"
    BY DEF Openings, Declares
  <1> QED BY <1>2, <1>3, <1>4, OpensKeeps

LEMMA WhileStatKeeps ==
    ASSUME ScopesInv, WhileStat
    PROVE  ScopesInv'
  <1>1. PICK Q : Q = EnterBlock(EnterBlock(ls, TRUE), FALSE)  OBVIOUS
  <1>2. Stepped(Statement("while", "", TRUE), Q)
    BY <1>1, ParsesIs, Zenon DEF WhileStat
  <1>3. Q = OpenBlock(ls, "while", "", Len(text) + 1)
    BY <1>1 DEF OpenBlock
  <1>4. "while" \in Openings /\ "while" \notin Declares /\ "while" # "use"
    BY DEF Openings, Declares
  <1> QED BY <1>2, <1>3, <1>4, OpensKeeps

LEMMA RepeatKeeps ==
    ASSUME ScopesInv, Repeat
    PROVE  ScopesInv'
  <1>1. PICK Q : Q = EnterBlock(EnterBlock(ls, TRUE), FALSE)  OBVIOUS
  <1>2. Stepped(Statement("repeat", "", TRUE), Q)
    BY <1>1, ParsesIs, Zenon DEF Repeat
  <1>3. Q = OpenBlock(ls, "repeat", "", Len(text) + 1)
    BY <1>1 DEF OpenBlock
  <1>4. "repeat" \in Openings /\ "repeat" \notin Declares /\ "repeat" # "use"
    BY DEF Openings, Declares
  <1> QED BY <1>2, <1>3, <1>4, OpensKeeps

LEMMA ForKeeps ==
    ASSUME ScopesInv, NEW n \in VariableNames, For(n)
    PROVE  ScopesInv'
  <1>1. PICK Q : Q = LET control == AdjustLocalVars(EnterBlock(ls, TRUE), Controls)
                         scope == AdjustLocalVars(EnterBlock(control, FALSE), <<Var(n)>>)
                     IN  EnterBlock(scope, FALSE)
    OBVIOUS
  <1>2. Stepped(Statement("for", n, TRUE), Q)
    BY <1>1, ParsesIs, Zenon DEF For, Controls
  <1>3. Q = OpenBlock(ls, "for", n, Len(text) + 1)
    <2>1. Var(n) = VarAt(n, Len(text) + 1)
      BY DEF Var, VarAt, Pos
    <2> QED BY <1>1, <2>1 DEF OpenBlock
  <1>4. "for" \in Openings /\ "for" # "use"
    BY DEF Openings
  <1> QED BY <1>2, <1>3, <1>4, OpensKeeps

LEMMA FunctionKeeps ==
    ASSUME ScopesInv, Function
    PROVE  ScopesInv'
  <1>1. PICK Q : Q = OpenFunc(ls, << >>)  OBVIOUS
  <1>2. Stepped(Statement("function", "", TRUE), Q)
    BY <1>1, ParsesIs, Zenon DEF Function
  <1>3. Q = OpenBlock(ls, "function", "", Len(text) + 1)
    BY <1>1 DEF OpenBlock
  <1>4. "function" \in Openings /\ "function" \notin Declares /\ "function" # "use"
    BY DEF Openings, Declares, Functions
  <1> QED BY <1>2, <1>3, <1>4, OpensKeeps

LEMMA LocalFuncKeeps ==
    ASSUME ScopesInv, NEW n \in VariableNames, LocalFunc(n)
    PROVE  ScopesInv'
  <1>1. PICK Q : Q = OpenFunc(AdjustLocalVars(ls, <<Var(n)>>), << >>)  OBVIOUS
  <1>2. Stepped(Statement("local function", n, TRUE), Q)
    BY <1>1, ParsesIs, Zenon DEF LocalFunc
  <1>3. Q = OpenBlock(ls, "local function", n, Len(text) + 1)
    <2>1. Var(n) = VarAt(n, Len(text) + 1)
      BY DEF Var, VarAt, Pos
    <2> QED BY <1>1, <2>1 DEF OpenBlock
  <1>4. "local function" \in Openings /\ "local function" # "use"
    BY DEF Openings, Functions
  <1> QED BY <1>2, <1>3, <1>4, OpensKeeps

LEMMA LocalStatKeeps ==
    ASSUME ScopesInv, NEW n \in VariableNames, LocalStat(n)
    PROVE  ScopesInv'
  <1>1. PICK Q : Q = OpenFunc(ls, <<Var(n)>>)  OBVIOUS
  <1>2. Stepped(Statement("local = function", n, TRUE), Q)
    BY <1>1, ParsesIs, Zenon DEF LocalStat
  <1>3. Q = OpenBlock(ls, "local = function", n, Len(text) + 1)
    <2>1. Var(n) = VarAt(n, Len(text) + 1)
      BY DEF Var, VarAt, Pos
    <2> QED BY <1>1, <2>1 DEF OpenBlock
  <1>4. "local = function" \in Openings /\ "local = function" # "use"
    BY DEF Openings, Functions
  <1> QED BY <1>2, <1>3, <1>4, OpensKeeps

LEMMA EndKeeps ==
    ASSUME ScopesInv, BlockEnd
    PROVE  ScopesInv'
  <1>1. PICK s : s = [Statement("end", "", FALSE) EXCEPT !.path = IF @ = << >> THEN @ ELSE Front(@)]
    OBVIOUS
  <1>2. /\ s.kind = "end" /\ s.opens = FALSE
        /\ s.path = IF Path = << >> THEN Path ELSE Front(Path)
    BY <1>1 DEF Statement
  <1>3. PICK Q : Q = CASE Opening = "do" -> LeaveBlock(ls)
                       [] Opening = "while" -> LeaveBlock(LeaveBlock(ls))
                       [] Opening = "repeat" -> LeaveBlock(Until(ls))
                       [] Opening = "for" -> LeaveBlock(LeaveBlock(LeaveBlock(ls)))
                       [] OTHER -> CloseFunc(ls)
    OBVIOUS
  <1>4. Stepped(s, Q)
    BY <1>1, <1>3, ParsesIs, Zenon DEF BlockEnd
  <1>5. Path \in Seq(Nat)
    BY <1>4, StepBefore
  <1>6. s.kind # "use" /\ Ends(s)
    BY <1>2 DEF Ends
  <1>7. CASE Path = << >>
    <2>1. Opening = "main"
      BY <1>7 DEF Opening
    <2>2. Q = CloseFunc(ls)
      BY <1>3, <2>1
    <2> QED BY <1>4, <1>6, <1>7, <2>2, StepLast
  <1>8. CASE Path # << >>
    <2>1. Opening = text[Last(Path)].kind
      BY <1>8 DEF Opening
    <2>2. Q = EndBlock(ls, text[Last(Path)].kind)
      BY <1>3, <2>1, Zenon DEF EndBlock
    <2>3. Front(Path) \in Seq(Nat)
      BY <1>5, <1>8, FrontIs
    <2>4. Written(s)
      BY <1>2, <1>8, <2>3 DEF Written, Declaring, Declares, Openings, Functions
    <2>5. Closing(text, Path, s)
      BY <1>2, <1>6, <1>8, <2>4 DEF Closing
    <2> QED BY <1>4, <1>6, <1>8, <2>2, <2>5, StepEnds
  <1> QED BY <1>7, <1>8

LEMMA GotoKeeps ==
    ASSUME ScopesInv, NEW l, Goto(l)
    PROVE  ScopesInv'
  <1>1. PICK s : s = Statement("goto", l, FALSE)  OBVIOUS
  <1>2. s.kind = "goto" /\ s.name = l /\ s.opens = FALSE /\ s.path = Path
    BY <1>1 DEF Statement
  <1>3. PICK gd : gd = Entry(ls, l)  OBVIOUS
  <1>4. PICK jump : jump = [i \in DOMAIN ls.jump \union {Pos} |->
                              IF i = Pos THEN [to |-> 0, close |-> None] ELSE ls.jump[i]]
    OBVIOUS
  <1>5. PICK R : R = [ls EXCEPT !.jump = jump]  OBVIOUS
  <1>6. R = [ls EXCEPT !.jump = [i \in DOMAIN @ \union {Pos} |->
                                   IF i = Pos THEN [to |-> 0, close |-> None] ELSE @[i]]]
    BY <1>4, <1>5
  <1>7. PICK Q : Q = IF Visible(R, l) = {} THEN Pend(R, gd) ELSE FindLabel(R, gd)  OBVIOUS
  <1>8. Stepped(s, Q)
    <2>1. Parses(s, Q)
      BY <1>1, <1>3, <1>6, <1>7, Zenon DEF Goto
    <2> QED BY <2>1, ParsesIs
  <1>9. Path \in Seq(Nat)
    BY <1>8, StepBefore
  <1>10. Written(s) /\ ~s.opens /\ ~Ends(s) /\ ~Declaring(s) /\ s.kind # "use"
    BY <1>2, <1>9 DEF Written, Declaring, Declares, Openings, Functions, Ends
  <1>11. ASSUME NEW S, Reads(ls, S) PROVE Reads(Q, AddS(S, << >>))
    <2>1. Reads(Pend(R, gd), S) /\ Reads(FindLabel(R, gd), S)
      BY <1>5, <1>11, GotoSound
    <2>2. S \in Seq(Snaps) /\ S # << >>
      BY <1>11, SnapIs DEF Reads, Parser
    <2>3. AddS(S, << >>) = S
      BY <2>2, EmptySeq, StackTypes
    <2> QED BY <1>7, <2>1, <2>3
  <1> QED BY <1>2, <1>8, <1>10, <1>11, StepSame

LEMMA LabelKeeps ==
    ASSUME ScopesInv, NEW l, NEW last \in BOOLEAN, Label(l, last)
    PROVE  ScopesInv'
  <1>1. PICK s : s = [Statement("label", l, FALSE) EXCEPT !.last = last]  OBVIOUS
  <1>2. s.kind = "label" /\ s.name = l /\ s.opens = FALSE /\ s.path = Path
    BY <1>1 DEF Statement
  <1>3. PICK lb : lb = [Entry(ls, l) EXCEPT !.nactvar = IF last THEN BL(ls).nactvar ELSE @]  OBVIOUS
  <1>4. PICK Q : Q = IF Visible(ls, l) # {} THEN [ls EXCEPT !.error = "already defined"]
                     ELSE FindGotos([ls EXCEPT !.label = Append(@, lb)], lb)
    OBVIOUS
  <1>5. Stepped(s, Q)
    <2>1. Parses(s, Q)
      BY <1>1, <1>3, <1>4, Zenon DEF Label
    <2> QED BY <2>1, ParsesIs
  <1>6. Path \in Seq(Nat)
    BY <1>5, StepBefore
  <1>7. Written(s) /\ ~s.opens /\ ~Ends(s) /\ ~Declaring(s) /\ s.kind # "use"
    BY <1>2, <1>6 DEF Written, Declaring, Declares, Openings, Functions, Ends
  <1>8. ASSUME NEW S, Reads(ls, S), Fine(Q) PROVE Reads(Q, AddS(S, << >>))
    <2>1. Visible(ls, l) = {}
      <3>1. SUFFICES ASSUME Visible(ls, l) # {} PROVE FALSE  OBVIOUS
      <3>2. Lists(ls)
        BY <1>8 DEF Reads, Parser
      <3>3. PICK e : e = "already defined"  OBVIOUS
      <3>4. Q = [ls EXCEPT !.error = e]
        BY <1>4, <3>1, <3>3
      <3>5. Q = State(ls.fs, ls.label, ls.gt, ls.jump, ls.closes, e)
        BY <3>2, <3>4, StateIs
      <3>6. Q.error = e
        BY <3>5 DEF State
      <3> QED BY <1>8, <3>3, <3>6 DEF Fine
    <2>2. Q = FindGotos([ls EXCEPT !.label = Append(@, lb)], lb)
      BY <1>4, <2>1
    <2>3. Reads(Q, S)
      BY <1>8, <2>2, LabelSound
    <2>4. S \in Seq(Snaps) /\ S # << >>
      BY <1>8, SnapIs DEF Reads, Parser
    <2>5. AddS(S, << >>) = S
      BY <2>4, EmptySeq, StackTypes
    <2> QED BY <2>3, <2>5
  <1> QED BY <1>2, <1>5, <1>7, <1>8, StepSame

LEMMA ScopesBegin == ParserInit => ScopesInv
  <1> SUFFICES ASSUME ParserInit PROVE ScopesInv  OBVIOUS
  <1>1. PICK P : P = [fs |-> << >>, label |-> << >>, gt |-> << >>, jump |-> << >>, closes |-> {}, error |-> ""]
    OBVIOUS
  <1>2. ls = OpenFunc(P, << >>) /\ text = << >>
    BY <1>1 DEF ParserInit
  <1>3. Started(P)
    BY <1>1 DEF Started
  <1>4. Path = << >>
    BY <1>2, Zenon DEF Path
  <1>5. Known(ls, text, Path)
    BY <1>2, <1>3, <1>4, KnownFirst
  <1>6. NamesResolved
    BY <1>2 DEF NamesResolved
  <1> QED BY <1>5, <1>6 DEF ScopesInv

LEMMA ScopesStay == ScopesInv /\ [ParserNext]_parserVars => ScopesInv'
  <1> SUFFICES ASSUME ScopesInv, [ParserNext]_parserVars PROVE ScopesInv'  OBVIOUS
  <1>1. CASE UNCHANGED parserVars
    <2>1. ls' = ls /\ found' = found /\ text' = text
      BY <1>1 DEF parserVars
    <2>2. NamesResolved' <=> NamesResolved
      BY <2>1, NamesAre
    <2>3. Path' = Path
      BY <2>1 DEF Path
    <2>4. (Fine(ls) /\ ls.fs # << >> => Known(ls, text, Path))' <=>
          (Fine(ls) /\ ls.fs # << >> => Known(ls, text, Path))
      BY <2>1, <2>3, Zenon DEF Fine, Known, Reads, Parser, Lists, State, UpsRight
    <2> QED BY <2>2, <2>4 DEF ScopesInv
  <1>2. CASE ParserNext
    <2>1. ASSUME NEW n \in VariableNames, Local(n) PROVE ScopesInv'
      BY <2>1, LocalKeeps
    <2>2. ASSUME NEW n \in VariableNames, Use(n) PROVE ScopesInv'
      BY <2>2, UseKeeps
    <2>3. ASSUME NEW n \in VariableNames, For(n) PROVE ScopesInv'
      BY <2>3, ForKeeps
    <2>4. ASSUME NEW n \in VariableNames, LocalFunc(n) PROVE ScopesInv'
      BY <2>4, LocalFuncKeeps
    <2>5. ASSUME NEW n \in VariableNames, LocalStat(n) PROVE ScopesInv'
      BY <2>5, LocalStatKeeps
    <2>6. ASSUME NEW l \in LabelNames \union {"break"}, Goto(l) PROVE ScopesInv'
      BY <2>6, GotoKeeps
    <2>7. ASSUME NEW l \in LabelNames, NEW last \in BOOLEAN, Label(l, last) PROVE ScopesInv'
      BY <2>7, LabelKeeps
    <2>8. CASE Do
      BY <2>8, DoKeeps
    <2>9. CASE WhileStat
      BY <2>9, WhileStatKeeps
    <2>10. CASE Repeat
      BY <2>10, RepeatKeeps
    <2>11. CASE Function
      BY <2>11, FunctionKeeps
    <2>12. CASE BlockEnd
      BY <2>12, EndKeeps
    <2> QED
      BY <1>2, <2>1, <2>2, <2>3, <2>4, <2>5, <2>6, <2>7, <2>8, <2>9, <2>10, <2>11, <2>12 DEF ParserNext
  <1> QED BY <1>1, <1>2

\* lparser.c: as long as there is no error, the FuncStates with their blocks,
\* active variables and upvalues are what the text read so far makes them.
THEOREM ParserKeepsTrack == ParserSpec => []ScopesInv
  <1> QED BY ScopesBegin, ScopesStay, PTL DEF ParserSpec

\* lparser.c: whatever the text, however deep its blocks and functions are, and
\* whatever other functions have used the name before, a name stands for the
\* variable declared last in the innermost block that has one and can be seen.
THEOREM NamesAreResolved == ParserSpec => []NamesResolved
  <1>1. ScopesInv => NamesResolved
    BY DEF ScopesInv
  <1> QED BY <1>1, ParserKeepsTrack, PTL
=============================================================================
