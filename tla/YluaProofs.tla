----------------------------- MODULE YluaProofs -----------------------------
(***************************************************************************)
(* Proofs about Ylua, for any command lines, any number of interrupts and  *)
(* of lines that are typed.                                                *)
(***************************************************************************)
EXTENDS Ylua, WellFoundedInduction, TLAPS

----------------------------------------------------------------------------
(* Least and greatest numbers: what is said of all numbers by induction.   *)

LEMMA LeastExists ==
    ASSUME NEW S, S \subseteq Nat, S # {}
    PROVE  \E n \in S : \A m \in S : n <= m
  <1>1. PICK R : R = OpToRel(<, Nat) /\ IsWellFoundedOn(R, Nat)
    BY NatLessThanWellFounded
  <1>2. \A m, n \in Nat : m < n => <<m, n>> \in R
    BY <1>1 DEF OpToRel
  <1>3. PICK n \in S : \A m \in S : ~(<<m, n>> \in R)
    BY <1>1, WFMin
  <1>4. \A m \in S : ~(m < n)
    BY <1>2, <1>3
  <1>5. QED
    BY <1>3, <1>4

LEMMA GreatestExists ==
    ASSUME NEW n \in Nat, NEW S, S \subseteq 1 .. n, S # {}
    PROVE  \E k \in S : \A j \in S : j <= k
  <1>1. PICK T : T = {n - k : k \in S}
    OBVIOUS
  <1>2. T \subseteq Nat /\ T # {}
    <2>1. \A k \in S : n - k \in Nat
      OBVIOUS
    <2>2. T \subseteq Nat
      BY <1>1, <2>1
    <2>3. PICK k : k \in S
      OBVIOUS
    <2>4. QED
      BY <1>1, <2>2, <2>3
  <1>3. PICK m \in T : \A j \in T : m <= j
    BY <1>2, LeastExists
  <1>4. PICK k \in S : m = n - k
    BY <1>1
  <1>5. ASSUME NEW j \in S PROVE j <= k
    <2>1. n - j \in T
      BY <1>1
    <2>2. QED
      BY <1>3, <1>4, <2>1
  <1>6. QED
    BY <1>5

----------------------------------------------------------------------------
(* collectargs() is defined by what it finds further on.                   *)

Findings == [script : Int, has : SUBSET {"E", "i", "v", "e"}]

LEMMA CollectAtType ==
    ASSUME NEW a \in Seq(Words), NEW from \in [1 .. Len(a) + 2 -> Findings],
           NEW k \in 1 .. Len(a) + 2
    PROVE  CollectAt(a, k, from) \in Findings
  <1>1. Len(a) \in Nat
    OBVIOUS
  <1>2. \A n \in Int : Found(n) \in Findings
    BY DEF Found, Findings
  <1>3. \A h \in SUBSET {"E", "i", "v", "e"}, c \in Findings : With(h, c) \in Findings
    BY DEF With, Findings
  <1>4. CASE k > Len(a)
    BY <1>2, <1>4 DEF CollectAt
  <1>5. CASE k <= Len(a)
    <2>1. from[k + 1] \in Findings /\ from[k + 2] \in Findings
      BY <1>1, <1>5
    <2>2. -k \in Int /\ k + 1 \in Int /\ a[k] \in Words
      BY <1>1, <1>5
    <2>3. QED
      BY <1>1, <1>2, <1>3, <1>5, <2>1, <2>2 DEF CollectAt, Words
  <1>6. QED
    BY <1>1, <1>4, <1>5

\* It looks at nothing before the next argument.
LEMMA CollectAtLooksAhead ==
    ASSUME NEW a \in Seq(Words), NEW k \in 1 .. Len(a) + 2, NEW f, NEW g,
           k <= Len(a) => f[k + 1] = g[k + 1] /\ f[k + 2] = g[k + 2]
    PROVE  CollectAt(a, k, f) = CollectAt(a, k, g)
  BY DEF CollectAt

\* f is what collectargs() finds, from argument m on.
FindsFrom(a, m, f) == \A k \in 1 .. Len(a) + 2 : k >= m => f[k] = CollectAt(a, k, f)

LEMMA CollectExists ==
    ASSUME NEW a \in Seq(Words)
    PROVE  \E f \in [1 .. Len(a) + 2 -> Findings] : FindsFrom(a, 1, f)
  <1> DEFINE L == Len(a)
             Solved == {m \in 1 .. L + 3 : \E f \in [1 .. L + 2 -> Findings] : FindsFrom(a, m, f)}
  <1>1. L \in Nat
    OBVIOUS
  <1>2. L + 3 \in Solved
    <2>1. PICK f : f = [k \in 1 .. L + 2 |-> Found(0)]
      OBVIOUS
    <2>2. f \in [1 .. L + 2 -> Findings]
      BY <2>1 DEF Found, Findings
    <2>3. FindsFrom(a, L + 3, f)
      BY <1>1 DEF FindsFrom
    <2>4. QED
      BY <1>1, <2>2, <2>3
  <1>3. PICK m \in Solved : \A n \in Solved : m <= n
    <2>1. Solved \subseteq Nat /\ Solved # {}
      BY <1>1, <1>2
    <2>2. QED
      BY <2>1, LeastExists
  <1>4. m = 1
    <2>1. SUFFICES ASSUME m # 1 PROVE m - 1 \in Solved
      BY <1>3
    <2>2. PICK f \in [1 .. L + 2 -> Findings] : FindsFrom(a, m, f)
      BY <1>3
    <2>3. m - 1 \in 1 .. L + 2
      BY <1>1, <1>3, <2>1
    <2>4. PICK g : g = [f EXCEPT ![m - 1] = CollectAt(a, m - 1, f)]
      OBVIOUS
    <2>5. CollectAt(a, m - 1, f) \in Findings
      BY <2>2, <2>3, CollectAtType
    <2>6. g \in [1 .. L + 2 -> Findings]
      BY <2>2, <2>3, <2>4, <2>5
    <2>7. ASSUME NEW k \in 1 .. L + 2, k >= m - 1 PROVE g[k] = CollectAt(a, k, g)
      <3>1. k <= L => f[k + 1] = g[k + 1] /\ f[k + 2] = g[k + 2]
        BY <1>1, <1>3, <2>2, <2>3, <2>4, <2>7
      <3>2. CollectAt(a, k, f) = CollectAt(a, k, g)
        BY <3>1, CollectAtLooksAhead
      <3>3. g[k] = CollectAt(a, k, f)
        BY <1>3, <2>2, <2>3, <2>4, <2>7 DEF FindsFrom
      <3>4. QED
        BY <3>2, <3>3
    <2>8. FindsFrom(a, m - 1, g)
      BY <2>7 DEF FindsFrom
    <2>9. QED
      BY <1>1, <2>3, <2>6, <2>8
  <1>5. QED
    BY <1>3, <1>4

LEMMA CollectFinds ==
    ASSUME NEW a \in Seq(Words)
    PROVE  /\ CollectFrom(a) \in [1 .. Len(a) + 2 -> Findings]
           /\ \A k \in 1 .. Len(a) + 2 : CollectFrom(a)[k] = CollectAt(a, k, CollectFrom(a))
  <1> DEFINE Solves(f) == f = [k \in 1 .. Len(a) + 2 |-> CollectAt(a, k, f)]
  <1>1. CollectFrom(a) = CHOOSE f : Solves(f)
    BY DEF CollectFrom
  <1>2. PICK g \in [1 .. Len(a) + 2 -> Findings] : FindsFrom(a, 1, g)
    BY CollectExists
  <1>3. Solves(g)
    BY <1>2 DEF FindsFrom
  <1>4. Solves(CollectFrom(a))
    <2> HIDE DEF Solves
    <2>1. QED
      BY <1>1, <1>3
  <1>5. PICK f : f = CollectFrom(a)
    OBVIOUS
  <1>6. f = [k \in 1 .. Len(a) + 2 |-> CollectAt(a, k, f)]
    BY <1>4, <1>5
  <1>7. f = g
    <2> DEFINE Differ == {k \in 1 .. Len(a) + 2 : f[k] # g[k]}
    <2>1. SUFFICES ASSUME Differ # {} PROVE FALSE
      BY <1>6
    <2>2. PICK k \in Differ : \A j \in Differ : j <= k
      <3>1. Len(a) + 2 \in Nat /\ Differ \subseteq 1 .. Len(a) + 2
        OBVIOUS
      <3>2. QED
        BY <2>1, <3>1, GreatestExists
    <2>3. k <= Len(a) => f[k + 1] = g[k + 1] /\ f[k + 2] = g[k + 2]
      BY <2>2
    <2>4. CollectAt(a, k, f) = CollectAt(a, k, g)
      BY <2>3, CollectAtLooksAhead
    <2>5. f[k] = CollectAt(a, k, f) /\ g[k] = CollectAt(a, k, g)
      BY <1>2, <1>6 DEF FindsFrom
    <2>6. QED
      BY <2>4, <2>5
  <1>8. QED
    BY <1>2, <1>5, <1>7 DEF FindsFrom

----------------------------------------------------------------------------
(* The options end where the first word stands that is none.               *)

CommandLine == argv \in Seq(Words)

LEMMA EndIs ==
    ASSUME CommandLine
    PROVE  /\ EndOfOptions \in 1 .. Len(argv) + 1
           /\ EndOfOptions <= Len(argv) => EndOfOptions \in Ends
           /\ \A k \in Ends : EndOfOptions <= k
  <1>1. Len(argv) \in Nat /\ Ends \subseteq 1 .. Len(argv)
    BY DEF CommandLine, Ends
  <1>2. CASE Ends = {}
    BY <1>1, <1>2 DEF EndOfOptions
  <1>3. CASE Ends # {}
    <2>1. Ends \subseteq Nat
      BY <1>1
    <2>2. \E n \in Ends : \A m \in Ends : n <= m
      BY <1>3, <2>1, LeastExists
    <2>3. Min(Ends) \in Ends /\ \A m \in Ends : Min(Ends) <= m
      BY <2>2 DEF Min
    <2>4. PICK n : n = Min(Ends)
      OBVIOUS
    <2>5. EndOfOptions = n
      BY <1>3, <2>4 DEF EndOfOptions
    <2>6. n \in Ends /\ n \in 1 .. Len(argv) /\ \A m \in Ends : n <= m
      BY <1>1, <2>3, <2>4
    <2>7. QED
      BY <1>1, <2>5, <2>6
  <1>4. QED
    BY <1>2, <1>3

\* A place that collectargs() and runargs() come to: the end, or an option.
AtOption(k) == k \in 1 .. EndOfOptions /\ (k <= Len(argv) => ~IsArgument(k))

\* Nothing is wrong with the options before k.
Bad(k) == \/ argv[k] \in {"--x", "-ix", "-z"}
          \/ argv[k] \in {"-e", "-l"} /\ (k = Len(argv) \/ argv[k + 1] # "word")
NoneWrong(k) == \A j \in 1 .. k - 1 : ~Bad(j)

LEMMA WrongIs ==
    ASSUME CommandLine
    PROVE  Wrong <=> ~NoneWrong(EndOfOptions)
  BY DEF Wrong, NoneWrong, Bad, Preceding

\* What stands where the options do not end is one.
LEMMA OptionAt ==
    ASSUME CommandLine, NEW k, AtOption(k), k < EndOfOptions
    PROVE  k \in 1 .. Len(argv) /\ argv[k] \in Words \ {"word", "-", "--"}
  <1>1. k \in 1 .. Len(argv)
    BY EndIs DEF AtOption, CommandLine
  <1>2. k \notin Ends
    BY <1>1, EndIs
  <1>3. QED
    BY <1>1, <1>2 DEF Ends, AtOption, CommandLine

\* One that takes the next word is followed by a word, and then by the next option.
LEMMA ArgumentAt ==
    ASSUME CommandLine, NEW k, AtOption(k), k < EndOfOptions, ~Bad(k), TakesNext(k)
    PROVE  k + 1 < EndOfOptions /\ IsArgument(k + 1) /\ AtOption(k + 2)
  <1>1. k \in 1 .. Len(argv) /\ k < Len(argv) /\ argv[k + 1] = "word" /\ Len(argv) \in Nat
    BY OptionAt DEF Bad, TakesNext, CommandLine
  <1>2. IsArgument(k + 1)
    BY <1>1 DEF IsArgument, TakesNext
  <1>3. k + 1 \notin Ends
    BY <1>1, <1>2 DEF Ends
  <1>4. EndOfOptions # k + 1
    BY <1>1, <1>3, EndIs
  <1>5. k + 1 < EndOfOptions /\ k + 2 \in 1 .. EndOfOptions
    BY <1>1, <1>4, EndIs
  <1>6. ~IsArgument(k + 2)
    BY <1>1 DEF IsArgument
  <1>7. QED
    BY <1>2, <1>5, <1>6 DEF AtOption

LEMMA NextOption ==
    ASSUME CommandLine, NEW k, AtOption(k), k < EndOfOptions, ~TakesNext(k)
    PROVE  AtOption(k + 1)
  <1>1. k \in 1 .. Len(argv)
    BY OptionAt
  <1>2. ~IsArgument(k + 1)
    BY <1>1 DEF IsArgument, TakesNext
  <1>3. QED
    BY <1>1, <1>2, EndIs DEF AtOption

----------------------------------------------------------------------------
(* What collectargs() makes of the command line.                           *)

\* The options that the words before k are.
Flags(w) == CASE w = "-E" -> {"E"}
              [] w = "-i" -> {"i", "v"}
              [] w = "-v" -> {"v"}
              [] w \in {"-e", "-eX"} -> {"e"}
              [] OTHER -> {}
FlagsBefore(k) == UNION {Flags(argv[j]) : j \in 1 .. k - 1}

LEMMA FlagsAfter ==
    ASSUME NEW k \in Nat \ {0}
    PROVE  FlagsBefore(k + 1) = FlagsBefore(k) \union Flags(argv[k])
  <1>1. 1 .. k + 1 - 1 = 1 .. k - 1 \union {k}
    OBVIOUS
  <1>2. QED
    BY <1>1 DEF FlagsBefore

ScriptAt ==
    LET k == EndOfOptions IN
    IF k > Len(argv) \/ (argv[k] = "--" /\ k = Len(argv)) THEN 0
    ELSE IF argv[k] = "--" THEN k + 1 ELSE k

\* It comes from place to place with nothing wrong so far.
Comes(k) ==
    /\ AtOption(k) /\ NoneWrong(k)
    /\ Args.script = CollectFrom(argv)[k].script
    /\ Args.has = FlagsBefore(k) \union CollectFrom(argv)[k].has

\* Unless this is the end, or there is something wrong.
LEMMA CollectGoesOn ==
    ASSUME CommandLine, NEW k, Comes(k), k < EndOfOptions, ~Bad(k)
    PROVE  \E n : Comes(n) /\ n > k
  <1>1. PICK from : from = CollectFrom(argv)
    OBVIOUS
  <1>2. k \in 1 .. Len(argv) /\ argv[k] \in Words \ {"word", "-", "--"}
    BY OptionAt DEF Comes
  <1>3. /\ from \in [1 .. Len(argv) + 2 -> Findings]
        /\ from[k] = CollectAt(argv, k, from)
    BY <1>1, <1>2, CollectFinds DEF CommandLine
  <1>4. FlagsBefore(k + 1) = FlagsBefore(k) \union Flags(argv[k])
    BY <1>2, FlagsAfter
  <1>5. CASE TakesNext(k)
    <2>1. k + 1 < EndOfOptions /\ IsArgument(k + 1) /\ AtOption(k + 2)
      BY <1>5, ArgumentAt DEF Comes
    <2>2. argv[k + 1] = "word" /\ k + 1 <= Len(argv)
      BY <1>2, <2>1, EndIs DEF IsArgument, CommandLine
    <2>3. from[k] = With(IF argv[k] = "-e" THEN {"e"} ELSE {}, from[k + 2])
      BY <1>2, <1>3, <1>5, <2>2 DEF CollectAt, TakesNext, Lacks, Begins, CommandLine
    <2>4. Flags(argv[k]) = (IF argv[k] = "-e" THEN {"e"} ELSE {}) /\ Flags(argv[k + 1]) = {}
      BY <1>5, <2>2 DEF Flags, TakesNext
    <2>5. FlagsBefore(k + 2) = FlagsBefore(k + 1) \union Flags(argv[k + 1])
      <3>1. k + 1 \in Nat \ {0} /\ k + 1 + 1 = k + 2
        BY <1>2
      <3>2. QED
        BY <3>1, FlagsAfter
    <2>6. from[k + 2] \in Findings
      BY <1>2, <1>3, <2>2 DEF CommandLine
    <2>7. from[k].script = from[k + 2].script /\ from[k].has = Flags(argv[k]) \union from[k + 2].has
      BY <2>3, <2>4, <2>6 DEF With, Findings
    <2>8. NoneWrong(k + 2)
      <3>1. ~Bad(k + 1)
        BY <2>2 DEF Bad
      <3>2. QED
        BY <1>2, <3>1 DEF NoneWrong, Comes
    <2>9. Comes(k + 2)
      BY <1>1, <1>4, <2>1, <2>4, <2>5, <2>7, <2>8 DEF Comes
    <2>10. QED
      BY <1>2, <2>9
  <1>6. CASE ~TakesNext(k)
    <2>1. AtOption(k + 1)
      BY <1>6, NextOption DEF Comes
    <2>2. NoneWrong(k + 1)
      BY <1>2 DEF NoneWrong, Comes
    <2>3. argv[k] \in {"-E", "-i", "-v", "-eX", "-lX", "-z"}
      BY <1>2, <1>6 DEF Bad, TakesNext, Words
    <2>4. argv[k] # "-z"
      BY DEF Bad
    <2>5. from[k + 1] \in Findings
      BY <1>2, <1>3 DEF CommandLine
    <2>6. from[k] = IF argv[k] = "-lX" THEN from[k + 1] ELSE With(Flags(argv[k]), from[k + 1])
      BY <1>2, <1>3, <2>3, <2>4 DEF CollectAt, Flags, CommandLine
    <2>7. argv[k] = "-lX" => Flags(argv[k]) = {}
      BY DEF Flags
    <2>8. from[k].script = from[k + 1].script /\ from[k].has = Flags(argv[k]) \union from[k + 1].has
      BY <2>5, <2>6, <2>7 DEF With, Findings
    <2>9. Comes(k + 1)
      BY <1>1, <1>4, <2>1, <2>2, <2>8 DEF Comes
    <2>10. QED
      BY <1>2, <2>9
  <1>7. QED
    BY <1>5, <1>6

\* collectargs() tells what is wrong, and otherwise where the script is and which
\* options there are.
LEMMA CollectRight ==
    ASSUME CommandLine
    PROVE  /\ Args \in Findings
           /\ Args.script < 0 <=> Wrong
           /\ ~Wrong => Args.script = ScriptAt /\ Args.has = FlagsBefore(EndOfOptions)
  <1> DEFINE Reached == {k \in 1 .. Len(argv) + 1 : Comes(k)}
  <1>1. Len(argv) \in Nat /\ EndOfOptions \in 1 .. Len(argv) + 1
    BY EndIs DEF CommandLine
  <1>2. PICK from : from = CollectFrom(argv)
    OBVIOUS
  <1>3. /\ from \in [1 .. Len(argv) + 2 -> Findings]
        /\ \A k \in 1 .. Len(argv) + 2 : from[k] = CollectAt(argv, k, from)
    BY <1>2, CollectFinds DEF CommandLine
  <1>4. Args = from[1] /\ Args \in Findings
    BY <1>1, <1>2, <1>3 DEF Args, Collect
  <1>5. Comes(1)
    <2>1. AtOption(1) /\ NoneWrong(1)
      BY <1>1 DEF AtOption, IsArgument, NoneWrong
    <2>2. FlagsBefore(1) = {}
      BY DEF FlagsBefore
    <2>3. QED
      BY <1>2, <1>4, <2>1, <2>2 DEF Comes
  <1>6. PICK k \in Reached : \A j \in Reached : j <= k
    <2>1. 1 \in Reached /\ Reached \subseteq 1 .. Len(argv) + 1 /\ Len(argv) + 1 \in Nat
      BY <1>1, <1>5
    <2>2. QED
      BY <2>1, GreatestExists
  <1>7. k = EndOfOptions \/ Bad(k)
    <2>1. SUFFICES ASSUME k # EndOfOptions, ~Bad(k) PROVE FALSE
      OBVIOUS
    <2>2. k < EndOfOptions
      BY <1>1, <1>6, <2>1 DEF Comes, AtOption
    <2>3. PICK n : Comes(n) /\ n > k
      BY <1>6, <2>1, <2>2, CollectGoesOn
    <2>4. n \in Reached
      BY <1>1, <2>3 DEF Comes, AtOption
    <2>5. QED
      BY <1>6, <2>3, <2>4
  <1>8. from[k] = CollectAt(argv, k, from) /\ k \in 1 .. EndOfOptions
    BY <1>1, <1>3, <1>6 DEF Comes, AtOption
  <1>9. Args.script = from[k].script /\ Args.has = FlagsBefore(k) \union from[k].has
    BY <1>2, <1>6 DEF Comes
  <1>10. CASE k = EndOfOptions
    <2>1. ~Wrong
      BY <1>6, <1>10, WrongIs DEF Comes
    <2>2. from[k] = Found(ScriptAt)
      <3>1. CASE k > Len(argv)
        BY <1>8, <1>10, <3>1 DEF CollectAt, ScriptAt
      <3>2. CASE k <= Len(argv)
        <4>1. argv[k] \in {"-", "--", "word"}
          BY <1>10, <3>2, EndIs DEF Ends
        <4>2. QED
          BY <1>1, <1>8, <1>10, <3>2, <4>1 DEF CollectAt, ScriptAt
      <3>3. QED
        BY <1>1, <1>8, <3>1, <3>2
    <2>3. ScriptAt \in Nat
      BY <1>1 DEF ScriptAt
    <2>4. QED
      BY <1>4, <1>9, <1>10, <2>1, <2>2, <2>3 DEF Found
  <1>11. CASE k # EndOfOptions
    <2>1. k < EndOfOptions /\ Bad(k)
      BY <1>1, <1>7, <1>8, <1>11
    <2>2. Wrong
      BY <1>1, <1>8, <2>1, WrongIs DEF NoneWrong
    <2>3. k \in 1 .. Len(argv) /\ argv[k] \in Words \ {"word", "-", "--"}
      BY <1>6, <2>1, OptionAt DEF Comes
    <2>4. argv[k] \in {"-e", "-l"} => Lacks(argv, k)
      BY <2>1, <2>3 DEF Bad, Lacks, Begins
    <2>5. from[k].script = -1 \/ from[k].script = -k
      BY <1>1, <1>8, <2>1, <2>3, <2>4 DEF CollectAt, Bad, Found, With
    <2>6. Args.script < 0
      BY <1>9, <2>3, <2>5
    <2>7. QED
      BY <1>4, <2>2, <2>6
  <1>12. QED
    BY <1>10, <1>11

----------------------------------------------------------------------------
(* What is asked for, and where it stands.                                 *)

Clear == CommandLine /\ ~Wrong

LEMMA ScriptIs ==
    ASSUME Clear
    PROVE  /\ EndOfOptions \in 1 .. Len(argv) + 1 /\ Len(argv) \in Nat
           /\ Args.script = ScriptAt /\ ScriptAt \in 0 .. Len(argv)
           /\ LastOption = IF EndOfOptions <= Len(argv) /\ argv[EndOfOptions] = "--"
                           THEN EndOfOptions ELSE EndOfOptions - 1
           /\ ScriptAt = IF LastOption = Len(argv) THEN 0 ELSE LastOption + 1
  <1>1. EndOfOptions \in 1 .. Len(argv) + 1 /\ Len(argv) \in Nat
    BY EndIs DEF Clear, CommandLine
  <1>2. Args.script = ScriptAt
    BY CollectRight DEF Clear
  <1>3. QED
    BY <1>1, <1>2 DEF ScriptAt, LastOption

\* The flags are the options.
LEMMA FlagsAre ==
    ASSUME Clear
    PROVE  /\ "E" \in Args.has <=> Preceding({"-E"}) # {}
           /\ "i" \in Args.has <=> Preceding({"-i"}) # {}
           /\ Args.has \intersect {"e", "v"} = {} <=> Preceding({"-e", "-eX", "-i", "-v"}) = {}
  <1>1. Args.has = FlagsBefore(EndOfOptions)
    BY CollectRight DEF Clear
  <1>2. \A f : f \in Args.has <=> \E j \in 1 .. EndOfOptions - 1 : f \in Flags(argv[j])
    BY <1>1 DEF FlagsBefore
  <1>3. \A w : "E" \in Flags(w) <=> w = "-E"
    BY DEF Flags
  <1>4. \A w : "i" \in Flags(w) <=> w = "-i"
    BY DEF Flags
  <1>5. \A w : "e" \in Flags(w) \/ "v" \in Flags(w) <=> w \in {"-e", "-eX", "-i", "-v"}
    BY DEF Flags
  <1>6. "E" \in Args.has <=> Preceding({"-E"}) # {}
    BY <1>2, <1>3 DEF Preceding
  <1>7. "i" \in Args.has <=> Preceding({"-i"}) # {}
    BY <1>2, <1>4 DEF Preceding
  <1>8. "e" \in Args.has \/ "v" \in Args.has <=> Preceding({"-e", "-eX", "-i", "-v"}) # {}
    BY <1>2, <1>5 DEF Preceding
  <1>9. QED
    BY <1>6, <1>7, <1>8

\* The options that are run, and their arguments, are before the end.
LEMMA TextBefore ==
    ASSUME Clear, NEW k, AtOption(k), k < EndOfOptions
    PROVE  /\ k \in 1 .. Len(argv) /\ k < Text(k) + 1 /\ Text(k) < EndOfOptions /\ Text(k) \in Nat
           /\ AtOption(Text(k) + 1)
           /\ \A j : AtOption(j) /\ k < j => Text(k) < j
  <1>1. k \in 1 .. Len(argv) /\ k < EndOfOptions
    BY OptionAt DEF Clear
  <1>2. CASE TakesNext(k)
    <2>1. ~Bad(k)
      BY <1>1, WrongIs, ScriptIs DEF Clear, NoneWrong
    <2>2. k + 1 < EndOfOptions /\ IsArgument(k + 1) /\ AtOption(k + 2)
      BY <1>2, <2>1, ArgumentAt DEF Clear
    <2>3. k + 1 <= Len(argv)
      BY <1>1, <2>2, ScriptIs
    <2>4. ASSUME NEW j, AtOption(j), k < j PROVE k + 1 < j
      <3>1. j # k + 1 /\ j \in Nat
        BY <2>2, <2>3, <2>4 DEF AtOption
      <3>2. QED
        BY <1>1, <2>4, <3>1
    <2>5. QED
      BY <1>1, <1>2, <2>2, <2>4 DEF Text
  <1>3. CASE ~TakesNext(k)
    BY <1>1, <1>3, NextOption DEF Text, Clear
  <1>4. QED
    BY <1>2, <1>3

\* The options that ask for something.
Option(k) == k < EndOfOptions /\ AtOption(k)
OptionAsks(k, what) ==
    \/ RunsE(k) /\ what = <<"e", Text(k)>>
    \/ RunsL(k) /\ what = <<"l", Text(k)>>
ScriptWhat == <<IF ReadsStdin THEN "stdin" ELSE "file", Args.script>>

LEMMA AskedOptionsAre ==
    ASSUME Clear, NEW what
    PROVE  what \in AskedOptions <=> \E k : Option(k) /\ OptionAsks(k, what)
  <1>1. \A k : k \in 1 .. EndOfOptions - 1 /\ argv[k] \in {"-e", "-eX", "-l", "-lX"} => Option(k)
    BY ScriptIs DEF Option, AtOption, IsArgument
  <1>2. \A k : Option(k) => k \in 1 .. EndOfOptions - 1
    BY ScriptIs DEF Option, AtOption
  <1>3. QED
    BY <1>1, <1>2 DEF AskedOptions, Preceding, OptionAsks, RunsE, RunsL, Text, TakesNext

LEMMA AskedScriptIs ==
    ASSUME Clear
    PROVE  AskedScript = IF ScriptAt = 0 THEN {} ELSE {ScriptWhat}
  <1> DEFINE e == EndOfOptions
  <1>1. CASE ScriptAt = 0
    BY <1>1, ScriptIs DEF ScriptAt, AskedScript
  <1>2. CASE ScriptAt # 0
    <2>1. e \in 1 .. Len(argv) /\ Len(argv) \in Nat /\ Args.script = ScriptAt
      BY <1>2, ScriptIs DEF ScriptAt
    <2>2. \A k \in Ends : e <= k
      BY EndIs DEF Clear
    <2>3. e > 1 => argv[e - 1] # "--"
      <3>1. e > 1 => e - 1 \in 1 .. Len(argv) /\ ~(e <= e - 1)
        BY <2>1
      <3>2. e > 1 => e - 1 \notin Ends
        BY <2>2, <3>1
      <3>3. QED
        BY <3>1, <3>2 DEF Ends, Clear, CommandLine
    <2>4. CASE argv[e] = "--"
      <3>1. ScriptAt = e + 1
        BY <1>2, <2>4 DEF ScriptAt
      <3>2. ~ReadsStdin
        BY <2>1, <2>4, <3>1 DEF ReadsStdin
      <3>3. QED
        BY <1>2, <2>1, <2>4, <3>1, <3>2 DEF AskedScript, ScriptWhat, ScriptAt
    <2>5. CASE argv[e] # "--"
      <3>1. ScriptAt = e
        BY <1>2, <2>5 DEF ScriptAt
      <3>2. ReadsStdin <=> argv[e] = "-"
        BY <2>1, <2>3, <3>1 DEF ReadsStdin
      <3>3. QED
        BY <1>2, <2>1, <2>5, <3>1, <3>2 DEF AskedScript, ScriptWhat, ScriptAt
    <2>6. QED
      BY <2>4, <2>5
  <1>3. QED
    BY <1>1, <1>2

\* What is asked for is one of these, and stands where it does.
LEMMA AskedIs ==
    ASSUME Clear, NEW what
    PROVE  what \in Asked <=> \/ AskedInit # {} /\ what = <<"init", 0>>
                              \/ \E k : Option(k) /\ OptionAsks(k, what)
                              \/ ScriptAt # 0 /\ what = ScriptWhat
                              \/ AskedStdin # {} /\ what = <<"stdin", 0>>
  <1>1. what \in AskedScript <=> ScriptAt # 0 /\ what = ScriptWhat
    BY AskedScriptIs
  <1>2. what \in AskedInit <=> AskedInit # {} /\ what = <<"init", 0>>
    BY DEF AskedInit
  <1>3. what \in AskedStdin <=> AskedStdin # {} /\ what = <<"stdin", 0>>
    BY DEF AskedStdin
  <1>4. what \in Asked <=> what \in AskedInit \union AskedOptions \union AskedScript \union AskedStdin
    BY DEF Asked, Clear
  <1>5. QED
    BY <1>1, <1>2, <1>3, <1>4, AskedOptionsAre

LEMMA PlaceIs ==
    ASSUME Clear
    PROVE  /\ Place(<<"init", 0>>) = 0
           /\ Place(<<"stdin", 0>>) = Len(argv) + 1
           /\ ScriptAt # 0 => Place(ScriptWhat) = ScriptAt
           /\ \A k, what : Option(k) /\ OptionAsks(k, what) => Place(what) = Text(k)
  <1>1. <<"init", 0>> # <<"stdin", 0>>
    OBVIOUS
  <1>2. ScriptAt # 0 => Place(ScriptWhat) = ScriptAt
    BY ScriptIs DEF Place, ScriptWhat
  <1>3. ASSUME NEW k, NEW what, Option(k), OptionAsks(k, what) PROVE Place(what) = Text(k)
    BY <1>3 DEF OptionAsks, Place
  <1>4. QED
    BY <1>1, <1>2, <1>3 DEF Place

----------------------------------------------------------------------------
(* The invariant.                                                          *)

Runs == [what : {"init", "e", "l", "file", "stdin", "chunk"} \X Nat, ok : BOOLEAN]

Typed ==
    /\ argv \in Commands /\ env \in BOOLEAN /\ tty \in BOOLEAN
    /\ pc \in Places /\ i \in 1 .. Len(argv) + 1 /\ lines \in 0 .. MaxLines /\ result \in BOOLEAN
    /\ docall \in {"no", "running", "returned"} /\ status \in BOOLEAN
    /\ thread \in {"main", "coroutine"} /\ ran \in Seq(Runs)
    /\ sigint \in {"DFL", "laction"} /\ hook \in BOOLEAN /\ dead \in BOOLEAN
    /\ arms \in 0 .. MaxSignals /\ caught \in BOOLEAN /\ wanted \in BOOLEAN

\* It comes to each place for a reason, and runargs() to options only.
Located ==
    /\ pc \notin {"start", "exit"} => ~Wrong
    /\ pc \in {"start", "init"} => i = 1
    /\ pc = "init" => AskedInit # {}
    /\ pc = "runargs" => AtOption(i) \/ i = LastOption + 1
    /\ pc = "runargs" /\ docall # "no" => i <= LastOption /\ (RunsE(i) \/ RunsL(i))
    /\ pc = "script" => ScriptAt # 0
    /\ pc = "stdin" => AskedStdin # {}
    /\ pc \in {"read", "print"} => AskedStdin = {}
    /\ pc \in {"start", "choose", "print", "exit"} => docall = "no"

\* What is asked for has been run so far, and nothing after that.
Upto ==
    LET begun == docall # "no" IN
    CASE pc = "start" -> 0
      [] pc = "init" -> IF begun THEN 1 ELSE 0
      [] pc = "runargs" -> IF begun THEN Text(i) + 1 ELSE i
      [] pc = "script" -> IF begun THEN ScriptAt + 1 ELSE ScriptAt
      [] pc = "choose" -> Len(argv) + 1
      [] pc = "stdin" -> IF begun THEN Len(argv) + 2 ELSE Len(argv) + 1
      [] OTHER -> Len(argv) + 2
RanBefore(f) == \A what \in Asked : HasRun(what) <=> Place(what) < f
RanUpto == pc # "exit" => RanBefore(Upto)

\* All went well that has been run, but for what is last.
Outcomes ==
    /\ docall # "no" =>
        LET last == ran[Len(ran)] IN
        /\ ran # << >>
        /\ docall = "running" => last.ok
        /\ docall = "returned" => last.ok = status
        /\ pc = "read" <=> last.what[1] = "chunk"
        /\ pc = "stdin" <=> last.what = <<"stdin", 0>>
    /\ \A n \in DOMAIN ran : ran[n].what[1] = "chunk" => ran[n].what = <<"chunk", 0>>
    /\ \A n \in NotTyped : ran[n].ok \/ (n = Len(ran) /\ (docall # "no" \/ pc = "exit"))

\* laction() is installed until it is called.
Armed == docall = "running" /\ ~caught => sigint = "laction"
Awaited == hook = wanted

Consistent ==
    Typed /\ Located /\ RunsAsAsked /\ RanUpto /\ Outcomes /\ ExitTells /\ Armed /\ Awaited

LEMMA CommandTyped ==
    ASSUME Typed
    PROVE  CommandLine /\ (pc \notin {"start", "exit"} /\ Located => Clear)
  BY YluaAssumption DEF Typed, CommandLine, Clear, Located

\* The command line stays, and all that is said of it.
LEMMA CommandSame ==
    ASSUME UNCHANGED commandVars
    PROVE  /\ Wrong' = Wrong /\ Asked' = Asked
           /\ AskedInit' = AskedInit /\ AskedStdin' = AskedStdin
           /\ Args' = Args /\ ScriptAt' = ScriptAt /\ LastOption' = LastOption
           /\ \A what : Place(what)' = Place(what)
           /\ \A k : /\ AtOption(k)' <=> AtOption(k)
                     /\ Text(k)' = Text(k)
                     /\ RunsE(k)' <=> RunsE(k)
                     /\ RunsL(k)' <=> RunsL(k)
  <1> USE DEF commandVars
  <1>1. Ends' = Ends
    BY DEF Ends, IsArgument
  <1>2. EndOfOptions' = EndOfOptions
    BY <1>1 DEF EndOfOptions
  <1>3. \A words : Preceding(words)' = Preceding(words)
    BY <1>2 DEF Preceding
  <1>4. Wrong' = Wrong
    BY <1>3 DEF Wrong
  <1>5. AskedInit' = AskedInit /\ AskedOptions' = AskedOptions
    BY <1>3 DEF AskedInit, AskedOptions
  <1>6. AskedScript' = AskedScript
    BY <1>2 DEF AskedScript
  <1>7. AskedStdin' = AskedStdin
    BY <1>3, <1>6 DEF AskedStdin
  <1>8. Asked' = Asked
    BY <1>4, <1>5, <1>6, <1>7 DEF Asked
  <1>9. Args' = Args
    BY DEF Args
  <1>10. LastOption' = LastOption /\ ScriptAt' = ScriptAt
    BY <1>2, <1>9 DEF LastOption, ScriptAt
  <1>11. \A what : Place(what)' = Place(what)
    BY DEF Place
  <1>12. \A k : AtOption(k)' <=> AtOption(k)
    BY <1>2 DEF AtOption, IsArgument
  <1>13. \A k : Text(k)' = Text(k) /\ (RunsE(k)' <=> RunsE(k)) /\ (RunsL(k)' <=> RunsL(k))
    BY DEF Text, TakesNext, RunsE, RunsL
  <1>14. QED
    BY <1>4, <1>5, <1>7, <1>8, <1>9, <1>10, <1>11, <1>12, <1>13

----------------------------------------------------------------------------
(* Places.                                                                 *)

LEMMA PlaceIn ==
    ASSUME Clear, NEW what \in Asked
    PROVE  Place(what) \in 0 .. Len(argv) + 1
  <1>1. Len(argv) \in Nat /\ ScriptAt \in 0 .. Len(argv) /\ EndOfOptions \in 1 .. Len(argv) + 1
    BY ScriptIs
  <1>2. \A k : Option(k) => Text(k) \in Nat /\ Text(k) < EndOfOptions
    BY TextBefore DEF Option
  <1>3. CASE \E k : Option(k) /\ OptionAsks(k, what)
    <2>1. PICK k : Option(k) /\ OptionAsks(k, what)
      BY <1>3
    <2>2. QED
      BY <1>1, <1>2, <2>1, PlaceIs
  <1>4. QED
    BY <1>1, <1>3, AskedIs, PlaceIs

\* LUA_INIT comes before everything else.
LEMMA FirstPlaces ==
    ASSUME Clear
    PROVE  \A what \in Asked :
               /\ ~(Place(what) < 0)
               /\ Place(what) < 1 <=> AskedInit # {} /\ what = <<"init", 0>>
  <1>1. SUFFICES ASSUME NEW what \in Asked
                 PROVE  /\ ~(Place(what) < 0)
                        /\ Place(what) < 1 <=> AskedInit # {} /\ what = <<"init", 0>>
    OBVIOUS
  <1>2. \A k : Option(k) => Text(k) \in Nat /\ Text(k) >= 1
    BY TextBefore DEF Option
  <1>3. CASE \E k : Option(k) /\ OptionAsks(k, what)
    <2>1. PICK k : Option(k) /\ OptionAsks(k, what)
      BY <1>3
    <2>2. Place(what) \in Nat /\ Place(what) >= 1
      BY <1>2, <2>1, PlaceIs
    <2>3. what # <<"init", 0>>
      BY <2>1 DEF OptionAsks
    <2>4. QED
      BY <2>2, <2>3
  <1>4. QED
    BY <1>3, AskedIs, PlaceIs, ScriptIs

\* An option asks for its argument, and for nothing else up to the next option.
LEMMA OptionPlaces ==
    ASSUME Clear, NEW k, AtOption(k), k <= LastOption
    PROVE  /\ RunsE(k) \/ RunsL(k) => k < EndOfOptions
           /\ \A what : OptionAsks(k, what) =>
                  /\ what \in Asked
                  /\ \A w \in Asked : Place(w) < Text(k) + 1 <=> Place(w) < k \/ w = what
           /\ ~RunsE(k) /\ ~RunsL(k) =>
                  \A w \in Asked : Place(w) < k + 1 <=> Place(w) < k
  <1>1. /\ Len(argv) \in Nat /\ ScriptAt \in 0 .. Len(argv) /\ EndOfOptions \in 1 .. Len(argv) + 1
        /\ ScriptAt # 0 => ScriptAt > LastOption
        /\ k \in 1 .. EndOfOptions
        /\ k = EndOfOptions => k <= Len(argv) /\ argv[k] = "--"
        /\ LastOption <= Len(argv) /\ LastOption <= EndOfOptions
    BY ScriptIs DEF AtOption
  <1>2. RunsE(k) \/ RunsL(k) => k < EndOfOptions
    BY <1>1 DEF RunsE, RunsL
  <1>3. \A j : Option(j) => /\ j \in Nat /\ Text(j) \in Nat /\ j <= Text(j) /\ Text(j) < EndOfOptions
                            /\ \A m : AtOption(m) /\ j < m => Text(j) < m
    BY TextBefore DEF Option
  \* Every other option has its argument before k or after that of k.
  <1>4. ASSUME NEW w \in Asked
        PROVE  \/ ~OptionAsks(k, w) /\ (Place(w) < k \/ Place(w) > k)
               \/ Option(k) /\ OptionAsks(k, w)
    <2>1. CASE \E j : Option(j) /\ OptionAsks(j, w)
      <3>1. PICK j : Option(j) /\ OptionAsks(j, w)
        BY <2>1
      <3>2. Place(w) = Text(j)
        BY <3>1, PlaceIs
      <3>3. CASE j = k
        BY <3>1, <3>3
      <3>4. CASE j < k
        BY <1>1, <1>2, <1>3, <3>1, <3>2, <3>4, PlaceIs DEF Option, OptionAsks
      <3>5. CASE j > k
        <4>1. Place(w) > k
          BY <1>1, <1>3, <3>1, <3>2, <3>5
        <4>2. OptionAsks(k, w) => Option(k) /\ Place(w) = Text(k)
          BY <1>2, PlaceIs DEF Option, OptionAsks
        <4>3. QED
          BY <4>1, <4>2
      <3>6. QED
        BY <1>1, <1>3, <3>1, <3>3, <3>4, <3>5
    <2>2. CASE w = <<"init", 0>> \/ w = <<"stdin", 0>>
      BY <1>1, <2>2, PlaceIs DEF OptionAsks
    <2>3. CASE ScriptAt # 0 /\ w = ScriptWhat
      <3>1. Place(w) = ScriptAt
        BY <2>3, PlaceIs
      <3>2. ~OptionAsks(k, w)
        BY <2>3 DEF OptionAsks, ScriptWhat
      <3>3. QED
        BY <1>1, <2>3, <3>1, <3>2, ScriptIs
    <2>4. QED
      BY <2>1, <2>2, <2>3, AskedIs
  \* Between k and its argument there is none.
  <1>5. ASSUME Option(k), NEW w \in Asked, Place(w) <= Text(k), ~(Place(w) < k)
        PROVE  OptionAsks(k, w)
    <2>1. Len(argv) \in Nat /\ Text(k) < EndOfOptions /\ k <= Text(k) /\ k \in Nat /\ Text(k) \in Nat
      BY <1>1, <1>3, <1>5
    <2>2. CASE \E j : Option(j) /\ OptionAsks(j, w)
      <3>1. PICK j : Option(j) /\ OptionAsks(j, w)
        BY <2>2
      <3>2. Place(w) = Text(j) /\ j \in Nat /\ Text(j) \in Nat /\ j <= Text(j)
        BY <1>3, <3>1, PlaceIs
      <3>3. j < k => Text(j) < k
        BY <1>3, <3>1
      <3>4. j > k => Text(k) < j
        BY <1>3, <1>5, <3>1 DEF Option
      <3>5. j = k
        BY <1>5, <2>1, <3>2, <3>3, <3>4
      <3>6. QED
        BY <3>1, <3>5
    <2>3. w # <<"init", 0>> /\ w # <<"stdin", 0>>
      BY <1>1, <1>5, <2>1, PlaceIs
    <2>4. ~(ScriptAt # 0 /\ w = ScriptWhat)
      <3>1. ScriptAt # 0 => ScriptAt >= EndOfOptions
        BY <1>1 DEF ScriptAt
      <3>2. QED
        BY <1>1, <1>5, <2>1, <3>1, PlaceIs
    <2>5. QED
      BY <2>2, <2>3, <2>4, AskedIs
  <1>6. ASSUME NEW what, OptionAsks(k, what)
        PROVE  /\ what \in Asked
               /\ \A w \in Asked : Place(w) < Text(k) + 1 <=> Place(w) < k \/ w = what
    <2>1. Option(k)
      BY <1>2, <1>6 DEF OptionAsks, Option
    <2>2. what \in Asked /\ Place(what) = Text(k)
      BY <1>6, <2>1, AskedIs, PlaceIs
    <2>3. k \in Nat /\ Text(k) \in Nat /\ k <= Text(k)
      BY <1>3, <2>1
    <2>4. ASSUME NEW w \in Asked PROVE Place(w) < Text(k) + 1 <=> Place(w) < k \/ w = what
      <3>1. Place(w) \in Nat
        BY PlaceIn
      <3>2. OptionAsks(k, w) => w = what
        BY <1>6 DEF OptionAsks, RunsE, RunsL
      <3>3. QED
        BY <1>5, <2>1, <2>2, <2>3, <3>1, <3>2
    <2>5. QED
      BY <2>2, <2>4
  <1>7. ASSUME ~RunsE(k), ~RunsL(k), NEW w \in Asked PROVE Place(w) < k + 1 <=> Place(w) < k
    <2>1. ~OptionAsks(k, w)
      BY <1>7 DEF OptionAsks
    <2>2. Place(w) < k \/ Place(w) > k
      BY <1>4, <2>1
    <2>3. Place(w) \in Nat /\ k \in Nat
      BY <1>1, PlaceIn
    <2>4. QED
      BY <2>2, <2>3
  <1>8. QED
    BY <1>2, <1>6, <1>7

\* After the options there is the script, and then stdin for want of it.
LEMMA LastPlaces ==
    ASSUME Clear
    PROVE  \A what \in Asked :
               /\ ScriptAt # 0 =>
                      /\ Place(what) < ScriptAt + 1 <=> Place(what) < ScriptAt \/ what = ScriptWhat
                      /\ Place(what) < ScriptAt + 1 <=> Place(what) < Len(argv) + 1
               /\ Place(what) < Len(argv) + 2
               /\ Place(what) < Len(argv) + 1 <=> ~(AskedStdin # {} /\ what = <<"stdin", 0>>)
  <1>1. SUFFICES ASSUME NEW what \in Asked
                 PROVE  /\ ScriptAt # 0 =>
                               /\ Place(what) < ScriptAt + 1 <=> Place(what) < ScriptAt \/ what = ScriptWhat
                               /\ Place(what) < ScriptAt + 1 <=> Place(what) < Len(argv) + 1
                        /\ Place(what) < Len(argv) + 2
                        /\ Place(what) < Len(argv) + 1 <=> ~(AskedStdin # {} /\ what = <<"stdin", 0>>)
    OBVIOUS
  <1>2. /\ Len(argv) \in Nat /\ ScriptAt \in 0 .. Len(argv) /\ EndOfOptions \in 1 .. Len(argv) + 1
        /\ ScriptAt # 0 => ScriptAt >= EndOfOptions
    BY ScriptIs DEF ScriptAt
  <1>3. Place(what) \in 0 .. Len(argv) + 1
    BY PlaceIn
  <1>4. ScriptAt # 0 => AskedStdin = {}
    BY AskedScriptIs DEF AskedStdin
  <1>5. CASE \E k : Option(k) /\ OptionAsks(k, what)
    <2>1. PICK k : Option(k) /\ OptionAsks(k, what)
      BY <1>5
    <2>2. Place(what) < EndOfOptions
      BY <2>1, PlaceIs, TextBefore DEF Option
    <2>3. what # <<"stdin", 0>>
      BY <1>2, <2>2, PlaceIs
    <2>4. ScriptAt # 0 => what # ScriptWhat
      BY <1>2, <1>3, <2>2, PlaceIs
    <2>5. QED
      BY <1>2, <1>3, <2>2, <2>3, <2>4
  <1>6. CASE AskedInit # {} /\ what = <<"init", 0>>
    <2>1. Place(what) = 0 /\ what # <<"stdin", 0>>
      BY <1>6, PlaceIs
    <2>2. ScriptAt # 0 => what # ScriptWhat
      BY <1>6 DEF ScriptWhat
    <2>3. QED
      BY <1>2, <2>1, <2>2
  <1>7. CASE ScriptAt # 0 /\ what = ScriptWhat
    BY <1>2, <1>4, <1>7, PlaceIs
  <1>8. CASE AskedStdin # {} /\ what = <<"stdin", 0>>
    BY <1>2, <1>4, <1>8, PlaceIs
  <1>9. QED
    BY <1>5, <1>6, <1>7, <1>8, AskedIs

----------------------------------------------------------------------------
(* Something begins to run.                                                *)

LEMMA AskedTyped ==
    ASSUME Clear
    PROVE  Asked \subseteq {"init", "e", "l", "file", "stdin"} \X Nat
  <1>1. SUFFICES ASSUME NEW what \in Asked
                 PROVE  what \in {"init", "e", "l", "file", "stdin"} \X Nat
    OBVIOUS
  <1>2. CASE \E k : Option(k) /\ OptionAsks(k, what)
    BY <1>2, TextBefore DEF Option, OptionAsks
  <1>3. CASE ScriptAt # 0 /\ what = ScriptWhat
    BY <1>3, ScriptIs DEF ScriptWhat
  <1>4. QED
    BY <1>2, <1>3, AskedIs

\* What Run() leaves of it.
Begun(what, r) ==
    /\ docall = "no" /\ ran' = Append(ran, r) /\ r \in Runs /\ r.what = what
    /\ \/ docall' = "running" /\ r.ok /\ sigint' = "laction" /\ caught' = FALSE /\ UNCHANGED status
       \/ docall' = "returned" /\ r.ok = FALSE /\ status' = FALSE /\ UNCHANGED <<sigint, caught>>
    /\ UNCHANGED <<commandVars, thread, hook, dead, arms, wanted>>

LEMMA RunBegins ==
    ASSUME NEW what \in {"init", "e", "l", "file", "stdin", "chunk"} \X Nat, NEW loads, Run(what, loads)
    PROVE  \E r : Begun(what, r)
  <1>1. \A b \in BOOLEAN : [what |-> what, ok |-> b] \in Runs
    BY DEF Runs
  <1>2. CASE docall' = "running"
    <2>1. Begun(what, [what |-> what, ok |-> TRUE])
      BY <1>1, <1>2 DEF Run, Install, Begun
    <2>2. QED
      BY <2>1
  <1>3. CASE docall' # "running"
    <2>1. Begun(what, [what |-> what, ok |-> FALSE])
      BY <1>1, <1>3 DEF Run, Install, Begun
    <2>2. QED
      BY <2>1
  <1>4. QED
    BY <1>2, <1>3

LEMMA Appended ==
    ASSUME ran \in Seq(Runs), NEW r \in Runs, ran' = Append(ran, r)
    PROVE  /\ ran' \in Seq(Runs) /\ ran' # << >>
           /\ Len(ran') = Len(ran) + 1 /\ Len(ran) \in Nat
           /\ DOMAIN ran = 1 .. Len(ran) /\ DOMAIN ran' = 1 .. Len(ran) + 1
           /\ \A n \in DOMAIN ran : ran'[n] = ran[n]
           /\ ran'[Len(ran) + 1] = r
  OBVIOUS

\* A run that begins last is not the last but one.
LEMMA BeginOutcomes ==
    ASSUME Consistent, NEW what, NEW r, Begun(what, r), UNCHANGED pc, pc # "exit",
           pc = "read" <=> what[1] = "chunk", pc = "stdin" <=> what = <<"stdin", 0>>,
           what[1] = "chunk" => what = <<"chunk", 0>>
    PROVE  Outcomes' /\ Armed' /\ Awaited' /\ ExitTells'
  <1>1. /\ ran' # << >> /\ Len(ran') = Len(ran) + 1 /\ Len(ran) \in Nat
        /\ DOMAIN ran = 1 .. Len(ran) /\ DOMAIN ran' = 1 .. Len(ran) + 1
        /\ \A n \in DOMAIN ran : ran'[n] = ran[n]
        /\ ran'[Len(ran) + 1] = r
    BY Appended DEF Begun, Consistent, Typed
  <1>2. docall = "no" /\ r.what = what
    BY DEF Begun
  <1>3. \A n \in NotTyped' : ran'[n].ok \/ (n = Len(ran') /\ docall' # "no")
    <2>1. \A n \in NotTyped : ran[n].ok
      BY <1>2 DEF Consistent, Outcomes
    <2>2. docall' # "no"
      BY DEF Begun
    <2>3. QED
      BY <1>1, <2>1, <2>2 DEF NotTyped
  <1>4. \A n \in DOMAIN ran' : ran'[n].what[1] = "chunk" => ran'[n].what = <<"chunk", 0>>
    BY <1>1, <1>2 DEF Consistent, Outcomes
  <1>5. Outcomes'
    <2>1. ran'[Len(ran')] = r /\ pc' = pc
      BY <1>1
    <2>2. /\ docall' = "running" => r.ok
          /\ docall' = "returned" => r.ok = status'
      BY DEF Begun
    <2>3. /\ pc' = "read" <=> r.what[1] = "chunk"
          /\ pc' = "stdin" <=> r.what = <<"stdin", 0>>
      BY <1>2
    <2>4. QED
      BY <1>1, <1>3, <1>4, <2>1, <2>2, <2>3 DEF Outcomes
  <1>6. Armed' /\ Awaited' /\ ExitTells'
    BY DEF Begun, Consistent, Armed, Awaited, ExitTells
  <1>7. QED
    BY <1>5, <1>6

\* What is asked for next is run.
LEMMA BeginAsked ==
    ASSUME Consistent, Clear, pc # "exit", UNCHANGED pc, NEW what \in Asked, NEW r, Begun(what, r),
           NEW f, f = Upto, ~(Place(what) < f), NEW g \in Nat, g = Upto',
           \A w \in Asked : Place(w) < g <=> Place(w) < f \/ w = what
    PROVE  RunsAsAsked' /\ RanUpto'
  <1>1. /\ Len(ran) \in Nat
        /\ DOMAIN ran = 1 .. Len(ran) /\ DOMAIN ran' = 1 .. Len(ran) + 1
        /\ \A n \in DOMAIN ran : ran'[n] = ran[n]
        /\ ran'[Len(ran) + 1] = r
    BY Appended DEF Begun, Consistent, Typed
  <1>2. Asked' = Asked /\ \A w : Place(w)' = Place(w)
    BY CommandSame DEF Begun
  <1>3. r.what = what /\ what[1] # "chunk"
    BY AskedTyped DEF Begun
  <1>4. NotTyped' = NotTyped \union {Len(ran) + 1} /\ NotTyped \subseteq DOMAIN ran
    BY <1>1, <1>3 DEF NotTyped
  <1>5. \A w : HasRun(w)' <=> HasRun(w) \/ w = what
    BY <1>1, <1>3, <1>4 DEF HasRun
  <1>6. \A w \in Asked : HasRun(w) <=> Place(w) < f
    BY DEF Consistent, RanUpto, RanBefore
  <1>7. \A w \in Asked : HasRun(w)' <=> Place(w) < g
    BY <1>5, <1>6
  <1>8. RanUpto'
    <2>1. \A w \in Asked' : HasRun(w)' <=> Place(w)' < g
      BY <1>2, <1>7
    <2>2. QED
      BY <2>1 DEF RanUpto, RanBefore
  <1>9. \A n \in NotTyped : ran[n].ok /\ ran[n].what \in Asked /\ Place(ran[n].what) < f
    <2>1. \A n \in NotTyped : HasRun(ran[n].what)
      BY DEF HasRun
    <2>2. QED
      BY <1>6, <2>1 DEF Consistent, Outcomes, RunsAsAsked, Begun
  <1>10. \A w \in Asked : Place(w) \in Nat
    BY PlaceIn
  <1>11. f \in Nat
    <2>1. Len(argv) \in Nat /\ ScriptAt \in Nat /\ i \in Nat
      BY ScriptIs DEF Consistent, Typed
    <2>2. QED
      BY <2>1 DEF Upto, Text
  <1>12. \A n \in NotTyped' : ran'[n].what \in Asked
    BY <1>1, <1>3, <1>4, <1>9
  <1>13. ASSUME NEW m \in NotTyped', NEW n \in NotTyped', m < n
         PROVE  Place(ran'[m].what) < Place(ran'[n].what) /\ ran'[m].ok
    <2>1. m \in NotTyped /\ ran'[m] = ran[m]
      BY <1>1, <1>4, <1>13
    <2>2. CASE n \in NotTyped
      BY <1>1, <1>4, <1>13, <2>1, <2>2 DEF Consistent, RunsAsAsked
    <2>3. CASE n = Len(ran) + 1
      BY <1>1, <1>3, <1>9, <1>10, <1>11, <2>1, <2>3
    <2>4. QED
      BY <1>4, <2>2, <2>3
  <1>14. ASSUME NEW n \in NotTyped', NEW w \in Asked, Place(w) < Place(ran'[n].what)
         PROVE  HasRun(w)'
    <2>1. CASE n \in NotTyped
      BY <1>1, <1>4, <1>5, <1>14, <2>1 DEF Consistent, RunsAsAsked
    <2>2. CASE n = Len(ran) + 1
      <3>1. Place(w) < Place(what)
        BY <1>1, <1>3, <1>14, <2>2
      <3>2. Place(what) < g
        OBVIOUS
      <3>3. QED
        BY <1>7, <1>10, <3>1, <3>2
    <2>3. QED
      BY <1>4, <2>1, <2>2
  <1>15. RunsAsAsked'
    BY <1>2, <1>12, <1>13, <1>14 DEF RunsAsAsked
  <1>16. QED
    BY <1>8, <1>15

LEMMA BeginTyped ==
    ASSUME Consistent, NEW what, NEW r, Begun(what, r), UNCHANGED <<pc, i, result>>,
           lines' \in 0 .. MaxLines
    PROVE  Typed'
  <1>1. ran' \in Seq(Runs)
    BY Appended DEF Begun, Consistent, Typed
  <1>2. QED
    BY <1>1 DEF Begun, Consistent, Typed, commandVars

LEMMA BeginLocated ==
    ASSUME Consistent, NEW what, NEW r, Begun(what, r), UNCHANGED <<pc, i>>,
           pc \notin {"start", "choose", "print", "exit"},
           pc = "runargs" => i <= LastOption /\ (RunsE(i) \/ RunsL(i))
    PROVE  Located'
  <1>1. Located /\ UNCHANGED commandVars
    BY DEF Consistent, Begun
  <1>2. QED
    BY <1>1, CommandSame DEF Located

LEMMA BeginConsistent ==
    ASSUME Consistent, Clear, UNCHANGED mainVars, NEW what \in Asked, NEW loads, Run(what, loads),
           pc \in {"init", "runargs", "script", "stdin"}, pc = "stdin" <=> what = <<"stdin", 0>>,
           pc = "runargs" => i <= LastOption /\ (RunsE(i) \/ RunsL(i)),
           NEW f, f = Upto, ~(Place(what) < f),
           NEW g \in Nat, docall' # "no" => g = Upto',
           \A w \in Asked : Place(w) < g <=> Place(w) < f \/ w = what
    PROVE  Consistent'
  <1>1. what \in {"init", "e", "l", "file", "stdin"} \X Nat
    BY AskedTyped
  <1>2. PICK r : Begun(what, r)
    BY <1>1, RunBegins
  <1>3. UNCHANGED <<pc, i, lines, result>> /\ docall' # "no" /\ pc # "exit" /\ what[1] # "chunk"
    BY <1>1, <1>2 DEF mainVars, Begun
  <1>4. lines' \in 0 .. MaxLines
    BY <1>3 DEF Consistent, Typed
  <1>5. Typed'
    BY <1>2, <1>3, <1>4, BeginTyped
  <1>6. Located'
    BY <1>2, <1>3, BeginLocated
  <1>7. RunsAsAsked' /\ RanUpto'
    BY <1>2, <1>3, BeginAsked
  <1>8. Outcomes' /\ Armed' /\ Awaited' /\ ExitTells'
    BY <1>2, <1>3, BeginOutcomes
  <1>9. QED
    BY <1>5, <1>6, <1>7, <1>8 DEF Consistent

LEMMA LuaInitConsistent ==
    ASSUME Consistent, LuaInit
    PROVE  Consistent'
  <1>1. pc = "init" /\ docall = "no" /\ UNCHANGED mainVars /\ Run(<<"init", 0>>, TRUE)
    BY DEF LuaInit, IsAt, Run
  <1>2. Clear /\ AskedInit # {}
    BY <1>1, CommandTyped DEF Consistent, Located
  <1>3. <<"init", 0>> \in Asked /\ Place(<<"init", 0>>) = 0
    BY <1>2, AskedIs, PlaceIs
  <1>4. Upto = 0 /\ (docall' # "no" => 1 = Upto')
    BY <1>1 DEF Upto, mainVars
  <1>5. \A w \in Asked : Place(w) < 1 <=> Place(w) < 0 \/ w = <<"init", 0>>
    BY <1>2, FirstPlaces
  <1>6. PICK what, f, g : what = <<"init", 0>> /\ f = 0 /\ g = 1
    OBVIOUS
  <1>7. /\ ~(Place(what) < f) /\ what # <<"stdin", 0>> /\ g \in Nat
        /\ Run(what, TRUE) /\ what \in Asked
        /\ f = Upto /\ (docall' # "no" => g = Upto')
    <2>1. Run(what, TRUE)
      BY <1>1, <1>6
    <2>2. what \in Asked /\ ~(Place(what) < f)
      BY <1>3, <1>6
    <2>3. what # <<"stdin", 0>> /\ g \in Nat
      BY <1>6
    <2>4. f = Upto /\ (docall' # "no" => g = Upto')
      BY <1>4, <1>6
    <2>5. QED
      BY <2>1, <2>2, <2>3, <2>4
  <1>8. \A w \in Asked : Place(w) < g <=> Place(w) < f \/ w = what
    BY <1>5, <1>6
  <1>9. pc = "init" /\ UNCHANGED mainVars
    BY <1>1
  <1>10. QED
    BY <1>2, <1>7, <1>8, <1>9, BeginConsistent

LEMMA RunArgConsistent ==
    ASSUME Consistent, RunArg
    PROVE  Consistent'
  <1>1. /\ pc = "runargs" /\ docall = "no" /\ UNCHANGED mainVars /\ i <= LastOption
        /\ UNCHANGED commandVars
    BY DEF RunArg, IsAt, Run
  <1>2. Clear
    BY <1>1, CommandTyped DEF Consistent
  <1>3. AtOption(i)
    <2>1. LastOption \in Int /\ i \in Int
      BY <1>2, ScriptIs DEF Consistent, Typed
    <2>2. QED
      BY <1>1, <2>1 DEF Consistent, Located
  <1>4. PICK what, loads : /\ OptionAsks(i, what) /\ Run(what, loads)
    BY DEF RunArg, OptionAsks
  <1>5. i < EndOfOptions /\ (RunsE(i) \/ RunsL(i))
    BY <1>1, <1>2, <1>3, <1>4, OptionPlaces DEF OptionAsks
  <1>6. /\ what \in Asked
        /\ \A w \in Asked : Place(w) < Text(i) + 1 <=> Place(w) < i \/ w = what
    BY <1>1, <1>2, <1>3, <1>4, OptionPlaces
  <1>7. Place(what) = Text(i) /\ Text(i) \in Nat /\ i < Text(i) + 1 /\ i \in Nat
    BY <1>2, <1>3, <1>4, <1>5, PlaceIs, TextBefore DEF Option, Consistent, Typed
  <1>8. Upto = i
    BY <1>1 DEF Upto
  <1>9. docall' # "no" => Text(i) + 1 = Upto'
    BY <1>1, CommandSame DEF Upto, mainVars
  <1>10. ~(Place(what) < i) /\ Text(i) + 1 \in Nat
    BY <1>7
  <1>11. what # <<"stdin", 0>>
    BY <1>4 DEF OptionAsks
  <1>12. PICK g \in Nat : g = Text(i) + 1
    BY <1>10
  <1>13. \A w \in Asked : Place(w) < g <=> Place(w) < i \/ w = what
    BY <1>6, <1>12
  <1>14. docall' # "no" => g = Upto'
    BY <1>9, <1>12
  <1>15. QED
    BY <1>1, <1>2, <1>4, <1>5, <1>6, <1>8, <1>10, <1>11, <1>13, <1>14, BeginConsistent

LEMMA RunScriptConsistent ==
    ASSUME Consistent, RunScript
    PROVE  Consistent'
  <1>1. /\ pc = "script" /\ docall = "no" /\ UNCHANGED mainVars /\ Run(ScriptWhat, TRUE)
        /\ UNCHANGED commandVars
    BY DEF RunScript, IsAt, Run, ScriptWhat
  <1>2. Clear /\ ScriptAt # 0
    BY <1>1, CommandTyped DEF Consistent, Located
  <1>3. ScriptWhat \in Asked /\ Place(ScriptWhat) = ScriptAt /\ ScriptAt \in Nat
    BY <1>2, AskedIs, PlaceIs, ScriptIs
  <1>4. Upto = ScriptAt
    BY <1>1 DEF Upto
  <1>5. PICK g \in Nat : g = ScriptAt + 1
    BY <1>3
  <1>6. docall' # "no" => g = Upto'
    BY <1>1, <1>5, CommandSame DEF Upto, mainVars
  <1>7. \A w \in Asked : Place(w) < g <=> Place(w) < ScriptAt \/ w = ScriptWhat
    BY <1>2, <1>5, LastPlaces
  <1>8. ScriptWhat # <<"stdin", 0>>
    BY <1>2, ScriptIs DEF ScriptWhat
  <1>9. ~(Place(ScriptWhat) < ScriptAt)
    BY <1>3
  <1>10. PICK what, f : what = ScriptWhat /\ f = ScriptAt
    OBVIOUS
  <1>11. /\ Run(what, TRUE) /\ what \in Asked /\ pc = "script" /\ what # <<"stdin", 0>>
         /\ f = Upto /\ ~(Place(what) < f)
         /\ \A w \in Asked : Place(w) < g <=> Place(w) < f \/ w = what
    BY <1>1, <1>3, <1>4, <1>7, <1>8, <1>9, <1>10
  <1>12. QED
    BY <1>1, <1>2, <1>6, <1>11, BeginConsistent

LEMMA RunStdinConsistent ==
    ASSUME Consistent, RunStdin
    PROVE  Consistent'
  <1>1. /\ pc = "stdin" /\ docall = "no" /\ UNCHANGED mainVars /\ Run(<<"stdin", 0>>, TRUE)
        /\ UNCHANGED commandVars
    BY DEF RunStdin, IsAt, Run
  <1>2. Clear /\ AskedStdin # {}
    BY <1>1, CommandTyped DEF Consistent, Located
  <1>3. <<"stdin", 0>> \in Asked /\ Place(<<"stdin", 0>>) = Len(argv) + 1 /\ Len(argv) \in Nat
    BY <1>2, AskedIs, PlaceIs, ScriptIs
  <1>4. PICK f, g \in Nat : f = Len(argv) + 1 /\ g = Len(argv) + 2
    BY <1>3
  <1>5. f = Upto /\ (docall' # "no" => g = Upto')
    BY <1>1, <1>4 DEF Upto, mainVars, commandVars
  <1>6. \A w \in Asked : Place(w) < g <=> Place(w) < f \/ w = <<"stdin", 0>>
    BY <1>2, <1>4, LastPlaces
  <1>7. ~(Place(<<"stdin", 0>>) < f)
    BY <1>3, <1>4
  <1>8. QED
    BY <1>1, <1>2, <1>3, <1>5, <1>6, <1>7, BeginConsistent

\* A chunk that is typed is not asked for.
LEMMA ReadChunkConsistent ==
    ASSUME Consistent, ReadChunk
    PROVE  Consistent'
  <1> DEFINE what == <<"chunk", 0>>
  <1>1. /\ pc = "read" /\ docall = "no" /\ UNCHANGED <<pc, i, result>> /\ Run(what, TRUE)
        /\ lines < MaxLines /\ lines' = lines + 1
    BY DEF ReadChunk, IsAt, Run
  <1>2. PICK r : Begun(what, r)
    BY <1>1, RunBegins
  <1>3. lines' \in 0 .. MaxLines
    BY <1>1, YluaAssumption DEF Consistent, Typed
  <1>4. Typed' /\ Located' /\ UNCHANGED commandVars
    BY <1>1, <1>2, <1>3, BeginTyped, BeginLocated DEF Begun
  <1>5. Outcomes' /\ Armed' /\ Awaited' /\ ExitTells'
    BY <1>1, <1>2, BeginOutcomes
  <1>6. /\ Len(ran) \in Nat
        /\ DOMAIN ran = 1 .. Len(ran) /\ DOMAIN ran' = 1 .. Len(ran) + 1
        /\ \A n \in DOMAIN ran : ran'[n] = ran[n]
        /\ ran'[Len(ran) + 1].what = what
    BY <1>2, Appended DEF Begun, Consistent, Typed
  <1>7. NotTyped' = NotTyped /\ \A n \in NotTyped : ran'[n] = ran[n]
    BY <1>6 DEF NotTyped
  <1>8. \A w : HasRun(w)' <=> HasRun(w)
    BY <1>7 DEF HasRun
  <1>9. Asked' = Asked /\ \A w : Place(w)' = Place(w)
    BY <1>4, CommandSame
  <1>10. RunsAsAsked'
    BY <1>1, <1>7, <1>8, <1>9 DEF RunsAsAsked, Consistent
  <1>11. Upto' = Upto
    BY <1>1, <1>4 DEF Upto, commandVars
  <1>12. RanUpto'
    <2>1. PICK f : f = Upto
      OBVIOUS
    <2>2. RanBefore(f)
      BY <1>1, <2>1 DEF Consistent, RanUpto
    <2>3. RanBefore(f)'
      BY <1>8, <1>9, <2>2 DEF RanBefore
    <2>4. QED
      BY <1>11, <2>1, <2>3 DEF RanUpto, RanBefore
  <1>13. QED
    BY <1>4, <1>5, <1>10, <1>12 DEF Consistent

----------------------------------------------------------------------------
(* What runs, and what interrupts it.                                      *)

Still == UNCHANGED <<commandVars, pc, i, docall, status, ran>>

LEMMA StillKeeps ==
    ASSUME Consistent, Still
    PROVE  Located' /\ RunsAsAsked' /\ RanUpto' /\ Outcomes'
  <1>1. UNCHANGED <<argv, env, tty, pc, i, docall, status, ran>> /\ UNCHANGED commandVars
    BY DEF Still, commandVars
  <1>2. Located'
    BY <1>1, CommandSame DEF Consistent, Located
  <1>3. NotTyped' = NotTyped /\ \A w : HasRun(w)' <=> HasRun(w)
    BY <1>1 DEF NotTyped, HasRun
  <1>4. Asked' = Asked /\ \A w : Place(w)' = Place(w)
    BY <1>1, CommandSame
  <1>5. RunsAsAsked'
    BY <1>1, <1>3, <1>4 DEF Consistent, RunsAsAsked
  <1>6. PICK f : f = Upto
    OBVIOUS
  <1>7. f = Upto'
    BY <1>1, <1>6, CommandSame DEF Upto
  <1>8. pc # "exit" => RanBefore(f) /\ RanBefore(f)'
    BY <1>3, <1>4, <1>6 DEF Consistent, RanUpto, RanBefore
  <1>9. RanUpto'
    BY <1>1, <1>7, <1>8 DEF RanUpto, RanBefore
  <1>10. Outcomes'
    BY <1>1, <1>3 DEF Consistent, Outcomes
  <1>11. QED
    BY <1>2, <1>5, <1>9, <1>10

LEMMA FinishedKeeps ==
    ASSUME Consistent, docall = "running", NEW ok \in BOOLEAN, Finished(ok),
           UNCHANGED <<commandVars, pc, i>>
    PROVE  Located' /\ RunsAsAsked' /\ RanUpto' /\ Outcomes' /\ ran' \in Seq(Runs)
  <1>1. ran \in Seq(Runs) /\ ran # << >> /\ pc # "exit" /\ pc \in Places
    BY DEF Consistent, Typed, Outcomes, Located
  <1>2. PICK l : l = Len(ran)
    OBVIOUS
  <1>3. l \in DOMAIN ran /\ DOMAIN ran = 1 .. l /\ l \in Nat
    BY <1>1, <1>2
  <1>4. /\ docall' = "returned" /\ status' = ok
        /\ ran' = [ran EXCEPT ![l] = [ran[l] EXCEPT !.ok = ok]]
    BY <1>2 DEF Finished
  <1>5. \A n \in DOMAIN ran : ran[n] \in Runs
    BY <1>1
  <1>6. [ran[l] EXCEPT !.ok = ok] \in Runs
    BY <1>3, <1>5 DEF Runs
  <1>7. ran' \in Seq(Runs) /\ Len(ran') = l /\ DOMAIN ran' = 1 .. l /\ ran' # << >>
    BY <1>1, <1>2, <1>3, <1>4, <1>6
  <1>8. /\ \A n \in DOMAIN ran : ran'[n].what = ran[n].what /\ (n # l => ran'[n] = ran[n])
        /\ ran'[l].ok = ok
    BY <1>3, <1>4, <1>5 DEF Runs
  <1>9. NotTyped' = NotTyped /\ \A w : HasRun(w)' <=> HasRun(w)
    BY <1>3, <1>7, <1>8 DEF NotTyped, HasRun
  <1>10. Asked' = Asked /\ \A w : Place(w)' = Place(w)
    BY CommandSame
  <1>11. \A n \in NotTyped : n \in 1 .. l
    BY <1>3 DEF NotTyped
  <1>12. Located'
    BY <1>4, CommandSame DEF Consistent, Located
  <1>13. RunsAsAsked'
    <2>1. \A m, n \in NotTyped : m < n => m # l /\ m \in DOMAIN ran
      BY <1>3, <1>11
    <2>2. \A n \in NotTyped : n \in DOMAIN ran
      BY DEF NotTyped
    <2>3. QED
      BY <1>1, <1>8, <1>9, <1>10, <2>1, <2>2 DEF Consistent, RunsAsAsked
  <1>14. PICK f : f = Upto
    OBVIOUS
  <1>15. f = Upto'
    BY <1>4, <1>14, CommandSame DEF Upto, commandVars
  <1>16. RanBefore(f) /\ RanBefore(f)'
    BY <1>1, <1>9, <1>10, <1>14 DEF Consistent, RanUpto, RanBefore
  <1>17. RanUpto'
    BY <1>15, <1>16 DEF RanUpto, RanBefore
  <1>18. Outcomes'
    <2>1. /\ pc = "read" <=> ran[l].what[1] = "chunk"
          /\ pc = "stdin" <=> ran[l].what = <<"stdin", 0>>
      BY <1>2 DEF Consistent, Outcomes
    <2>2. \A n \in DOMAIN ran' : ran'[n].what[1] = "chunk" => ran'[n].what = <<"chunk", 0>>
      BY <1>3, <1>7, <1>8 DEF Consistent, Outcomes
    <2>3. \A n \in NotTyped' : ran'[n].ok \/ n = l
      BY <1>2, <1>8, <1>9 DEF Consistent, Outcomes, NotTyped
    <2>4. ran'[l].what = ran[l].what /\ ran'[l].ok = status'
      BY <1>3, <1>4, <1>8
    <2>5. QED
      BY <1>4, <1>7, <2>1, <2>2, <2>3, <2>4 DEF Outcomes
  <1>19. QED
    BY <1>7, <1>12, <1>13, <1>17, <1>18

LEMMA ReturnConsistent ==
    ASSUME Consistent, Return
    PROVE  Consistent'
  <1>1. PICK ok \in BOOLEAN : Finished(ok)
    BY DEF Return
  <1>2. docall = "running" /\ pc # "exit" /\ UNCHANGED <<commandVars, mainVars, signalVars>>
    BY DEF Return, Alive
  <1>3. Located' /\ RunsAsAsked' /\ RanUpto' /\ Outcomes' /\ ran' \in Seq(Runs)
    BY <1>1, <1>2, FinishedKeeps DEF mainVars
  <1>4. Typed'
    BY <1>1, <1>2, <1>3 DEF Consistent, Typed, Finished, commandVars, mainVars, signalVars
  <1>5. Armed' /\ Awaited' /\ ExitTells'
    BY <1>1, <1>2 DEF Consistent, Armed, Awaited, ExitTells, Finished, mainVars, signalVars
  <1>6. QED
    BY <1>3, <1>4, <1>5 DEF Consistent

LEMMA SwitchConsistent ==
    ASSUME Consistent, Switch
    PROVE  Consistent'
  <1>1. /\ pc # "exit" /\ UNCHANGED <<commandVars, mainVars, docall, status, ran, signalVars>>
        /\ thread' \in {"main", "coroutine"}
    BY DEF Switch, Alive
  <1>2. Located' /\ RunsAsAsked' /\ RanUpto' /\ Outcomes'
    BY <1>1, StillKeeps DEF Still, mainVars
  <1>3. Typed'
    BY <1>1 DEF Consistent, Typed, commandVars, mainVars, signalVars
  <1>4. Armed' /\ Awaited' /\ ExitTells'
    BY <1>1 DEF Consistent, Armed, Awaited, ExitTells, mainVars, signalVars
  <1>5. QED
    BY <1>2, <1>3, <1>4 DEF Consistent

LEMMA SignalConsistent ==
    ASSUME Consistent, Signal
    PROVE  Consistent'
  <1>1. /\ pc # "exit" /\ arms < MaxSignals /\ UNCHANGED <<commandVars, mainVars, callVars>>
    BY DEF Signal, Alive
  <1>2. Located' /\ RunsAsAsked' /\ RanUpto' /\ Outcomes'
    BY <1>1, StillKeeps DEF Still, mainVars, callVars
  <1>3. CASE sigint = "DFL"
    <2>1. dead' = TRUE /\ UNCHANGED <<sigint, hook, arms, caught, wanted>>
      BY <1>3 DEF Signal
    <2>2. Typed'
      BY <1>1, <2>1 DEF Consistent, Typed, commandVars, mainVars, callVars
    <2>3. Armed' /\ Awaited' /\ ExitTells'
      BY <1>1, <2>1 DEF Consistent, Armed, Awaited, ExitTells, mainVars, callVars
    <2>4. QED
      BY <1>2, <2>2, <2>3 DEF Consistent
  <1>4. CASE sigint # "DFL"
    <2>1. /\ sigint' = "DFL" /\ hook' = TRUE /\ arms' = arms + 1
          /\ caught' = TRUE /\ wanted' = TRUE /\ dead' = dead
      BY <1>4 DEF Signal, SetHook
    <2>2. arms' \in 0 .. MaxSignals
      BY <1>1, <2>1, YluaAssumption DEF Consistent, Typed
    <2>3. Typed'
      BY <1>1, <2>1, <2>2 DEF Consistent, Typed, commandVars, mainVars, callVars
    <2>4. Armed' /\ Awaited' /\ ExitTells'
      BY <1>1, <2>1 DEF Consistent, Armed, Awaited, ExitTells, mainVars, callVars
    <2>5. QED
      BY <1>2, <2>3, <2>4 DEF Consistent
  <1>5. QED
    BY <1>3, <1>4

----------------------------------------------------------------------------
(* From place to place.                                                    *)

Moves ==
    /\ Alive /\ docall' = "no" /\ sigint' \in {"DFL", "laction"} /\ pc' \in Places
    /\ i' \in 1 .. Len(argv) + 1 /\ result' \in BOOLEAN
    /\ UNCHANGED <<commandVars, lines, status, thread, ran, hook, dead, arms, caught, wanted>>

\* Nothing has failed that was asked for; what was run last has.
WentWell == docall = "no" \/ (docall = "returned" /\ status = TRUE) \/ pc = "read"
Failed   == docall = "returned" /\ status = FALSE /\ pc # "read"

LEMMA RanWell ==
    ASSUME Consistent, pc # "exit"
    PROVE  /\ WentWell => \A n \in NotTyped : ran[n].ok
           /\ Failed => Len(ran) \in NotTyped /\ ~ran[Len(ran)].ok
  <1>1. ran \in Seq(Runs)
    BY DEF Consistent, Typed
  <1>2. ASSUME WentWell, NEW n \in NotTyped PROVE ran[n].ok
    <2>1. CASE docall = "no"
      BY <1>2, <2>1 DEF Consistent, Outcomes
    <2>2. CASE docall # "no"
      <3>1. SUFFICES ASSUME n = Len(ran) PROVE ran[n].ok
        BY <1>2 DEF Consistent, Outcomes
      <3>2. pc # "read"
        BY <1>2, <2>2, <3>1 DEF Consistent, Outcomes, NotTyped
      <3>3. QED
        BY <1>2, <2>2, <3>1, <3>2 DEF Consistent, Outcomes, WentWell
    <2>3. QED
      BY <2>1, <2>2
  <1>3. ASSUME Failed PROVE Len(ran) \in NotTyped /\ ~ran[Len(ran)].ok
    <2>1. ran # << >> /\ ran[Len(ran)].ok = FALSE /\ ran[Len(ran)].what[1] # "chunk"
      BY <1>3 DEF Consistent, Outcomes, Failed
    <2>2. Len(ran) \in DOMAIN ran
      BY <1>1, <2>1
    <2>3. QED
      BY <2>1, <2>2 DEF NotTyped
  <1>4. QED
    BY <1>2, <1>3

LEMMA MoveConsistent ==
    ASSUME Consistent, Moves, Located',
           NEW f, f = Upto, NEW g,
           pc' # "exit" => /\ g = Upto' /\ WentWell
                           /\ \A what \in Asked : Place(what) < f <=> Place(what) < g,
           pc' = "exit" =>
               \/ /\ result' = ~hook /\ ~Wrong /\ (docall = "no" \/ pc = "stdin")
                  /\ \A what \in Asked : Place(what) < f
               \/ result' = FALSE /\ Wrong /\ docall = "no"
               \/ result' = FALSE /\ Failed /\ pc # "stdin"
    PROVE  Consistent'
  <1>1. pc # "exit" /\ UNCHANGED <<argv, env, tty, ran>> /\ UNCHANGED commandVars
    BY DEF Moves, Alive, commandVars
  <1>2. Typed'
    BY DEF Consistent, Typed, Moves, commandVars
  <1>3. Armed' /\ Awaited'
    BY DEF Consistent, Armed, Awaited, Moves
  <1>4. NotTyped' = NotTyped /\ \A w : HasRun(w)' <=> HasRun(w)
    BY <1>1 DEF NotTyped, HasRun
  <1>5. Asked' = Asked /\ Wrong' = Wrong /\ \A w : Place(w)' = Place(w)
    BY <1>1, CommandSame
  <1>6. \A what \in Asked : HasRun(what) <=> Place(what) < f
    BY <1>1 DEF Consistent, RanUpto, RanBefore
  <1>7. RanUpto'
    BY <1>4, <1>5, <1>6 DEF RanUpto, RanBefore
  <1>8. \A n \in NotTyped : ran[n].ok \/ (n = Len(ran) /\ docall # "no")
    BY <1>1 DEF Consistent, Outcomes
  <1>9. \A n \in NotTyped : ran[n].ok \/ (n = Len(ran) /\ pc' = "exit")
    BY <1>1, <1>8, RanWell
  <1>10. Outcomes'
    BY <1>1, <1>4, <1>9 DEF Consistent, Outcomes, Moves
  <1>11. pc' = "exit" => (\A what \in Asked : HasRun(what)) \/ \E n \in NotTyped : ~ran[n].ok
    <2>1. Wrong => Asked = {}
      BY DEF Asked
    <2>2. Failed => \E n \in NotTyped : ~ran[n].ok
      BY <1>1, RanWell
    <2>3. QED
      BY <1>6, <2>1, <2>2
  <1>12. RunsAsAsked'
    BY <1>1, <1>4, <1>5, <1>11 DEF Consistent, RunsAsAsked
  <1>13. ExitTells'
    <2>1. SUFFICES ASSUME pc' = "exit",
                          NEW told, told = {n \in DOMAIN ran : ran[n].what \notin {<<"chunk", 0>>, <<"stdin", 0>>}}
                   PROVE  result' = (~Wrong /\ (\A n \in told : ran[n].ok) /\ ~wanted)
      BY <1>1, <1>5 DEF ExitTells, Moves
    <2>2. hook = wanted /\ hook \in BOOLEAN
      BY DEF Consistent, Awaited, Typed
    <2>3. told \subseteq NotTyped
      BY <2>1 DEF NotTyped, Consistent, Outcomes
    <2>4. CASE docall = "no" \/ pc = "stdin"
      <3>1. \A n \in told : ran[n].ok
        <4>1. ASSUME NEW n \in told, pc = "stdin", docall # "no" PROVE n # Len(ran)
          BY <2>1, <4>1 DEF Consistent, Outcomes
        <4>2. QED
          BY <1>8, <2>3, <2>4, <4>1
      <3>2. Failed => pc = "stdin"
        BY <2>4 DEF Failed
      <3>3. QED
        BY <2>1, <2>2, <3>1, <3>2
    <2>5. CASE docall # "no" /\ pc # "stdin"
      <3>1. result' = FALSE /\ Failed
        BY <2>1, <2>5
      <3>2. Len(ran) \in NotTyped /\ ~ran[Len(ran)].ok
        BY <1>1, <3>1, RanWell
      <3>3. ran[Len(ran)].what # <<"stdin", 0>> /\ ran[Len(ran)].what # <<"chunk", 0>>
        BY <2>5, <3>2 DEF Consistent, Outcomes, NotTyped
      <3>4. Len(ran) \in told
        BY <2>1, <3>2, <3>3 DEF NotTyped
      <3>5. QED
        BY <3>1, <3>2, <3>4
    <2>6. QED
      BY <2>4, <2>5
  <1>14. QED
    BY <1>2, <1>3, <1>7, <1>10, <1>12, <1>13 DEF Consistent

\* What a step to another place must give, with nothing running then.
LEMMA MoveLocated ==
    ASSUME UNCHANGED commandVars, docall' = "no",
           pc' \notin {"start", "exit"} => ~Wrong,
           pc' \in {"start", "init"} => i' = 1,
           pc' = "init" => AskedInit # {},
           pc' = "runargs" => AtOption(i') \/ i' = LastOption + 1,
           pc' = "script" => ScriptAt # 0,
           pc' = "stdin" => AskedStdin # {},
           pc' \in {"read", "print"} => AskedStdin = {}
    PROVE  Located'
  <1>1. PICK k : k = i'
    OBVIOUS
  <1>2. AtOption(k)' <=> AtOption(k)
    BY CommandSame
  <1>3. pc' = "runargs" => AtOption(i)' \/ i' = LastOption' + 1
    BY <1>1, <1>2, CommandSame DEF AtOption, IsArgument
  <1>4. QED
    BY <1>3, CommandSame DEF Located

LEMMA StartConsistent ==
    ASSUME Consistent, Start
    PROVE  Consistent'
  <1>1. /\ pc = "start" /\ docall = "no" /\ i = 1 /\ Alive
        /\ UNCHANGED <<commandVars, callVars, signalVars, i, lines>>
    BY DEF Start, IsAt, Only, Exit, GoTo, Consistent, Located
  <1>2. CommandLine /\ Upto = 0
    BY <1>1, CommandTyped DEF Consistent, Upto
  <1>3. CASE Args.script < 0
    <2>1. Wrong /\ pc' = "exit" /\ result' = FALSE
      BY <1>2, <1>3, CollectRight DEF Start, Exit
    <2>2. Moves
      BY <1>1, <2>1 DEF Moves, Consistent, Typed, callVars, signalVars, Places, commandVars
    <2>3. Located'
      BY <1>1, <2>1, MoveLocated DEF callVars
    <2>4. QED
      BY <1>1, <1>2, <2>1, <2>2, <2>3, MoveConsistent
  <1>4. CASE ~(Args.script < 0)
    <2>1. Clear
      BY <1>2, <1>4, CollectRight DEF Clear
    <2>2. pc' = (IF env /\ "E" \notin Args.has THEN "init" ELSE "runargs") /\ result' = result
      BY <1>4 DEF Start, GoTo
    <2>3. pc' = IF AskedInit # {} THEN "init" ELSE "runargs"
      BY <2>1, <2>2, FlagsAre DEF AskedInit
    <2>4. Moves
      BY <1>1, <2>2, <2>3 DEF Moves, Consistent, Typed, callVars, signalVars, Places, commandVars
    <2>5. AtOption(1)
      BY <2>1, ScriptIs DEF AtOption, IsArgument
    <2>6. Located'
      BY <1>1, <2>1, <2>3, <2>5, MoveLocated DEF callVars, Clear
    <2>7. PICK f, g : f = 0 /\ g = Upto'
      OBVIOUS
    <2>8. g = IF AskedInit # {} THEN 0 ELSE 1
      BY <1>1, <2>3, <2>7 DEF Upto, callVars
    <2>9. \A what \in Asked : Place(what) < f <=> Place(what) < g
      BY <2>1, <2>7, <2>8, FirstPlaces
    <2>10. WentWell /\ f = Upto /\ pc' # "exit"
      BY <1>1, <1>2, <2>3, <2>7 DEF WentWell
    <2>11. QED
      BY <2>4, <2>6, <2>7, <2>9, <2>10, MoveConsistent
  <1>5. QED
    BY <1>3, <1>4

\* report() of what has failed, where the status is looked at.
LEMMA FailingMoves ==
    ASSUME Consistent, Moves, Failed, pc # "stdin", pc' = "exit", result' = FALSE
    PROVE  Consistent'
  <1>1. Located'
    BY MoveLocated DEF Moves
  <1>2. PICK f : f = Upto
    OBVIOUS
  <1>3. QED
    BY <1>1, <1>2, MoveConsistent

LEMMA LeaveMoves ==
    ASSUME Consistent, Alive, Leave, i' \in 1 .. Len(argv) + 1, UNCHANGED lines,
           pc' \in Places, result' \in BOOLEAN
    PROVE  Moves /\ docall = "returned" /\ docall' = "no" /\ UNCHANGED commandVars
  BY DEF Moves, Leave, Restore, Consistent, Typed

LEMMA LuaInitEndConsistent ==
    ASSUME Consistent, LuaInitEnd
    PROVE  Consistent'
  <1>1. pc = "init" /\ Alive /\ Leave /\ i = 1 /\ UNCHANGED <<i, lines>> /\ docall = "returned"
    BY DEF LuaInitEnd, IsAt, GoOnIfOk, GoTo, Exit, Consistent, Located, Leave
  <1>2. i' \in 1 .. Len(argv) + 1 /\ status \in BOOLEAN /\ hook \in BOOLEAN /\ result \in BOOLEAN
    BY <1>1 DEF Consistent, Typed
  <1>3. CASE status = FALSE
    <2>1. pc' = "exit" /\ result' = FALSE
      BY <1>3 DEF LuaInitEnd, GoOnIfOk, Exit
    <2>2. Moves /\ Failed
      BY <1>1, <1>2, <1>3, <2>1, LeaveMoves DEF Places, Failed
    <2>3. QED
      BY <1>1, <2>1, <2>2, FailingMoves
  <1>4. CASE status = TRUE
    <2>1. pc' = "runargs" /\ result' = result
      BY <1>4 DEF LuaInitEnd, GoOnIfOk, GoTo
    <2>2. Moves /\ UNCHANGED commandVars /\ docall' = "no"
      BY <1>1, <1>2, <2>1, LeaveMoves DEF Places
    <2>3. Clear
      BY <1>1, CommandTyped DEF Consistent
    <2>4. AtOption(1)
      BY <2>3, ScriptIs DEF AtOption, IsArgument
    <2>5. Located'
      BY <1>1, <2>1, <2>2, <2>3, <2>4, MoveLocated DEF Clear
    <2>6. PICK f : f = 1
      OBVIOUS
    <2>7. f = Upto /\ f = Upto'
      BY <1>1, <2>1, <2>2, <2>6 DEF Upto
    <2>8. WentWell /\ pc' # "exit"
      BY <1>1, <1>4, <2>1 DEF WentWell
    <2>9. QED
      BY <2>2, <2>5, <2>7, <2>8, MoveConsistent
  <1>5. QED
    BY <1>2, <1>3, <1>4

LEMMA RunArgEndConsistent ==
    ASSUME Consistent, RunArgEnd
    PROVE  Consistent'
  <1>1. /\ pc = "runargs" /\ Alive /\ Leave /\ UNCHANGED lines /\ docall = "returned"
        /\ i <= LastOption /\ (RunsE(i) \/ RunsL(i))
    BY DEF RunArgEnd, IsAt, Exit, Consistent, Located, Leave
  <1>2. status \in BOOLEAN /\ hook \in BOOLEAN /\ result \in BOOLEAN /\ i \in 1 .. Len(argv) + 1
    BY DEF Consistent, Typed
  <1>3. CASE status = FALSE
    <2>1. pc' = "exit" /\ result' = FALSE /\ i' = i
      BY <1>3 DEF RunArgEnd, Exit
    <2>2. Moves /\ Failed
      BY <1>1, <1>2, <1>3, <2>1, LeaveMoves DEF Places, Failed
    <2>3. QED
      BY <1>1, <2>1, <2>2, FailingMoves
  <1>4. CASE status = TRUE
    <2>1. pc' = pc /\ result' = result /\ i' = Text(i) + 1
      BY <1>4 DEF RunArgEnd
    <2>2. Clear /\ LastOption \in Int /\ EndOfOptions \in 1 .. Len(argv) + 1 /\ Len(argv) \in Nat
      BY <1>1, CommandTyped, ScriptIs DEF Consistent
    <2>3. AtOption(i)
      BY <1>1, <1>2, <2>2 DEF Consistent, Located
    <2>4. i < EndOfOptions
      BY <1>1, <2>2, <2>3, OptionPlaces
    <2>5. AtOption(Text(i) + 1) /\ Text(i) \in Nat /\ Text(i) < EndOfOptions
      BY <2>2, <2>3, <2>4, TextBefore
    <2>6. i' \in 1 .. Len(argv) + 1 /\ AtOption(i')
      BY <2>1, <2>2, <2>5
    <2>7. Moves /\ UNCHANGED commandVars /\ docall' = "no"
      BY <1>1, <1>2, <2>1, <2>6, LeaveMoves DEF Places
    <2>8. Located'
      BY <1>1, <2>1, <2>2, <2>6, <2>7, MoveLocated DEF Clear
    <2>9. PICK f : f = Text(i) + 1
      OBVIOUS
    <2>10. f = Upto /\ f = Upto'
      BY <1>1, <2>1, <2>7, <2>9 DEF Upto
    <2>11. WentWell /\ pc' # "exit"
      BY <1>1, <1>4, <2>1 DEF WentWell
    <2>12. QED
      BY <2>7, <2>8, <2>10, <2>11, MoveConsistent
  <1>5. QED
    BY <1>2, <1>3, <1>4

LEMMA PassArgConsistent ==
    ASSUME Consistent, PassArg
    PROVE  Consistent'
  <1>1. /\ pc = "runargs" /\ docall = "no" /\ Alive
        /\ UNCHANGED <<commandVars, callVars, signalVars, lines, result>>
    BY DEF PassArg, IsAt, Only, GoTo
  <1>2. /\ Clear /\ EndOfOptions \in 1 .. Len(argv) + 1 /\ Len(argv) \in Nat
        /\ Args.script = ScriptAt /\ ScriptAt \in 0 .. Len(argv)
        /\ LastOption \in 0 .. Len(argv) /\ EndOfOptions <= LastOption + 1
        /\ ScriptAt = IF LastOption = Len(argv) THEN 0 ELSE LastOption + 1
    BY <1>1, CommandTyped, ScriptIs DEF Consistent
  <1>3. i \in 1 .. Len(argv) + 1 /\ (AtOption(i) \/ i = LastOption + 1)
    BY <1>1 DEF Consistent, Typed, Located
  <1>4. docall' = "no" /\ WentWell /\ Upto = i
    BY <1>1 DEF callVars, WentWell, Upto
  <1>5. CASE i <= LastOption
    <2>1. i' = i + 1 /\ pc' = pc /\ ~RunsE(i) /\ ~RunsL(i)
      BY <1>2, <1>3, <1>5 DEF PassArg
    <2>2. AtOption(i)
      BY <1>2, <1>3, <1>5
    <2>3. i' \in 1 .. Len(argv) + 1
      BY <1>2, <1>3, <1>5, <2>1
    <2>4. Moves
      BY <1>1, <1>4, <2>1, <2>3 DEF Moves, Consistent, Typed, callVars, signalVars
    <2>5. AtOption(i + 1) \/ i + 1 = LastOption + 1
      <3>1. CASE i < EndOfOptions
        <4>1. ~TakesNext(i)
          BY <2>1 DEF TakesNext, RunsE, RunsL
        <4>2. QED
          BY <1>2, <2>2, <3>1, <4>1, NextOption DEF Clear
      <3>2. CASE i = EndOfOptions
        BY <1>2, <1>5, <3>2, ScriptIs
      <3>3. QED
        BY <1>2, <2>2, <3>1, <3>2 DEF AtOption
    <2>6. Located'
      BY <1>1, <1>2, <1>4, <2>1, <2>5, MoveLocated DEF Clear
    <2>7. \A w \in Asked : Place(w) < i + 1 <=> Place(w) < i
      BY <1>2, <1>5, <2>1, <2>2, OptionPlaces
    <2>8. PICK f, g : f = i /\ g = i + 1
      OBVIOUS
    <2>9. f = Upto /\ g = Upto' /\ pc' # "exit"
      BY <1>1, <1>4, <2>1, <2>8 DEF Upto
    <2>10. \A w \in Asked : Place(w) < f <=> Place(w) < g
      BY <2>7, <2>8
    <2>11. QED
      BY <1>4, <2>4, <2>6, <2>9, <2>10, MoveConsistent
  <1>6. CASE i > LastOption
    <2>1. i = LastOption + 1
      BY <1>2, <1>3, <1>6 DEF AtOption
    <2>2. pc' = (IF ScriptAt # 0 THEN "script" ELSE "choose") /\ i' = i
      BY <1>2, <1>3, <1>6 DEF PassArg, GoTo
    <2>3. Moves
      BY <1>1, <1>3, <1>4, <2>2 DEF Moves, Consistent, Typed, callVars, signalVars, Places
    <2>4. Located'
      BY <1>1, <1>2, <1>4, <2>2, MoveLocated DEF Clear
    <2>5. PICK f : f = i
      OBVIOUS
    <2>6. f = Upto /\ pc' # "exit"
      BY <1>4, <2>2, <2>5
    <2>7. f = Upto'
      <3>1. ScriptAt' = ScriptAt /\ Len(argv)' = Len(argv)
        BY <1>1, CommandSame DEF commandVars
      <3>2. Upto' = IF ScriptAt # 0 THEN ScriptAt ELSE Len(argv) + 1
        BY <1>4, <2>2, <3>1 DEF Upto
      <3>3. QED
        BY <1>2, <2>1, <2>5, <3>2
    <2>8. QED
      BY <1>4, <2>3, <2>4, <2>6, <2>7, MoveConsistent
  <1>7. QED
    BY <1>2, <1>3, <1>5, <1>6

LEMMA RunScriptEndConsistent ==
    ASSUME Consistent, RunScriptEnd
    PROVE  Consistent'
  <1>1. pc = "script" /\ Alive /\ Leave /\ UNCHANGED <<i, lines>> /\ docall = "returned"
    BY DEF RunScriptEnd, IsAt, GoOnIfOk, GoTo, Exit, Leave
  <1>2. /\ i' \in 1 .. Len(argv) + 1 /\ status \in BOOLEAN /\ hook \in BOOLEAN /\ result \in BOOLEAN
        /\ Clear /\ ScriptAt # 0
    BY <1>1, CommandTyped DEF Consistent, Typed, Located
  <1>3. CASE status = FALSE
    <2>1. pc' = "exit" /\ result' = FALSE
      BY <1>3 DEF RunScriptEnd, GoOnIfOk, Exit
    <2>2. Moves /\ Failed
      BY <1>1, <1>2, <1>3, <2>1, LeaveMoves DEF Places, Failed
    <2>3. QED
      BY <1>1, <2>1, <2>2, FailingMoves
  <1>4. CASE status = TRUE
    <2>1. pc' = "choose" /\ result' = result
      BY <1>4 DEF RunScriptEnd, GoOnIfOk, GoTo
    <2>2. Moves /\ UNCHANGED commandVars /\ docall' = "no"
      BY <1>1, <1>2, <2>1, LeaveMoves DEF Places
    <2>3. Located'
      BY <1>2, <2>1, <2>2, MoveLocated DEF Clear
    <2>4. PICK f, g : f = ScriptAt + 1 /\ g = Len(argv) + 1
      OBVIOUS
    <2>5. f = Upto /\ g = Upto'
      BY <1>1, <2>1, <2>2, <2>4 DEF Upto, commandVars
    <2>6. \A what \in Asked : Place(what) < f <=> Place(what) < g
      BY <1>2, <2>4, LastPlaces
    <2>7. WentWell /\ pc' # "exit"
      BY <1>1, <1>4, <2>1 DEF WentWell
    <2>8. QED
      BY <2>2, <2>3, <2>5, <2>6, <2>7, MoveConsistent
  <1>5. QED
    BY <1>2, <1>3, <1>4

LEMMA ChooseConsistent ==
    ASSUME Consistent, Choose
    PROVE  Consistent'
  <1> DEFINE bare == Args.script = 0 /\ Args.has \intersect {"e", "v"} = {}
  <1>1. /\ pc = "choose" /\ docall = "no" /\ Alive /\ UNCHANGED <<i, lines>>
        /\ UNCHANGED <<commandVars, callVars, signalVars>> /\ UNCHANGED commandVars
    BY DEF Choose, IsAt, Only, GoTo, Exit, Consistent, Located
  <1>2. Clear /\ Len(argv) \in Nat /\ Args.script = ScriptAt /\ hook \in BOOLEAN /\ tty \in BOOLEAN
    BY <1>1, CommandTyped, ScriptIs DEF Consistent, Typed
  <1>3. bare <=> AskedScript = {} /\ Preceding({"-e", "-eX", "-i", "-v"}) = {}
    BY <1>2, AskedScriptIs, FlagsAre
  <1>4. "i" \in Args.has => Preceding({"-e", "-eX", "-i", "-v"}) # {}
    BY <1>2, FlagsAre DEF Preceding
  <1>5. AskedStdin # {} <=> ~tty /\ bare
    BY <1>3 DEF AskedStdin
  <1>6. \/ pc' = "read" /\ result' = result /\ ("i" \in Args.has \/ (bare /\ tty))
        \/ pc' = "stdin" /\ result' = result /\ bare /\ ~tty
        \/ pc' = "exit" /\ result' = (TRUE /\ ~hook) /\ ~bare
    BY DEF Choose, GoTo, Exit
  <1>7. /\ pc' \in {"read", "stdin", "exit"}
        /\ pc' \in {"read", "exit"} => AskedStdin = {}
        /\ pc' = "stdin" => AskedStdin # {}
        /\ pc' = "exit" => result' = ~hook
    BY <1>3, <1>4, <1>5, <1>6
  <1>8. Moves
    <2>1. result' \in BOOLEAN
      BY <1>2, <1>6 DEF Consistent, Typed
    <2>2. QED
      BY <1>1, <1>7, <2>1 DEF Moves, Consistent, Typed, callVars, signalVars, Places
  <1>9. Located'
    BY <1>1, <1>2, <1>7, MoveLocated DEF Clear, callVars
  <1>10. PICK f, g : f = Len(argv) + 1 /\ g = IF pc' = "stdin" THEN f ELSE Len(argv) + 2
    OBVIOUS
  <1>11. f = Upto /\ (pc' # "exit" => g = Upto') /\ WentWell
    BY <1>1, <1>7, <1>10 DEF Upto, callVars, commandVars, WentWell
  <1>12. \A what \in Asked : /\ Place(what) < Len(argv) + 2
                             /\ AskedStdin = {} => Place(what) < Len(argv) + 1
    BY <1>2, LastPlaces
  <1>13. /\ pc' # "exit" => \A what \in Asked : Place(what) < f <=> Place(what) < g
         /\ pc' = "exit" => \A what \in Asked : Place(what) < f
    BY <1>7, <1>10, <1>12
  <1>14. ~Wrong
    BY <1>2 DEF Clear
  <1>15. QED
    BY <1>1, <1>7, <1>8, <1>9, <1>11, <1>13, <1>14, MoveConsistent

\* From where everything has been run that was asked for to there, or to the end.
LEMMA EndMoves ==
    ASSUME Consistent, Moves, pc \in {"stdin", "read", "print"},
           pc = "stdin" => docall # "no" /\ pc' = "exit",
           pc' \in {"read", "print", "exit"}, pc' = "exit" => result' = ~hook,
           pc' = "exit" => docall = "no" \/ pc = "stdin"
    PROVE  Consistent'
  <1>1. Clear /\ UNCHANGED commandVars /\ docall' = "no"
    BY CommandTyped DEF Consistent, Moves
  <1>2. ~Wrong /\ (pc # "stdin" => AskedStdin = {})
    BY <1>1 DEF Consistent, Located, Clear
  <1>3. Located'
    BY <1>1, <1>2, MoveLocated
  <1>4. PICK f : f = Len(argv) + 2
    OBVIOUS
  <1>5. f = Upto /\ (pc' # "exit" => f = Upto')
    BY <1>1, <1>4 DEF Upto, commandVars
  <1>6. \A what \in Asked : Place(what) < f
    BY <1>1, <1>4, LastPlaces
  <1>7. pc' # "exit" => WentWell
    BY DEF Consistent, Located, WentWell
  <1>8. QED
    BY <1>2, <1>3, <1>5, <1>6, <1>7, MoveConsistent

LEMMA RunStdinEndConsistent ==
    ASSUME Consistent, RunStdinEnd
    PROVE  Consistent'
  <1>1. /\ pc = "stdin" /\ Alive /\ Leave /\ UNCHANGED <<i, lines>> /\ docall = "returned"
        /\ pc' = "exit" /\ result' = (TRUE /\ ~hook)
    BY DEF RunStdinEnd, IsAt, Exit, Leave
  <1>2. i' \in 1 .. Len(argv) + 1 /\ hook \in BOOLEAN
    BY <1>1 DEF Consistent, Typed
  <1>3. Moves
    BY <1>1, <1>2, LeaveMoves DEF Places
  <1>4. QED
    BY <1>1, <1>2, <1>3, EndMoves

LEMMA ReadEndConsistent ==
    ASSUME Consistent, ReadEnd
    PROVE  Consistent'
  <1>1. /\ pc = "read" /\ Alive /\ docall = "no" /\ UNCHANGED <<i, lines>>
        /\ pc' = "exit" /\ result' = (TRUE /\ ~hook)
        /\ UNCHANGED <<commandVars, callVars, signalVars>>
    BY DEF ReadEnd, IsAt, Exit, Only
  <1>2. hook \in BOOLEAN
    BY DEF Consistent, Typed
  <1>3. Moves
    BY <1>1, <1>2 DEF Moves, Consistent, Typed, callVars, signalVars, Places
  <1>4. QED
    BY <1>1, <1>2, <1>3, EndMoves

LEMMA ReadChunkEndConsistent ==
    ASSUME Consistent, ReadChunkEnd
    PROVE  Consistent'
  <1>1. /\ pc = "read" /\ Alive /\ Leave /\ UNCHANGED <<i, lines, result>>
        /\ pc' \in {"read", "print"}
    BY DEF ReadChunkEnd, IsAt, GoTo
  <1>2. i' \in 1 .. Len(argv) + 1 /\ result' \in BOOLEAN
    BY <1>1 DEF Consistent, Typed
  <1>3. Moves
    BY <1>1, <1>2, LeaveMoves DEF Places
  <1>4. QED
    BY <1>1, <1>3, EndMoves

LEMMA PrintEndConsistent ==
    ASSUME Consistent, PrintEnd
    PROVE  Consistent'
  <1>1. /\ pc = "print" /\ Alive /\ pc' = "read" /\ UNCHANGED <<i, lines, result>>
        /\ UNCHANGED <<commandVars, callVars, signalVars>>
    BY DEF PrintEnd, IsAt, GoTo, Only
  <1>2. Moves
    BY <1>1 DEF Moves, Consistent, Typed, Located, callVars, signalVars, Places
  <1>3. QED
    BY <1>1, <1>2, EndMoves

LEMMA StopConsistent ==
    ASSUME Consistent, Stop
    PROVE  Consistent'
  <1>1. /\ pc # "exit" /\ hook' = FALSE /\ wanted' = FALSE
        /\ UNCHANGED <<commandVars, sigint, dead, arms, caught>>
    BY DEF Stop, Alive, Unhook
  <1>2. Awaited'
    BY <1>1 DEF Awaited
  <1>3. CASE \E ok \in {FALSE} : docall = "running" /\ Finished(ok) /\ UNCHANGED mainVars
    <2>1. docall = "running" /\ Finished(FALSE) /\ UNCHANGED <<pc, i, lines, result>>
      BY <1>3 DEF mainVars
    <2>2. Located' /\ RunsAsAsked' /\ RanUpto' /\ Outcomes' /\ ran' \in Seq(Runs)
      BY <1>1, <2>1, FinishedKeeps
    <2>3. Typed'
      BY <1>1, <2>1, <2>2 DEF Consistent, Typed, Finished, commandVars
    <2>4. Armed' /\ ExitTells'
      BY <1>1, <2>1 DEF Armed, ExitTells, Finished
    <2>5. QED
      BY <1>2, <2>2, <2>3, <2>4 DEF Consistent
  <1>4. CASE docall = "running" /\ UNCHANGED callVars /\ UNCHANGED mainVars
    <2>1. Located' /\ RunsAsAsked' /\ RanUpto' /\ Outcomes'
      BY <1>1, <1>4, StillKeeps DEF Still, callVars, mainVars
    <2>2. Typed'
      BY <1>1, <1>4 DEF Consistent, Typed, commandVars, callVars, mainVars
    <2>3. Armed' /\ ExitTells'
      BY <1>1, <1>4 DEF Consistent, Armed, ExitTells, callVars, mainVars
    <2>4. QED
      BY <1>2, <2>1, <2>2, <2>3 DEF Consistent
  <1>5. CASE pc = "print" /\ GoTo("read") /\ UNCHANGED callVars
    <2>1. docall = "no" /\ docall' = "no" /\ pc' = "read" /\ UNCHANGED <<i, lines, result, status, ran, thread>>
      BY <1>5 DEF Consistent, Located, GoTo, callVars
    <2>2. Typed'
      BY <1>1, <2>1 DEF Consistent, Typed, commandVars, Places
    <2>3. Clear /\ AskedStdin = {}
      BY <1>5, CommandTyped DEF Consistent, Located
    <2>4. Located'
      BY <1>1, <2>1, <2>3, MoveLocated DEF Clear
    <2>5. Asked' = Asked /\ \A w : Place(w)' = Place(w)
      BY <1>1, CommandSame
    <2>6. NotTyped' = NotTyped /\ \A w : HasRun(w)' <=> HasRun(w)
      BY <2>1 DEF NotTyped, HasRun
    <2>7. RunsAsAsked'
      BY <2>1, <2>5, <2>6 DEF Consistent, RunsAsAsked
    <2>8. Upto = Len(argv) + 2 /\ Upto' = Len(argv) + 2
      BY <1>1, <1>5, <2>1 DEF Upto, commandVars
    <2>9. RanUpto'
      BY <1>1, <2>5, <2>6, <2>8 DEF Consistent, RanUpto, RanBefore
    <2>10. Outcomes' /\ Armed' /\ ExitTells'
      BY <1>1, <2>1, <2>6 DEF Consistent, Outcomes, Armed, ExitTells
    <2>11. QED
      BY <1>2, <2>2, <2>4, <2>7, <2>9, <2>10 DEF Consistent
  <1>6. QED
    BY <1>3, <1>4, <1>5 DEF Stop

----------------------------------------------------------------------------
(* The theorems.                                                           *)

LEMMA InitConsistent ==
    ASSUME MainInit
    PROVE  Consistent
  <1>1. CommandLine /\ Len(argv) \in Nat
    BY YluaAssumption DEF MainInit, CommandLine
  <1>2. Typed
    <2>1. ran \in Seq(Runs) /\ pc \in Places /\ 1 \in 1 .. Len(argv) + 1
      BY <1>1 DEF MainInit, Places
    <2>2. 0 \in 0 .. MaxLines /\ 0 \in 0 .. MaxSignals
      BY YluaAssumption
    <2>3. QED
      BY <2>1, <2>2 DEF MainInit, Typed
  <1>3. Located /\ Outcomes /\ ExitTells /\ Armed /\ Awaited
    <2>1. DOMAIN ran = {}
      BY DEF MainInit
    <2>2. Outcomes
      BY <2>1 DEF MainInit, Outcomes, NotTyped
    <2>3. QED
      BY <2>2 DEF MainInit, Located, ExitTells, Armed, Awaited
  <1>4. NotTyped = {} /\ Upto = 0
    BY DEF MainInit, NotTyped, Upto
  <1>5. RunsAsAsked
    BY <1>4 DEF MainInit, RunsAsAsked
  <1>6. RanUpto
    <2>1. Wrong => Asked = {}
      BY DEF Asked
    <2>2. \A what \in Asked : ~(Place(what) < 0)
      BY <1>1, <2>1, FirstPlaces DEF Clear
    <2>3. QED
      BY <1>4, <2>2 DEF RanUpto, RanBefore, HasRun
  <1>7. QED
    BY <1>2, <1>3, <1>5, <1>6 DEF Consistent

LEMMA StepConsistent ==
    ASSUME Consistent, [MainNext]_interpreterVars
    PROVE  Consistent'
  <1>1. CASE Main
    <2>1. CASE Start \/ LuaInit \/ LuaInitEnd \/ RunArg \/ RunArgEnd \/ PassArg
      BY <2>1, StartConsistent, LuaInitConsistent, LuaInitEndConsistent, RunArgConsistent,
         RunArgEndConsistent, PassArgConsistent
    <2>2. CASE RunScript \/ RunScriptEnd \/ Choose \/ RunStdin \/ RunStdinEnd
      BY <2>2, RunScriptConsistent, RunScriptEndConsistent, ChooseConsistent, RunStdinConsistent,
         RunStdinEndConsistent
    <2>3. CASE ReadChunk \/ ReadEnd \/ ReadChunkEnd \/ PrintEnd
      BY <2>3, ReadChunkConsistent, ReadEndConsistent, ReadChunkEndConsistent, PrintEndConsistent
    <2>4. QED
      BY <1>1, <2>1, <2>2, <2>3 DEF Main
  <1>2. CASE Return \/ Switch \/ Signal \/ Stop
    BY <1>2, ReturnConsistent, SwitchConsistent, SignalConsistent, StopConsistent
  <1>3. CASE UNCHANGED interpreterVars
    <2>1. Located' /\ RunsAsAsked' /\ RanUpto' /\ Outcomes'
      BY <1>3, StillKeeps DEF Still, interpreterVars, mainVars, callVars
    <2>2. ExitTells'
      BY <1>3, CommandSame DEF Consistent, ExitTells, interpreterVars, mainVars, callVars, signalVars
    <2>3. Typed' /\ Armed' /\ Awaited'
      BY <1>3 DEF Consistent, Typed, Armed, Awaited, interpreterVars, commandVars, mainVars, callVars, signalVars
    <2>4. QED
      BY <2>1, <2>2, <2>3 DEF Consistent
  <1>4. QED
    BY <1>1, <1>2, <1>3 DEF MainNext

\* What has been run, where the interpreter is and how it ends belong together,
\* whatever the command line, the interrupts and the outcomes of what is run.
THEOREM InterpreterConsistent == MainSpec => []Consistent
  BY InitConsistent, StepConsistent, PTL DEF MainSpec

\* runargs() comes to options only, as it asserts; and the types.
THEOREM TypeCorrect == MainSpec => []TypeOK
  <1>1. Consistent => TypeOK
    <2>1. SUFFICES ASSUME Consistent, pc = "runargs", i <= LastOption PROVE Begins(argv[i])
      BY YluaAssumption DEF Consistent, Typed, TypeOK
    <2>2. Clear /\ LastOption \in Int /\ i \in Int
      BY <2>1, CommandTyped, ScriptIs DEF Consistent, Typed
    <2>3. AtOption(i)
      BY <2>1, <2>2 DEF Consistent, Located
    <2>4. CASE i < EndOfOptions
      BY <2>2, <2>3, <2>4, OptionAt DEF Begins, Clear
    <2>5. CASE i = EndOfOptions
      BY <2>1, <2>2, <2>5, ScriptIs DEF Begins
    <2>6. QED
      BY <2>2, <2>3, <2>4, <2>5, ScriptIs DEF AtOption
  <1>2. QED
    BY <1>1, InterpreterConsistent, PTL

\* handle_luainit(), runargs() and handle_script() run what the command line asks
\* for, in order, up to the first that fails, and nothing else.
THEOREM WhatIsAskedRuns == MainSpec => []RunsAsAsked
  <1>1. Consistent => RunsAsAsked
    BY DEF Consistent
  <1>2. QED
    BY <1>1, InterpreterConsistent, PTL

\* The exit status tells whether all of it went well, uninterrupted.
THEOREM ExitStatusTells == MainSpec => []ExitTells
  <1>1. Consistent => ExitTells
    BY DEF Consistent
  <1>2. QED
    BY <1>1, InterpreterConsistent, PTL

\* The first SIGINT while something runs does not kill the process.
THEOREM FirstInterruptSurvived == MainSpec => KilledOnlyAgain
  <1>1. ASSUME Consistent, [MainNext]_interpreterVars, ~dead, dead', docall = "running" PROVE caught
    <2>1. ~UNCHANGED dead
      BY <1>1
    <2>2. Signal
      BY <1>1, <2>1 DEF MainNext, Main, Start, LuaInit, LuaInitEnd, RunArg, RunArgEnd, PassArg, RunScript,
         RunScriptEnd, Choose, RunStdin, RunStdinEnd, ReadChunk, ReadEnd, ReadChunkEnd, PrintEnd,
         Return, Switch, Stop, Only, Run, Leave, interpreterVars, signalVars
    <2>3. sigint = "DFL"
      BY <2>1, <2>2 DEF Signal
    <2>4. QED
      BY <1>1, <2>3 DEF Consistent, Armed
  <1>2. QED
    BY <1>1, InterpreterConsistent, PTL DEF MainSpec, KilledOnlyAgain

=============================================================================
