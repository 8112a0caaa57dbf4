------------------------- MODULE LuaCallsProofs ---------------------------
(***************************************************************************)
(* Proofs about LuaCalls, for any threads, limits of the C stack and       *)
(* programs that resume no thread which is under way.                      *)
(***************************************************************************)
EXTENDS LuaCalls, FiniteSetTheorems, SequenceTheorems, WellFoundedInduction, TLAPS

----------------------------------------------------------------------------
(* The invariant relates the C stack, "cs" below, with the CallInfos of    *)
(* the threads; at[i] is how many CallInfos the thread of cs[i] had when   *)
(* that C call began.  Its operators take what they speak of as            *)
(* parameters, so that they can be compared before and after a step.       *)

Statuses  == {"OK", "YIELD", "ERRRUN", "ERRERR"}
Protected == {"pcall", "xpcall"}
CallInfos == [f : {"lua", "c", "yield", "resume", "wrap"} \union Protected,
              reentry : BOOLEAN, hooked : BOOLEAN, k : BOOLEAN, ypcall : BOOLEAN,
              stat : BOOLEAN, oldErrfunc : Nat, oldAllowhook : BOOLEAN]
LuaStates == [status : Statuses, ci : Seq(CallInfos), hasFunction : BOOLEAN, nny : Int,
              nCcalls : Int, errfunc : Nat, allowhook : BOOLEAN]
Entries ==
    [f : {"resume"}, thread : Threads, nny : {0}, nCcalls : Nat]
    \union [f : {"pcall"}, thread : Threads, nny : {0, 1}, nCcalls : Int, ci : Nat,
            allowhook : BOOLEAN, oldNny : Int, errfunc : Nat]
    \union [f : {"call"}, thread : Threads, nny : {0, 1},
            then : {"operation", "function", "pcall", "errormsg"}]

Mine(cs, t)       == {i \in DOMAIN cs : cs[i].thread = t}
Nnys(cs, t, n)    == {i \in DOMAIN cs : i <= n /\ cs[i].thread = t /\ cs[i].nny = 1}
Base(t)           == IF t = MainThread THEN 1 ELSE 0
NnyUpTo(cs, t, n) == Base(t) + Cardinality(Nnys(cs, t, n))
IsCall(e, then)   == e.f = "call" /\ e.then = then
\* The C calls that a C function has made, which has a CallInfo for itself.
OfFunction(e) == e.f = "pcall" \/ IsCall(e, "function") \/ IsCall(e, "pcall")
Unhooked(ci, n) == \A d \in DOMAIN ci : d <= n => ~ci[d].hooked

----------------------------------------------------------------------------
(* The C stack alone.                                                      *)

\* Below each C call is the jump buffer that its thread has set last.
IsJump(cs, i, j) ==
    /\ j \in DOMAIN cs /\ j <= i /\ cs[j].thread = cs[i].thread /\ cs[j].f # "call"
    /\ \A k \in DOMAIN cs : j < k /\ k <= i => cs[k].f = "call" /\ cs[k].thread = cs[i].thread

\* A thread makes its C calls in one go: the first is that of lua_resume(), or
\* the host's for the main thread.
First(cs, i)   == \A j \in DOMAIN cs : j < i => cs[j].thread # cs[i].thread
Follows(cs, i) == cs[i - 1].thread = cs[i].thread

\* Above the limits there are but calls of error handlers.
Overflows(cs, i) == Fits(i - 1) \/ IsCall(cs[i], "errormsg")

EntryRight(cs, i) ==
    LET e == cs[i] IN
    /\ e.f = "resume" => i < MaxCCalls /\ e.nCcalls = i /\ First(cs, i)
    /\ e.f = "pcall"  => e.nCcalls = i - 1 /\ e.oldNny = NnyUpTo(cs, e.thread, i - 1)
    /\ Fits(i) => (e.nny = 1 <=> e.f = "pcall" \/ IsCall(e, "function") \/ IsCall(e, "errormsg"))
    /\ i > 1 => Overflows(cs, i)
    /\ i > 1 /\ e.f # "resume" => Follows(cs, i)
    /\ \E j \in Nat : IsJump(cs, i, j)

StackRight(cs) ==
    /\ cs \in Seq(Entries) /\ 1 \in DOMAIN cs
    /\ cs[1].thread = MainThread /\ cs[1].f = "pcall"
    /\ \A i \in DOMAIN cs : EntryRight(cs, i)

----------------------------------------------------------------------------
(* The CallInfos of a thread alone.                                        *)

InfosRight(ci) ==
    \A d \in DOMAIN ci :
        /\ ci[d].f # "lua" \/ ci[d].reentry => d > 1 /\ ci[d - 1].f = "lua"
        /\ ci[d].f # "lua" => ~ci[d].hooked /\ ~ci[d].reentry
        /\ ci[d].ypcall => /\ ci[d].f \in Protected /\ ci[d].k
                           /\ ci[d].oldAllowhook <=> Unhooked(ci, d)

----------------------------------------------------------------------------
(* Both together.  When an error has been thrown, or the thread has called *)
(* another, its last CallInfo may be one that the C stack knows nothing of *)
(* ("loose").                                                              *)

Places(ci, cs, at, mine) ==
    /\ \A i \in mine : at[i] <= Len(ci)
    /\ \A i, j \in mine : i < j =>
          at[i] < at[j] \/ (~Fits(i) /\ IsCall(cs[j], "errormsg") /\ at[i] <= at[j])
    /\ \A i \in mine : Fits(i) /\ cs[i].f # "resume" =>
          at[i] < Len(ci) /\ ci[at[i] + 1].f = "lua" /\ ~ci[at[i] + 1].reentry

\* What is below the CallInfo that a C call has begun.
Callers(ci, cs, at, mine) ==
    \A i \in mine :
        /\ cs[i].f = "resume" \/ i = 1 <=> at[i] = 0
        /\ IsCall(cs[i], "operation") => ci[at[i]].f = "lua"
        /\ OfFunction(cs[i]) /\ i # 1 => ci[at[i]].f # "lua"
        /\ cs[i].f = "pcall" => /\ cs[i].ci = at[i]
                                /\ cs[i].allowhook <=> Unhooked(ci, at[i])
                                /\ i # 1 => ci[at[i]].f \in Protected /\ ~ci[at[i]].ypcall

\* Where the CallInfos come from.
Begun(ci, cs, at, mine) ==
    \A d \in DOMAIN ci : ci[d].f = "lua" /\ ~ci[d].reentry =>
        \/ \E i \in mine : Fits(i) /\ cs[i].f # "resume" /\ at[i] + 1 = d
        \/ \A i \in mine : cs[i].f # "resume" => d <= at[i]

Handled(ci, cs, at, mine, loose) ==
    \A d \in DOMAIN ci : ci[d].hooked =>
        \/ loose /\ d = Len(ci)
        \/ \E i \in mine : Fits(i) /\ IsCall(cs[i], "errormsg") /\ at[i] = d

Continuable(ci, cs, at, mine, loose) ==
    \A d \in DOMAIN ci : ci[d].f # "lua" =>
        \/ ci[d].k
        \/ loose /\ d = Len(ci)
        \/ \E i \in mine : Fits(i) /\ cs[i].nny = 1 /\ at[i] = d

\* Which protected calls are lua_resume()'s, and which have a jump buffer of
\* their own; the latter are the later ones.
Protecting(ci, cs, at, mine) ==
    \A d \in DOMAIN ci : ci[d].f \in Protected =>
        \/ ci[d].ypcall /\ \A i \in mine : cs[i].nny = 1 \/ cs[i].f = "pcall" => d <= at[i]
        \/ ~ci[d].ypcall /\ \E i \in mine : cs[i].f = "pcall" /\ at[i] = d

Matched(ci, cs, at, mine, loose) ==
    /\ InfosRight(ci)
    /\ Places(ci, cs, at, mine)
    /\ Callers(ci, cs, at, mine)
    /\ Begun(ci, cs, at, mine)
    /\ Handled(ci, cs, at, mine, loose)
    /\ Continuable(ci, cs, at, mine, loose)
    /\ Protecting(ci, cs, at, mine)

----------------------------------------------------------------------------
(* The threads.                                                            *)

\* One that is on the C stack.
Counted(s, t, cs) ==
    /\ s.nny = NnyUpTo(cs, t, Len(cs))
    /\ s.nCcalls \in Mine(cs, t) /\ \A i \in Mine(cs, t) : i <= s.nCcalls
    /\ s.allowhook <=> Unhooked(s.ci, Len(s.ci))
    /\ ~s.hasFunction

\* One that waits for another which it has resumed.
Waiting(s) ==
    /\ s.status = "OK" /\ s.ci # << >> /\ s.ci[Len(s.ci)].f \in {"resume", "wrap"}
    /\ Fits(s.nCcalls)

\* One that is not on the C stack: not begun, over, or suspended.
Away(s) ==
    /\ InfosRight(s.ci)
    /\ s.nny = 1
    /\ s.hasFunction => s.status = "OK"
    /\ s.status = "OK" => s.ci = << >> /\ (s.hasFunction => s.allowhook)
    /\ s.status = "YIELD" =>
          /\ s.ci # << >> /\ s.ci[Len(s.ci)].f = "yield"
          /\ s.allowhook /\ Unhooked(s.ci, Len(s.ci))
          /\ \A d \in DOMAIN s.ci : s.ci[d].f # "lua" => s.ci[d].k \/ d = Len(s.ci)
          /\ \A d \in DOMAIN s.ci : s.ci[d].f \in Protected => s.ci[d].ypcall

\* The one that runs.
Running(s, cs, now) ==
    /\ IF now = [at |-> "throw", status |-> "YIELD"]
         THEN /\ s.status = "YIELD" /\ s.nny = 0 /\ Fits(Len(cs))
              /\ s.ci # << >> /\ s.ci[Len(s.ci)].f = "yield"
         ELSE s.status = "OK"
    /\ now.at = "lua" => s.ci # << >> /\ s.ci[Len(s.ci)].f = "lua" /\ Fits(Len(cs))
    /\ now.at \in {"errormsg", "throw"} => s.ci # << >>
    /\ now.at = "errormsg" => Fits(Len(cs)) \/ Len(cs) = MaxCCalls
    /\ now.at = "unroll" => cs[Len(cs)].f = "resume"

Calm(now) == now.at \in {"lua", "unroll"}

ThreadRight(t, s, cs, now, at) ==
    IF Mine(cs, t) = {} THEN Away(s)
    ELSE /\ Counted(s, t, cs)
         /\ Matched(s.ci, cs, at, Mine(cs, t), t # cs[Len(cs)].thread \/ ~Calm(now))
         /\ IF t = cs[Len(cs)].thread THEN Running(s, cs, now) ELSE Waiting(s)

Doings == [at : {"lua", "errormsg", "unroll", "over"}, status : {"OK"}]
          \union [at : {"throw"}, status : {"YIELD", "ERRRUN", "ERRERR"}]

States(ths) == ths \in [Threads -> LuaStates]
Depths(at)  == at \in [Nat -> Nat]

Right(ths, cs, now, at) ==
    /\ States(ths) /\ now \in Doings /\ Depths(at)
    /\ StackRight(cs)
    /\ \A t \in Threads : ThreadRight(t, ths[t], cs, now, at)

Consistent == \E at : Right(th, cstack, doing, at)


----------------------------------------------------------------------------
(* The C stack.                                                            *)

\* What is known of a C stack as a sequence.
LEMMA StackSeq ==
    ASSUME NEW cs, StackRight(cs)
    PROVE  /\ cs \in Seq(Entries) /\ Len(cs) \in Nat \ {0} /\ DOMAIN cs = 1 .. Len(cs)
           /\ Len(cs) \in DOMAIN cs /\ Last(cs) = cs[Len(cs)]
           /\ \A i \in DOMAIN cs : cs[i] \in Entries /\ cs[i].thread \in Threads /\ cs[i].nny \in {0, 1}
  <1>1. cs \in Seq(Entries) /\ 1 \in DOMAIN cs
    BY DEF StackRight
  <1>2. Len(cs) \in Nat /\ DOMAIN cs = 1 .. Len(cs)
    BY <1>1
  <1>3. \A i \in DOMAIN cs : cs[i] \in Entries
    BY <1>1
  <1>4. \A e \in Entries : e.thread \in Threads /\ e.nny \in {0, 1}
    BY DEF Entries
  <1> QED
    BY <1>1, <1>2, <1>3, <1>4 DEF Last

\* The non-yieldable calls of a thread are finitely many, and can be counted.
LEMMA NnysFinite ==
    ASSUME NEW cs \in Seq(Entries), NEW t, NEW n \in Int
    PROVE  /\ IsFiniteSet(Nnys(cs, t, n)) /\ Cardinality(Nnys(cs, t, n)) \in Nat
           /\ NnyUpTo(cs, t, n) \in Int
           /\ NnyUpTo(cs, t, n) = 0 <=> t # MainThread /\ Nnys(cs, t, n) = {}
  <1>1. IsFiniteSet(1 .. Len(cs))
    BY FS_Interval
  <1>2. Nnys(cs, t, n) \subseteq 1 .. Len(cs)
    BY DEF Nnys
  <1>3. IsFiniteSet(Nnys(cs, t, n))
    BY <1>1, <1>2, FS_Subset
  <1>4. Cardinality(Nnys(cs, t, n)) \in Nat /\ (Cardinality(Nnys(cs, t, n)) = 0 <=> Nnys(cs, t, n) = {})
    BY <1>3, FS_CardinalityType, FS_EmptySet
  <1>5. Base(t) \in {0, 1} /\ (Base(t) = 0 <=> t # MainThread)
    BY DEF Base
  <1> QED
    BY <1>3, <1>4, <1>5 DEF NnyUpTo

\* They depend but on the entries up to n.
LEMMA NnysSame ==
    ASSUME NEW cs \in Seq(Entries), NEW cs2 \in Seq(Entries), NEW t, NEW n \in Int,
           n <= Len(cs), n <= Len(cs2), \A i \in 1 .. n : cs2[i] = cs[i]
    PROVE  Nnys(cs2, t, n) = Nnys(cs, t, n) /\ NnyUpTo(cs2, t, n) = NnyUpTo(cs, t, n)
  <1>1. DOMAIN cs = 1 .. Len(cs) /\ DOMAIN cs2 = 1 .. Len(cs2) /\ Len(cs) \in Nat /\ Len(cs2) \in Nat
    OBVIOUS
  <1>2. Nnys(cs2, t, n) = Nnys(cs, t, n)
    BY <1>1 DEF Nnys
  <1> QED
    BY <1>2 DEF NnyUpTo

\* Each entry counts as it says.
LEMMA NnyAdd ==
    ASSUME NEW cs \in Seq(Entries), NEW t, NEW n \in 1 .. Len(cs)
    PROVE  NnyUpTo(cs, t, n)
             = NnyUpTo(cs, t, n - 1) + (IF cs[n].thread = t /\ cs[n].nny = 1 THEN 1 ELSE 0)
  <1>1. DOMAIN cs = 1 .. Len(cs) /\ n \in Int /\ n - 1 \in Int
    OBVIOUS
  <1>2. /\ IsFiniteSet(Nnys(cs, t, n - 1)) /\ Cardinality(Nnys(cs, t, n - 1)) \in Nat
    BY <1>1, NnysFinite
  <1>3. n \notin Nnys(cs, t, n - 1)
    BY <1>1 DEF Nnys
  <1>4. CASE cs[n].thread = t /\ cs[n].nny = 1
    <2>1. Nnys(cs, t, n) = Nnys(cs, t, n - 1) \union {n}
      BY <1>1, <1>4 DEF Nnys
    <2>2. Cardinality(Nnys(cs, t, n)) = Cardinality(Nnys(cs, t, n - 1)) + 1
      BY <1>2, <1>3, <2>1, FS_AddElement
    <2>3. Base(t) \in Int
      BY DEF Base
    <2> QED
      BY <1>2, <1>4, <2>2, <2>3 DEF NnyUpTo
  <1>5. CASE ~(cs[n].thread = t /\ cs[n].nny = 1)
    <2>1. Nnys(cs, t, n) = Nnys(cs, t, n - 1)
      BY <1>1, <1>5 DEF Nnys
    <2>2. Base(t) \in Int
      BY DEF Base
    <2> QED
      BY <1>2, <1>5, <2>1, <2>2 DEF NnyUpTo
  <1> QED
    BY <1>4, <1>5

\* A part of the stack from the bottom is a stack.
LEMMA StackCut ==
    ASSUME NEW cs, StackRight(cs), NEW k \in 1 .. Len(cs), NEW cs2, cs2 = SubSeq(cs, 1, k)
    PROVE  /\ StackRight(cs2) /\ Len(cs2) = k /\ DOMAIN cs2 = 1 .. k
           /\ \A i \in 1 .. k : cs2[i] = cs[i]
  <1>1. /\ cs \in Seq(Entries) /\ Len(cs) \in Nat \ {0} /\ DOMAIN cs = 1 .. Len(cs)
    BY StackSeq
  <1>2. \A i \in 1 .. k : cs[i] \in Entries
    BY <1>1
  <1>3. /\ cs2 \in Seq(Entries) /\ Len(cs2) = k /\ DOMAIN cs2 = 1 .. k
        /\ \A i \in 1 .. k : cs2[i] = cs[i]
    <2>1. /\ SubSeq(cs, 1, k) \in Seq(Entries)
          /\ Len(SubSeq(cs, 1, k)) = IF 1 <= k THEN k - 1 + 1 ELSE 0
          /\ \A i \in 1 .. k - 1 + 1 : SubSeq(cs, 1, k)[i] = cs[1 + i - 1]
      BY <1>1, <1>2, SubSeqProperties, 1 \in Int, k \in Int
    <2> QED
      BY <2>1, <1>1
  <1>4. \A i \in DOMAIN cs2 : EntryRight(cs2, i)
    <2> TAKE i \in DOMAIN cs2
    <2>1. EntryRight(cs, i) /\ cs2[i] = cs[i] /\ i \in Nat \ {0} /\ i \in DOMAIN cs
      BY <1>1, <1>3 DEF StackRight
    <2>2. i - 1 \in Int /\ i - 1 <= Len(cs) /\ i - 1 <= Len(cs2) /\ \A j \in 1 .. i - 1 : cs2[j] = cs[j]
      BY <1>1, <1>3
    <2>3. NnyUpTo(cs2, cs[i].thread, i - 1) = NnyUpTo(cs, cs[i].thread, i - 1)
      BY <1>1, <1>3, <2>2, NnysSame
    <2>4. DOMAIN cs2 \subseteq DOMAIN cs /\ (i > 1 => cs2[i - 1] = cs[i - 1])
      BY <1>1, <1>3, <2>1
    <2>5. \E j \in Nat : IsJump(cs2, i, j)
      <3>1. PICK j \in Nat : IsJump(cs, i, j)
        BY <2>1 DEF EntryRight
      <3>2. j \in DOMAIN cs2
        BY <1>1, <1>3, <2>1, <3>1 DEF IsJump
      <3> QED
        BY <1>3, <2>1, <2>4, <3>1, <3>2 DEF IsJump
    <2>6. First(cs, i) => First(cs2, i)
      BY <1>3, <2>1, <2>4 DEF First
    <2>7. i > 1 => (Follows(cs, i) => Follows(cs2, i)) /\ (Overflows(cs, i) => Overflows(cs2, i))
      BY <2>1, <2>4 DEF Follows, Overflows
    <2> QED
      BY <2>1, <2>3, <2>5, <2>6, <2>7 DEF EntryRight
  <1>5. cs[1].thread = MainThread /\ cs[1].f = "pcall" /\ cs2[1] = cs[1]
    BY <1>3 DEF StackRight
  <1> QED
    BY <1>3, <1>4, <1>5 DEF StackRight

\* A C call that the rules allow goes on top of it.
MayPush(e, n, cs) ==
    /\ n = Len(cs) + 1 /\ e \in Entries
    /\ Fits(n - 1) \/ IsCall(e, "errormsg")
    /\ e.f = "resume" => n < MaxCCalls /\ e.nCcalls = n /\ \A i \in DOMAIN cs : cs[i].thread # e.thread
    /\ e.f # "resume" => e.thread = cs[n - 1].thread
    /\ e.f = "pcall" => e.nCcalls = n - 1 /\ e.oldNny = NnyUpTo(cs, e.thread, n - 1)
    /\ Fits(n) => (e.nny = 1 <=> e.f = "pcall" \/ IsCall(e, "function") \/ IsCall(e, "errormsg"))

OnTop(e, n, cs, cs2) ==
    /\ StackRight(cs2) /\ Len(cs2) = n /\ DOMAIN cs2 = 1 .. n /\ cs2[n] = e
    /\ \A i \in DOMAIN cs : cs2[i] = cs[i]

LEMMA StackPush ==
    ASSUME NEW cs, NEW e, NEW n, NEW cs2, StackRight(cs), MayPush(e, n, cs), cs2 = Append(cs, e)
    PROVE  OnTop(e, n, cs, cs2)
  <1>1. /\ cs \in Seq(Entries) /\ Len(cs) \in Nat \ {0} /\ DOMAIN cs = 1 .. Len(cs)
    BY StackSeq
  <1>0. n = Len(cs) + 1 /\ e \in Entries
    BY DEF MayPush
  <1>2. /\ cs2 \in Seq(Entries) /\ Len(cs2) = n /\ DOMAIN cs2 = 1 .. n /\ cs2[n] = e
        /\ \A i \in DOMAIN cs : cs2[i] = cs[i]
    BY <1>0, <1>1, AppendProperties
  <1>3. n \in Nat /\ n > 1 /\ n - 1 = Len(cs) /\ n - 1 \in DOMAIN cs /\ n \notin DOMAIN cs
        /\ DOMAIN cs \subseteq DOMAIN cs2
    BY <1>0, <1>1, <1>2
  <1>4. \A i \in DOMAIN cs2 : i \in DOMAIN cs \/ i = n
    BY <1>1, <1>2
  <1>5. \A i \in DOMAIN cs : EntryRight(cs2, i)
    <2> TAKE i \in DOMAIN cs
    <2>1. EntryRight(cs, i) /\ cs2[i] = cs[i] /\ i \in Nat \ {0} /\ i < n
      BY <1>1, <1>2, <1>3 DEF StackRight
    <2>2. i - 1 \in Int /\ i - 1 <= Len(cs) /\ i - 1 <= Len(cs2) /\ \A j \in 1 .. i - 1 : cs2[j] = cs[j]
      BY <1>1, <1>2
    <2>3. NnyUpTo(cs2, cs[i].thread, i - 1) = NnyUpTo(cs, cs[i].thread, i - 1)
      BY <1>1, <1>2, <2>2, NnysSame
    <2>4. i > 1 => cs2[i - 1] = cs[i - 1]
      BY <1>1, <1>2, <2>1
    <2>5. \E j \in Nat : IsJump(cs2, i, j)
      <3>1. PICK j \in Nat : IsJump(cs, i, j)
        BY <2>1 DEF EntryRight
      <3>2. cs2[j] = cs[j] /\ j \in DOMAIN cs2
        BY <1>2, <1>3, <3>1 DEF IsJump
      <3> QED
        BY <1>2, <1>3, <1>4, <2>1, <3>1, <3>2 DEF IsJump
    <2>6. First(cs, i) => First(cs2, i)
      BY <1>2, <1>3, <1>4, <2>1 DEF First
    <2>7. i > 1 => (Follows(cs, i) => Follows(cs2, i)) /\ (Overflows(cs, i) => Overflows(cs2, i))
      BY <2>1, <2>4 DEF Follows, Overflows
    <2> QED
      BY <2>1, <2>3, <2>5, <2>6, <2>7 DEF EntryRight
  <1>6. EntryRight(cs2, n)
    <2>1. NnyUpTo(cs2, e.thread, n - 1) = NnyUpTo(cs, e.thread, n - 1)
      <3>1. n - 1 \in Int /\ n - 1 <= Len(cs) /\ n - 1 <= Len(cs2)
            /\ \A j \in 1 .. n - 1 : cs2[j] = cs[j]
        BY <1>1, <1>2, <1>3
      <3> QED
        BY <1>1, <1>2, <3>1, NnysSame
    <2>2. cs2[n - 1] = cs[n - 1]
      BY <1>2, <1>3
    <2>3. \E j \in Nat : IsJump(cs2, n, j)
      <3>1. CASE e.f # "call"
        BY <1>2, <1>3, <3>1 DEF IsJump
      <3>2. CASE e.f = "call"
        <4>1. e.thread = cs[n - 1].thread
          BY <3>2 DEF MayPush
        <4>2. PICK j \in Nat : IsJump(cs, n - 1, j)
          BY <1>3 DEF StackRight, EntryRight
        <4>3. cs2[j] = cs[j] /\ j \in DOMAIN cs2 /\ j <= n
          BY <1>2, <1>3, <4>2 DEF IsJump
        <4>4. \A k \in DOMAIN cs2 : j < k /\ k <= n => cs2[k].f = "call" /\ cs2[k].thread = cs2[n].thread
          <5> TAKE k \in DOMAIN cs2
          <5> HAVE j < k /\ k <= n
          <5>1. CASE k = n
            BY <1>2, <3>2, <5>1
          <5>2. CASE k # n
            <6>1. k \in DOMAIN cs /\ k <= n - 1
              BY <1>1, <1>2, <1>4, <5>2
            <6> QED
              BY <1>2, <4>1, <4>2, <6>1 DEF IsJump
          <5> QED
            BY <5>1, <5>2
        <4> QED
          BY <1>2, <4>1, <4>2, <4>3, <4>4 DEF IsJump
      <3> QED
        BY <3>1, <3>2
    <2>4. e.f = "resume" => n < MaxCCalls /\ e.nCcalls = n /\ First(cs2, n)
      <3> HAVE e.f = "resume"
      <3>1. n < MaxCCalls /\ e.nCcalls = n /\ \A i \in DOMAIN cs : cs[i].thread # e.thread
        BY DEF MayPush
      <3>2. First(cs2, n)
        BY <1>2, <1>3, <1>4, <3>1 DEF First
      <3> QED
        BY <3>1, <3>2
    <2>5. Overflows(cs2, n)
      BY <1>2 DEF Overflows, MayPush
    <2>6. e.f # "resume" => Follows(cs2, n)
      BY <1>2, <2>2 DEF Follows, MayPush
    <2> QED
      BY <1>2, <1>3, <2>1, <2>3, <2>4, <2>5, <2>6 DEF EntryRight, MayPush
  <1>7. cs2[1] = cs[1] /\ cs[1].thread = MainThread /\ cs[1].f = "pcall" /\ 1 \in DOMAIN cs2
    BY <1>1, <1>2, <1>3 DEF StackRight
  <1> QED
    BY <1>2, <1>4, <1>5, <1>6, <1>7 DEF StackRight, OnTop

\* The thread that runs has made the last C call, and counted them all.
LEMMA TopIsMine ==
    ASSUME NEW cs, StackRight(cs), NEW t, t = cs[Len(cs)].thread
    PROVE  /\ t \in Threads /\ Len(cs) \in Mine(cs, t) /\ Mine(cs, t) # {}
           /\ Mine(cs, t) \subseteq 1 .. Len(cs)
           /\ \A s : Counted(s, t, cs) => s.nCcalls = Len(cs)
  <1>1. /\ Len(cs) \in Nat \ {0} /\ DOMAIN cs = 1 .. Len(cs) /\ t \in Threads
    BY StackSeq
  <1>2. Len(cs) \in Mine(cs, t) /\ Mine(cs, t) \subseteq 1 .. Len(cs)
    BY <1>1 DEF Mine
  <1>3. ASSUME NEW s, Counted(s, t, cs)
        PROVE  s.nCcalls = Len(cs)
    <2>1. s.nCcalls \in Mine(cs, t) /\ Len(cs) <= s.nCcalls
      BY <1>2, <1>3 DEF Counted
    <2>2. s.nCcalls \in 1 .. Len(cs)
      BY <1>2, <2>1
    <2> QED
      BY <1>1, <2>1, <2>2
  <1> QED
    BY <1>1, <1>2, <1>3

\* A coroutine has made no C call before that of lua_resume().
LEMMA ResumeIsFirst ==
    ASSUME NEW cs, StackRight(cs), NEW n \in DOMAIN cs, cs[n].f = "resume",
           \A k \in DOMAIN cs : n < k => cs[k].f = "call"
    PROVE  /\ cs[n].thread # MainThread /\ n > 1
           /\ \A k \in DOMAIN cs : k < n => cs[k].thread # cs[n].thread
           /\ n < MaxCCalls /\ cs[n].nCcalls = n /\ cs[n].nny = 0
  <1>1. DOMAIN cs = 1 .. Len(cs) /\ Len(cs) \in Nat /\ cs[n] \in Entries
    BY StackSeq
  <1>2. First(cs, n) /\ n < MaxCCalls /\ cs[n].nCcalls = n
    BY DEF StackRight, EntryRight
  <1>3. cs[1].thread = MainThread /\ cs[1].f = "pcall" /\ 1 \in DOMAIN cs
    BY DEF StackRight
  <1>4. n > 1
    BY <1>1, <1>3
  <1>5. cs[n].thread # MainThread
    BY <1>2, <1>3, <1>4 DEF First
  <1>6. cs[n].nny = 0
    BY <1>1 DEF Entries
  <1> QED
    BY <1>2, <1>4, <1>5, <1>6 DEF First

\* A thread that may yield has made no call which counts, nor one that must
\* not be cut by a yield.
LEMMA NoneCounted ==
    ASSUME NEW cs, StackRight(cs), Fits(Len(cs)), NEW t, NnyUpTo(cs, t, Len(cs)) = 0
    PROVE  /\ t # MainThread
           /\ \A i \in Mine(cs, t) : /\ Fits(i) /\ cs[i].nny # 1 /\ cs[i].f # "pcall"
                                     /\ ~IsCall(cs[i], "function") /\ ~IsCall(cs[i], "errormsg")
  <1>1. cs \in Seq(Entries) /\ Len(cs) \in Nat \ {0} /\ DOMAIN cs = 1 .. Len(cs)
    BY StackSeq
  <1>2. t # MainThread /\ Nnys(cs, t, Len(cs)) = {}
    BY <1>1, NnysFinite
  <1>3. \A i \in Mine(cs, t) : i \in DOMAIN cs /\ cs[i].thread = t /\ cs[i].nny # 1
    BY <1>1, <1>2 DEF Nnys, Mine
  <1>4. ASSUME NEW i \in Mine(cs, t)
        PROVE  Fits(i)
    <2> SUFFICES ASSUME ~Fits(i)
                 PROVE  FALSE
      OBVIOUS
    <2>1. i \in Nat /\ i < Len(cs) /\ i + 1 \in DOMAIN cs /\ i + 1 > 1
      BY <1>1, <1>3
    <2>2. Fits(i + 1)
      BY <1>1, <2>1, CallsAssumption DEF Fits
    <2>3. EntryRight(cs, i + 1) /\ (i + 1) - 1 = i
      BY <1>1, <2>1 DEF StackRight
    <2>4. IsCall(cs[i + 1], "errormsg")
      BY <2>1, <2>3 DEF EntryRight, Overflows
    <2>5. cs[i + 1].thread = t
      BY <1>3, <2>1, <2>3, <2>4 DEF EntryRight, Follows, IsCall
    <2>6. cs[i + 1].nny = 1
      BY <2>2, <2>3, <2>4 DEF EntryRight
    <2> QED
      BY <1>3, <2>1, <2>5, <2>6 DEF Mine
  <1>5. \A i \in Mine(cs, t) : EntryRight(cs, i)
    BY <1>3 DEF StackRight
  <1> QED
    BY <1>2, <1>3, <1>4, <1>5 DEF EntryRight

\* What a thread that does not run is like is its own affair.
Idle(t, cs, cs2, at, at2) ==
    /\ t # cs[Len(cs)].thread /\ t # cs2[Len(cs2)].thread
    /\ Mine(cs2, t) = Mine(cs, t) /\ \A i \in Mine(cs, t) : cs2[i] = cs[i] /\ at2[i] = at[i]

LEMMA OthersKept ==
    ASSUME NEW cs, StackRight(cs), NEW cs2, StackRight(cs2), NEW at, NEW at2, NEW now, NEW now2,
           NEW t, NEW s, ThreadRight(t, s, cs, now, at), Idle(t, cs, cs2, at, at2)
    PROVE  ThreadRight(t, s, cs2, now2, at2)
  <1>0. /\ t # cs[Len(cs)].thread /\ t # cs2[Len(cs2)].thread
        /\ Mine(cs2, t) = Mine(cs, t) /\ \A i \in Mine(cs, t) : cs2[i] = cs[i] /\ at2[i] = at[i]
    BY DEF Idle
  <1>1. CASE Mine(cs, t) = {}
    BY <1>0, <1>1 DEF ThreadRight
  <1>2. CASE Mine(cs, t) # {}
    <2>1. Counted(s, t, cs) /\ Matched(s.ci, cs, at, Mine(cs, t), TRUE) /\ Waiting(s)
      BY <1>0, <1>2 DEF ThreadRight
    <2>2. NnyUpTo(cs2, t, Len(cs2)) = NnyUpTo(cs, t, Len(cs))
      <3>1. DOMAIN cs = 1 .. Len(cs) /\ DOMAIN cs2 = 1 .. Len(cs2)
        BY StackSeq
      <3>2. Nnys(cs, t, Len(cs)) = {i \in Mine(cs, t) : cs[i].nny = 1}
        BY <3>1 DEF Nnys, Mine
      <3>3. Nnys(cs2, t, Len(cs2)) = {i \in Mine(cs2, t) : cs2[i].nny = 1}
        BY <3>1 DEF Nnys, Mine
      <3>4. {i \in Mine(cs2, t) : cs2[i].nny = 1} = {i \in Mine(cs, t) : cs[i].nny = 1}
        BY <1>0
      <3> QED
        BY <3>2, <3>3, <3>4 DEF NnyUpTo
    <2>3. Counted(s, t, cs2)
      BY <1>0, <2>1, <2>2 DEF Counted
    <2>4. Matched(s.ci, cs2, at2, Mine(cs2, t), TRUE)
      <3>1. Places(s.ci, cs2, at2, Mine(cs2, t))
        BY <1>0, <2>1 DEF Matched, Places
      <3>2. Callers(s.ci, cs2, at2, Mine(cs2, t))
        BY <1>0, <2>1 DEF Matched, Callers
      <3>3. Begun(s.ci, cs2, at2, Mine(cs2, t))
        BY <1>0, <2>1 DEF Matched, Begun
      <3>4. Handled(s.ci, cs2, at2, Mine(cs2, t), TRUE) /\ Continuable(s.ci, cs2, at2, Mine(cs2, t), TRUE)
        BY <1>0, <2>1 DEF Matched, Handled, Continuable
      <3>5. Protecting(s.ci, cs2, at2, Mine(cs2, t))
        BY <1>0, <2>1 DEF Matched, Protecting
      <3> QED
        BY <2>1, <3>1, <3>2, <3>3, <3>4, <3>5 DEF Matched
    <2> QED
      BY <1>0, <1>2, <2>1, <2>3, <2>4 DEF ThreadRight
  <1> QED
    BY <1>1, <1>2

\* luaD_throw() jumps to the buffer below the last C call.
LEMMA JumpIsLast ==
    ASSUME StackRight(cstack)
    PROVE  IsJump(cstack, Len(cstack), Jump(Thread))
  <1>1. /\ Len(cstack) \in Nat \ {0} /\ DOMAIN cstack = 1 .. Len(cstack)
        /\ Thread = cstack[Len(cstack)].thread
    BY StackSeq DEF Thread
  <1>2. PICK j \in Nat : IsJump(cstack, Len(cstack), j)
    BY <1>1 DEF StackRight, EntryRight
  <1> DEFINE jumps == {i \in DOMAIN cstack : cstack[i].thread = Thread /\ cstack[i].f # "call"}
  <1>3. j \in jumps
    BY <1>1, <1>2 DEF IsJump
  <1>4. \A i \in jumps : i <= j
    BY <1>1, <1>2 DEF IsJump
  <1>5. \A i \in jumps : (\A k \in jumps : k <= i) => i = j
    <2>1. jumps \subseteq Nat
      BY <1>1
    <2> HIDE DEF jumps
    <2> QED
      BY <1>3, <1>4, <2>1
  <1>6. Jump(Thread) = j
    <2>1. Jump(Thread) = CHOOSE i \in jumps : \A k \in jumps : k <= i
      BY DEF Jump
    <2> HIDE DEF jumps
    <2> QED
      BY <1>3, <1>4, <1>5, <2>1
  <1> QED
    BY <1>2, <1>6

----------------------------------------------------------------------------
(* The CallInfos of a thread and its C calls.                              *)

LEMMA FramesAreCallInfos ==
    /\ \A b \in BOOLEAN : /\ LuaFunction(b) \in CallInfos /\ LuaFunction(b).f = "lua"
                          /\ LuaFunction(b).reentry = b /\ ~LuaFunction(b).hooked
                          /\ ~LuaFunction(b).ypcall
    /\ \A f \in {"c", "yield", "resume", "wrap"} \union Protected :
          /\ CFunction(f) \in CallInfos /\ CFunction(f).f = f /\ ~CFunction(f).reentry
          /\ ~CFunction(f).hooked /\ ~CFunction(f).ypcall
  BY DEF LuaFunction, CFunction, CallInfo, CallInfos, Protected

\* What is below a place is not changed by what is above it.
LEMMA PrefixOf ==
    ASSUME NEW ci \in Seq(CallInfos), NEW k \in 0 .. Len(ci), NEW ci2, ci2 = SubSeq(ci, 1, k)
    PROVE  /\ ci2 \in Seq(CallInfos) /\ Len(ci2) = k /\ DOMAIN ci2 = 1 .. k
           /\ \A d \in 1 .. k : ci2[d] = ci[d]
           /\ \A n \in 0 .. k : Unhooked(ci2, n) <=> Unhooked(ci, n)
           /\ InfosRight(ci) => InfosRight(ci2)
  <1>1. DOMAIN ci = 1 .. Len(ci) /\ Len(ci) \in Nat /\ \A d \in 1 .. k : ci[d] \in CallInfos
    OBVIOUS
  <1>2. /\ ci2 \in Seq(CallInfos) /\ Len(ci2) = k /\ DOMAIN ci2 = 1 .. k
        /\ \A d \in 1 .. k : ci2[d] = ci[d]
    <2>1. /\ SubSeq(ci, 1, k) \in Seq(CallInfos)
          /\ Len(SubSeq(ci, 1, k)) = IF 1 <= k THEN k - 1 + 1 ELSE 0
          /\ \A i \in 1 .. k - 1 + 1 : SubSeq(ci, 1, k)[i] = ci[1 + i - 1]
      BY <1>1, SubSeqProperties, 1 \in Int, k \in Int
    <2> QED
      BY <2>1, <1>1
  <1>3. \A n \in 0 .. k : Unhooked(ci2, n) <=> Unhooked(ci, n)
    BY <1>1, <1>2 DEF Unhooked
  <1>4. ASSUME InfosRight(ci)
        PROVE  InfosRight(ci2)
    <2> SUFFICES ASSUME NEW d \in DOMAIN ci2
                 PROVE  /\ ci2[d].f # "lua" \/ ci2[d].reentry => d > 1 /\ ci2[d - 1].f = "lua"
                        /\ ci2[d].f # "lua" => ~ci2[d].hooked /\ ~ci2[d].reentry
                        /\ ci2[d].ypcall => /\ ci2[d].f \in Protected /\ ci2[d].k
                                            /\ ci2[d].oldAllowhook <=> Unhooked(ci2, d)
      BY DEF InfosRight
    <2>1. d \in DOMAIN ci /\ ci2[d] = ci[d] /\ (d > 1 => ci2[d - 1] = ci[d - 1]) /\ d \in 0 .. k
      BY <1>1, <1>2
    <2>2. Unhooked(ci2, d) <=> Unhooked(ci, d)
      BY <1>3, <2>1
    <2> QED
      BY <1>4, <2>1, <2>2 DEF InfosRight
  <1> QED
    BY <1>2, <1>3, <1>4

LEMMA LongerBy ==
    ASSUME NEW ci \in Seq(CallInfos), NEW c \in CallInfos, NEW ci2, ci2 = Append(ci, c)
    PROVE  /\ ci2 \in Seq(CallInfos) /\ Len(ci2) = Len(ci) + 1 /\ DOMAIN ci2 = 1 .. Len(ci) + 1
           /\ ci2 # << >> /\ ci2[Len(ci) + 1] = c
           /\ \A d \in 1 .. Len(ci) : ci2[d] = ci[d]
           /\ \A n \in 0 .. Len(ci) : Unhooked(ci2, n) <=> Unhooked(ci, n)
           /\ ~c.hooked => (Unhooked(ci2, Len(ci2)) <=> Unhooked(ci, Len(ci)))
           /\ InfosRight(ci) /\ (c.f # "lua" \/ c.reentry => ci # << >> /\ ci[Len(ci)].f = "lua")
              /\ (c.f # "lua" => ~c.hooked /\ ~c.reentry)
              /\ (c.ypcall => c.f \in Protected /\ c.k /\ (c.oldAllowhook <=> Unhooked(ci, Len(ci))))
              => InfosRight(ci2)
  <1>1. DOMAIN ci = 1 .. Len(ci) /\ Len(ci) \in Nat /\ (ci # << >> => Len(ci) > 0)
    BY EmptySeq
  <1>2. /\ ci2 \in Seq(CallInfos) /\ Len(ci2) = Len(ci) + 1 /\ DOMAIN ci2 = 1 .. Len(ci) + 1
        /\ ci2 # << >> /\ ci2[Len(ci) + 1] = c
        /\ \A d \in 1 .. Len(ci) : ci2[d] = ci[d]
    BY <1>1, AppendProperties
  <1>3. \A n \in 0 .. Len(ci) : Unhooked(ci2, n) <=> Unhooked(ci, n)
    BY <1>1, <1>2 DEF Unhooked
  <1>4. ~c.hooked => (Unhooked(ci2, Len(ci2)) <=> Unhooked(ci, Len(ci)))
    BY <1>1, <1>2 DEF Unhooked
  <1>5. ASSUME InfosRight(ci), c.f # "lua" \/ c.reentry => ci # << >> /\ ci[Len(ci)].f = "lua",
               c.f # "lua" => ~c.hooked /\ ~c.reentry,
               c.ypcall => c.f \in Protected /\ c.k /\ (c.oldAllowhook <=> Unhooked(ci, Len(ci)))
        PROVE  InfosRight(ci2)
    <2> SUFFICES ASSUME NEW d \in DOMAIN ci2
                 PROVE  /\ ci2[d].f # "lua" \/ ci2[d].reentry => d > 1 /\ ci2[d - 1].f = "lua"
                        /\ ci2[d].f # "lua" => ~ci2[d].hooked /\ ~ci2[d].reentry
                        /\ ci2[d].ypcall => /\ ci2[d].f \in Protected /\ ci2[d].k
                                            /\ ci2[d].oldAllowhook <=> Unhooked(ci2, d)
      BY DEF InfosRight
    <2>1. CASE d \in DOMAIN ci
      <3>1. ci2[d] = ci[d] /\ (d > 1 => ci2[d - 1] = ci[d - 1]) /\ d \in 0 .. Len(ci)
        BY <1>1, <1>2, <2>1
      <3>2. Unhooked(ci2, d) <=> Unhooked(ci, d)
        BY <1>3, <3>1
      <3> QED
        BY <1>5, <2>1, <3>1, <3>2 DEF InfosRight
    <2>2. CASE d \notin DOMAIN ci
      <3>1. d = Len(ci) + 1 /\ ci2[d] = c /\ d = Len(ci2)
        BY <1>1, <1>2, <2>2
      <3>2. ci # << >> => d > 1 /\ ci2[d - 1] = ci[Len(ci)]
        <4>1. ci # << >> => Len(ci) \in 1 .. Len(ci)
          BY <1>1
        <4>2. d - 1 = Len(ci) /\ (ci # << >> => d > 1)
          BY <1>1, <3>1
        <4> QED
          BY <1>2, <4>1, <4>2
      <3>3. c.ypcall => ~c.hooked
        BY <1>5 DEF Protected
      <3> QED
        BY <1>4, <1>5, <3>1, <3>2, <3>3
    <2> QED
      BY <2>1, <2>2
  <1> QED
    BY <1>2, <1>3, <1>4, <1>5

\* As long as the C call made last is within the limits, the thread is in what
\* it has begun.
LEMMA AllBegun ==
    ASSUME NEW cs, StackRight(cs), NEW t, NEW ci \in Seq(CallInfos), ci # << >>,
           NEW at \in [Nat -> Nat], NEW loose, Matched(ci, cs, at, Mine(cs, t), loose),
           NEW m \in Mine(cs, t), Fits(m), \A i \in Mine(cs, t) : i <= m
    PROVE  \A i \in Mine(cs, t) : at[i] \in Nat /\ at[i] < Len(ci)
  <1>1. DOMAIN cs = 1 .. Len(cs) /\ Len(cs) \in Nat /\ Len(ci) \in Nat /\ Len(ci) > 0
    BY StackSeq, EmptySeq
  <1>2. \A i \in Mine(cs, t) : i \in Nat /\ at[i] \in Nat
    BY <1>1 DEF Mine
  <1>3. at[m] < Len(ci)
    <2>1. CASE cs[m].f = "resume"
      BY <1>1, <1>2, <2>1 DEF Matched, Callers
    <2>2. CASE cs[m].f # "resume"
      BY <2>2 DEF Matched, Places
    <2> QED
      BY <2>1, <2>2
  <1> SUFFICES ASSUME NEW i \in Mine(cs, t), i # m
               PROVE  at[i] < Len(ci)
    BY <1>2, <1>3
  <1>4. i < m
    BY <1>2
  <1>5. at[i] <= at[m]
    BY <1>2, <1>4 DEF Matched, Places
  <1> QED
    BY <1>1, <1>2, <1>3, <1>5

\* The C call n, "e", joins those of a thread, which had made "mine"; it begins
\* above c CallInfos.
Joins(e, n, c, cs, cs2, at, at2, mine) ==
    /\ n \in Nat /\ n > 1 /\ mine \subseteq 1 .. n - 1 /\ c \in Nat \ {0}
    /\ cs2[n] = e /\ at2[n] = c
    /\ \A i \in mine : cs2[i] = cs[i] /\ at2[i] = at[i] /\ at[i] \in 0 .. c

\* A Lua function is begun, if there is room.
Grows(ci, ci2, fits) ==
    /\ DOMAIN ci = 1 .. Len(ci) /\ DOMAIN ci2 = 1 .. Len(ci2) /\ Len(ci) \in Nat \ {0}
    /\ Len(ci2) = IF fits THEN Len(ci) + 1 ELSE Len(ci)
    /\ \A d \in 1 .. Len(ci) : ci2[d] = ci[d]
    /\ fits => LET c == ci2[Len(ci) + 1] IN c.f = "lua" /\ ~c.reentry /\ ~c.hooked
    /\ \A d \in 0 .. Len(ci) : Unhooked(ci2, d) <=> Unhooked(ci, d)

LEMMA EnterPlaces ==
    ASSUME NEW e, NEW n, NEW cs, NEW cs2, NEW at, NEW at2, NEW mine, NEW ci, NEW ci2,
           Joins(e, n, Len(ci), cs, cs2, at, at2, mine), Grows(ci, ci2, Fits(n)),
           Places(ci, cs, at, mine),
           \A i \in mine : at[i] < Len(ci) \/ (~Fits(i) /\ IsCall(e, "errormsg"))
    PROVE  Places(ci2, cs2, at2, mine \union {n})
  <1> DEFINE mine2 == mine \union {n}
  <1>1. \A i \in mine2 : at2[i] <= Len(ci2)
    BY DEF Joins, Grows
  <1>2. ASSUME NEW i \in mine2, NEW j \in mine2, i < j
        PROVE  \/ at2[i] < at2[j]
               \/ ~Fits(i) /\ IsCall(cs2[j], "errormsg") /\ at2[i] <= at2[j]
    <2>1. i \in mine
      BY <1>2 DEF Joins
    <2>2. CASE j \in mine
      BY <1>2, <2>1, <2>2 DEF Joins, Places
    <2>3. CASE j = n
      BY <2>1, <2>3 DEF Joins
    <2> QED
      BY <2>2, <2>3
  <1>3. ASSUME NEW i \in mine2, Fits(i), cs2[i].f # "resume"
        PROVE  at2[i] < Len(ci2) /\ ci2[at2[i] + 1].f = "lua" /\ ~ci2[at2[i] + 1].reentry
    <2>1. CASE i = n
      BY <1>3, <2>1 DEF Joins, Grows
    <2>2. CASE i \in mine
      <3>1. at[i] < Len(ci) /\ ci[at[i] + 1].f = "lua" /\ ~ci[at[i] + 1].reentry
        BY <1>3, <2>2 DEF Joins, Places
      <3>2. at2[i] = at[i] /\ at[i] + 1 \in 1 .. Len(ci) /\ Len(ci) <= Len(ci2)
        BY <2>2, <3>1 DEF Joins, Grows
      <3>3. ci2[at[i] + 1] = ci[at[i] + 1]
        BY <3>2 DEF Grows
      <3>4. at2[i] < Len(ci2)
        BY <2>2, <3>1, <3>2 DEF Joins, Grows
      <3> QED
        BY <3>1, <3>2, <3>3, <3>4
    <2> QED
      BY <2>1, <2>2
  <1> QED
    BY <1>1, <1>2, <1>3 DEF Places

LEMMA EnterCallers ==
    ASSUME NEW e, NEW n, NEW cs, NEW cs2, NEW at, NEW at2, NEW mine, NEW ci, NEW ci2, NEW fits,
           Joins(e, n, Len(ci), cs, cs2, at, at2, mine), Grows(ci, ci2, fits),
           Callers(ci, cs, at, mine), cs[1].f = "pcall", e.f # "resume",
           IsCall(e, "operation") => ci[Len(ci)].f = "lua",
           OfFunction(e) => ci[Len(ci)].f # "lua",
           e.f = "pcall" => /\ e.ci = Len(ci) /\ (e.allowhook <=> Unhooked(ci, Len(ci)))
                            /\ ci[Len(ci)].f \in Protected /\ ~ci[Len(ci)].ypcall
    PROVE  Callers(ci2, cs2, at2, mine \union {n})
  <1> SUFFICES ASSUME NEW i \in mine \union {n}
               PROVE  /\ cs2[i].f = "resume" \/ i = 1 <=> at2[i] = 0
                      /\ IsCall(cs2[i], "operation") => ci2[at2[i]].f = "lua"
                      /\ OfFunction(cs2[i]) /\ i # 1 => ci2[at2[i]].f # "lua"
                      /\ cs2[i].f = "pcall" =>
                            /\ cs2[i].ci = at2[i]
                            /\ cs2[i].allowhook <=> Unhooked(ci2, at2[i])
                            /\ i # 1 => ci2[at2[i]].f \in Protected /\ ~ci2[at2[i]].ypcall
    BY DEF Callers
  <1>1. CASE i = n
    <2>1. at2[i] = Len(ci) /\ cs2[i] = e /\ Len(ci) # 0 /\ i # 1
      BY <1>1 DEF Joins
    <2>2. ci2[Len(ci)] = ci[Len(ci)] /\ (Unhooked(ci2, Len(ci)) <=> Unhooked(ci, Len(ci)))
      BY DEF Grows
    <2> QED
      BY <2>1, <2>2
  <1>2. CASE i \in mine
    <2>1. at2[i] = at[i] /\ cs2[i] = cs[i] /\ at[i] \in 0 .. Len(ci)
      BY <1>2 DEF Joins
    <2>2. at[i] # 0 => ci2[at[i]] = ci[at[i]]
      BY <2>1 DEF Grows
    <2>3. Unhooked(ci2, at[i]) <=> Unhooked(ci, at[i])
      BY <2>1 DEF Grows
    <2>4. /\ cs[i].f = "resume" \/ i = 1 <=> at[i] = 0
          /\ IsCall(cs[i], "operation") => ci[at[i]].f = "lua"
          /\ OfFunction(cs[i]) /\ i # 1 => ci[at[i]].f # "lua"
          /\ cs[i].f = "pcall" =>
                /\ cs[i].ci = at[i]
                /\ cs[i].allowhook <=> Unhooked(ci, at[i])
                /\ i # 1 => ci[at[i]].f \in Protected /\ ~ci[at[i]].ypcall
      BY <1>2 DEF Callers
    <2>5. i = 1 => ~IsCall(cs[i], "operation")
      BY DEF IsCall
    <2>6. cs[i].f = "resume" => ~OfFunction(cs[i]) /\ ~IsCall(cs[i], "operation") /\ cs[i].f # "pcall"
      BY DEF OfFunction, IsCall
    <2>7. CASE at[i] = 0
      BY <2>1, <2>3, <2>4, <2>5, <2>6, <2>7
    <2>8. CASE at[i] # 0
      BY <2>1, <2>2, <2>3, <2>4, <2>8
    <2> QED
      BY <2>7, <2>8
  <1> QED
    BY <1>1, <1>2

LEMMA EnterBegun ==
    ASSUME NEW e, NEW n, NEW cs, NEW cs2, NEW at, NEW at2, NEW mine, NEW ci, NEW ci2,
           Joins(e, n, Len(ci), cs, cs2, at, at2, mine), Grows(ci, ci2, Fits(n)),
           Begun(ci, cs, at, mine), e.f # "resume"
    PROVE  Begun(ci2, cs2, at2, mine \union {n})
  <1> SUFFICES ASSUME NEW d \in DOMAIN ci2, ci2[d].f = "lua", ~ci2[d].reentry
               PROVE  \/ \E i \in mine \union {n} : Fits(i) /\ cs2[i].f # "resume" /\ at2[i] + 1 = d
                      \/ \A i \in mine \union {n} : cs2[i].f # "resume" => d <= at2[i]
    BY DEF Begun
  <1>1. CASE d <= Len(ci)
    <2>1. ci2[d] = ci[d] /\ d \in DOMAIN ci /\ d <= at2[n]
      BY <1>1 DEF Joins, Grows
    <2>2. \/ \E i \in mine : Fits(i) /\ cs[i].f # "resume" /\ at[i] + 1 = d
          \/ \A i \in mine : cs[i].f # "resume" => d <= at[i]
      BY <2>1 DEF Begun
    <2> QED
      BY <2>1, <2>2 DEF Joins
  <1>2. CASE ~(d <= Len(ci))
    <2>1. Fits(n) /\ d = Len(ci) + 1
      BY <1>2 DEF Grows
    <2> QED
      BY <2>1 DEF Joins
  <1> QED
    BY <1>1, <1>2

LEMMA EnterHandled ==
    ASSUME NEW e, NEW n, NEW cs, NEW cs2, NEW at, NEW at2, NEW mine, NEW ci, NEW ci2,
           Joins(e, n, Len(ci), cs, cs2, at, at2, mine), Grows(ci, ci2, Fits(n)),
           Handled(ci, cs, at, mine, TRUE), ci[Len(ci)].hooked => IsCall(e, "errormsg")
    PROVE  Handled(ci2, cs2, at2, mine \union {n}, ~Fits(n))
  <1> SUFFICES ASSUME NEW d \in DOMAIN ci2, ci2[d].hooked
               PROVE  \/ ~Fits(n) /\ d = Len(ci2)
                      \/ \E i \in mine \union {n} :
                            Fits(i) /\ IsCall(cs2[i], "errormsg") /\ at2[i] = d
    BY DEF Handled
  <1>1. d \in DOMAIN ci /\ ci2[d] = ci[d]
    BY DEF Grows
  <1>2. \/ d = Len(ci)
        \/ \E i \in mine : Fits(i) /\ IsCall(cs[i], "errormsg") /\ at[i] = d
    BY <1>1 DEF Handled
  <1>3. CASE d = Len(ci)
    <2>1. IsCall(cs2[n], "errormsg") /\ at2[n] = d
      BY <1>1, <1>3 DEF Joins
    <2>2. ~Fits(n) => d = Len(ci2)
      BY <1>3 DEF Grows
    <2> QED
      BY <2>1, <2>2
  <1> QED
    BY <1>2, <1>3 DEF Joins

LEMMA EnterContinuable ==
    ASSUME NEW e, NEW n, NEW cs, NEW cs2, NEW at, NEW at2, NEW mine, NEW ci, NEW ci2,
           Joins(e, n, Len(ci), cs, cs2, at, at2, mine), Grows(ci, ci2, Fits(n)),
           Continuable(ci, cs, at, mine, TRUE),
           ci[Len(ci)].f # "lua" => ci[Len(ci)].k \/ e.nny = 1 \/ ~Fits(n)
    PROVE  Continuable(ci2, cs2, at2, mine \union {n}, ~Fits(n))
  <1> SUFFICES ASSUME NEW d \in DOMAIN ci2, ci2[d].f # "lua"
               PROVE  \/ ci2[d].k
                      \/ ~Fits(n) /\ d = Len(ci2)
                      \/ \E i \in mine \union {n} : Fits(i) /\ cs2[i].nny = 1 /\ at2[i] = d
    BY DEF Continuable
  <1>1. d \in DOMAIN ci /\ ci2[d] = ci[d]
    BY DEF Grows
  <1>2. \/ d = Len(ci)
        \/ ci[d].k
        \/ \E i \in mine : Fits(i) /\ cs[i].nny = 1 /\ at[i] = d
    BY <1>1 DEF Continuable
  <1>3. CASE d = Len(ci)
    <2>1. cs2[n] = e /\ at2[n] = d
      BY <1>3 DEF Joins
    <2>2. ~Fits(n) => d = Len(ci2)
      BY <1>3 DEF Grows
    <2> QED
      BY <1>1, <1>3, <2>1, <2>2
  <1> QED
    BY <1>1, <1>2, <1>3 DEF Joins

LEMMA EnterProtecting ==
    ASSUME NEW cs, NEW at, NEW mine, NEW ci, NEW ci2, NEW fits,
           Grows(ci, ci2, fits), Protecting(ci, cs, at, mine)
    PROVE  Protecting(ci2, cs, at, mine)
  <1>1. \A d \in DOMAIN ci2 : ci2[d].f \in Protected => d \in DOMAIN ci /\ ci2[d] = ci[d]
    BY DEF Protected, Grows
  <1> QED
    BY <1>1 DEF Protecting

\* What must hold where a C call begins, of the CallInfos below it.
MayEnter(e, n, ci, cs, at, mine) ==
    /\ InfosRight(ci) /\ Places(ci, cs, at, mine) /\ Callers(ci, cs, at, mine)
    /\ Begun(ci, cs, at, mine) /\ Handled(ci, cs, at, mine, TRUE)
    /\ Continuable(ci, cs, at, mine, TRUE)
    /\ \A i \in mine : at[i] < Len(ci) \/ (~Fits(i) /\ IsCall(e, "errormsg"))
    /\ IsCall(e, "operation") => ci[Len(ci)].f = "lua"
    /\ OfFunction(e) => ci[Len(ci)].f # "lua"
    /\ e.f = "pcall" => /\ e.ci = Len(ci) /\ (e.allowhook <=> Unhooked(ci, Len(ci)))
                        /\ ci[Len(ci)].f \in Protected /\ ~ci[Len(ci)].ypcall
    /\ ci[Len(ci)].hooked => IsCall(e, "errormsg")
    /\ ci[Len(ci)].f # "lua" => ci[Len(ci)].k \/ e.nny = 1 \/ ~Fits(n)
    /\ \A d \in DOMAIN ci : ci[d].f \in Protected =>
          \/ ci[d].ypcall /\ \A i \in mine : cs[i].nny = 1 \/ cs[i].f = "pcall" => d <= at[i]
          \/ ~ci[d].ypcall /\ \E i \in mine : cs[i].f = "pcall" /\ at[i] = d
          \/ ~ci[d].ypcall /\ e.f = "pcall" /\ d = Len(ci)

LEMMA FunctionGrows ==
    ASSUME NEW ci \in Seq(CallInfos), ci # << >>, InfosRight(ci), NEW fits,
           NEW ci2, fits => ci2 = Append(ci, LuaFunction(FALSE)), ~fits => ci2 = ci
    PROVE  /\ Grows(ci, ci2, fits) /\ ci2 \in Seq(CallInfos) /\ ci2 # << >>
           /\ Unhooked(ci2, Len(ci2)) <=> Unhooked(ci, Len(ci))
           /\ InfosRight(ci2)
           /\ fits => ci2[Len(ci2)].f = "lua"
  <1>1. DOMAIN ci = 1 .. Len(ci) /\ Len(ci) \in Nat \ {0}
    BY EmptySeq
  <1>2. CASE fits
    <2>1. PICK c \in CallInfos : /\ c = LuaFunction(FALSE) /\ ci2 = Append(ci, c)
                                 /\ c.f = "lua" /\ ~c.reentry /\ ~c.hooked /\ ~c.ypcall
      BY <1>2, FramesAreCallInfos
    <2>2. /\ ci2 \in Seq(CallInfos) /\ Len(ci2) = Len(ci) + 1 /\ DOMAIN ci2 = 1 .. Len(ci) + 1
          /\ ci2 # << >> /\ ci2[Len(ci) + 1] = c
          /\ \A d \in 1 .. Len(ci) : ci2[d] = ci[d]
      <3>1. ci2 \in Seq(CallInfos) /\ Len(ci2) = Len(ci) + 1
        BY <2>1, AppendProperties
      <3>4. DOMAIN ci2 = 1 .. Len(ci) + 1
        BY <3>1
      <3>2. ci2 # << >> /\ ci2[Len(ci) + 1] = c
        BY <2>1, LongerBy
      <3>3. \A d \in 1 .. Len(ci) : ci2[d] = ci[d]
        BY <2>1, LongerBy
      <3> QED
        BY <3>1, <3>2, <3>3, <3>4
    <2>3. \A d \in 0 .. Len(ci) : Unhooked(ci2, d) <=> Unhooked(ci, d)
      BY <2>1, LongerBy
    <2>4. Unhooked(ci2, Len(ci2)) <=> Unhooked(ci, Len(ci))
      BY <2>1, LongerBy
    <2>5. InfosRight(ci2)
      BY <2>1, LongerBy
    <2>6. Grows(ci, ci2, fits)
      BY <1>1, <1>2, <2>1, <2>2, <2>3 DEF Grows
    <2> QED
      BY <1>2, <2>1, <2>2, <2>4, <2>5, <2>6
  <1>3. CASE ~fits
    BY <1>1, <1>3 DEF Grows
  <1> QED
    BY <1>2, <1>3

\* luaD_call() of a Lua function keeps the CallInfos and the C calls together.
Deeper(n, c, at, at2) == Depths(at) /\ at2 = [at EXCEPT ![n] = c]
Begins(ci, ci2, n) ==
    /\ ci \in Seq(CallInfos) /\ ci # << >>
    /\ ci2 = IF Fits(n) THEN Append(ci, LuaFunction(FALSE)) ELSE ci

LEMMA LuaOnTop ==
    ASSUME NEW ci \in Seq(CallInfos), NEW ci2, ci2 = Append(ci, LuaFunction(FALSE))
    PROVE  ci2[Len(ci2)].f = "lua"
  <1>1. PICK c \in CallInfos : c = LuaFunction(FALSE) /\ c.f = "lua"
    BY FramesAreCallInfos
  <1>2. Len(ci2) = Len(ci) + 1 /\ ci2[Len(ci) + 1] = c
    BY <1>1, AppendProperties
  <1> QED
    BY <1>1, <1>2

LEMMA DeeperIs ==
    ASSUME NEW at, Depths(at), NEW n, n \in Nat, NEW c, c \in Nat
    PROVE  \E at2 : /\ Deeper(n, c, at, at2) /\ Depths(at2)
  <1> DEFINE at2 == [at EXCEPT ![n] = c]
  <1>1. at2 \in [Nat -> Nat]
    BY DEF Depths
  <1> QED
    BY <1>1 DEF Deeper, Depths

LEMMA EnterMatched ==
    ASSUME NEW cs, NEW t, NEW n, NEW e, NEW cs2, NEW at, NEW at2, NEW ci, NEW ci2,
           StackRight(cs), n = Len(cs) + 1, OnTop(e, n, cs, cs2), e.f # "resume",
           Deeper(n, Len(ci), at, at2), Begins(ci, ci2, n),
           MayEnter(e, n, ci, cs, at, Mine(cs, t))
    PROVE  /\ ci2 \in Seq(CallInfos) /\ ci2 # << >>
           /\ Unhooked(ci2, Len(ci2)) <=> Unhooked(ci, Len(ci))
           /\ Matched(ci2, cs2, at2, Mine(cs, t) \union {n}, TRUE)
           /\ Fits(n) => Matched(ci2, cs2, at2, Mine(cs, t) \union {n}, FALSE)
           /\ Fits(n) => ci2[Len(ci2)].f = "lua"
  <1>1. DOMAIN cs = 1 .. Len(cs) /\ Len(cs) \in Nat \ {0} /\ n \in Nat /\ n > 1
    BY StackSeq
  <1>2. DOMAIN ci = 1 .. Len(ci) /\ Len(ci) \in Nat \ {0}
    BY EmptySeq DEF Begins
  <1>3. Mine(cs, t) \subseteq 1 .. n - 1
    BY <1>1 DEF Mine
  <1> DEFINE mine == Mine(cs, t)
  <1>4. Joins(e, n, Len(ci), cs, cs2, at, at2, mine)
    <2>1. \A i \in mine : cs2[i] = cs[i] /\ i \in Nat /\ i # n
      <3>1. \A i \in mine : cs2[i] = cs[i]
        BY DEF Mine, OnTop
      <3>2. \A i \in 1 .. n - 1 : i \in Nat /\ i # n
        BY <1>1
      <3> QED
        BY <1>3, <3>1, <3>2
    <2>2. at2[n] = Len(ci) /\ \A i \in mine : at2[i] = at[i] /\ at[i] \in Nat
      BY <1>1, <2>1 DEF Deeper, Depths
    <2>3. \A i \in mine : at[i] <= Len(ci)
      BY DEF MayEnter, Places
    <2> QED
      BY <1>1, <1>2, <1>3, <2>1, <2>2, <2>3 DEF Joins, OnTop
  <1>5. /\ Grows(ci, ci2, Fits(n)) /\ ci2 \in Seq(CallInfos) /\ ci2 # << >>
        /\ Unhooked(ci2, Len(ci2)) <=> Unhooked(ci, Len(ci))
        /\ InfosRight(ci2)
        /\ Fits(n) => ci2[Len(ci2)].f = "lua"
    <2>1. InfosRight(ci)
      BY DEF MayEnter
    <2> QED
      BY <2>1, FunctionGrows DEF Begins
  <1>6. Places(ci2, cs2, at2, mine \union {n})
    BY <1>4, <1>5, EnterPlaces DEF MayEnter
  <1>7. Callers(ci2, cs2, at2, mine \union {n})
    <2>1. cs[1].f = "pcall"
      BY DEF StackRight
    <2>2. /\ Callers(ci, cs, at, mine)
          /\ IsCall(e, "operation") => ci[Len(ci)].f = "lua"
          /\ OfFunction(e) => ci[Len(ci)].f # "lua"
          /\ e.f = "pcall" => /\ e.ci = Len(ci) /\ (e.allowhook <=> Unhooked(ci, Len(ci)))
                              /\ ci[Len(ci)].f \in Protected /\ ~ci[Len(ci)].ypcall
      BY DEF MayEnter
    <2> QED
      BY <1>4, <1>5, <2>1, <2>2, EnterCallers
  <1>8. Begun(ci2, cs2, at2, mine \union {n})
    BY <1>4, <1>5, EnterBegun DEF MayEnter
  <1>9. Handled(ci2, cs2, at2, mine \union {n}, ~Fits(n))
    BY <1>4, <1>5, EnterHandled DEF MayEnter
  <1>10. Continuable(ci2, cs2, at2, mine \union {n}, ~Fits(n))
    BY <1>4, <1>5, EnterContinuable DEF MayEnter
  <1>11. Protecting(ci, cs2, at2, mine \union {n})
    <2> SUFFICES ASSUME NEW d \in DOMAIN ci, ci[d].f \in Protected
                 PROVE  \/ /\ ci[d].ypcall
                           /\ \A i \in mine \union {n} : cs2[i].nny = 1 \/ cs2[i].f = "pcall" => d <= at2[i]
                        \/ ~ci[d].ypcall /\ \E i \in mine \union {n} : cs2[i].f = "pcall" /\ at2[i] = d
      BY DEF Protecting
    <2>1. d <= Len(ci)
      BY <1>2
    <2>2. \/ ci[d].ypcall /\ \A i \in mine : cs[i].nny = 1 \/ cs[i].f = "pcall" => d <= at[i]
          \/ ~ci[d].ypcall /\ \E i \in mine : cs[i].f = "pcall" /\ at[i] = d
          \/ ~ci[d].ypcall /\ e.f = "pcall" /\ d = Len(ci)
      BY DEF MayEnter
    <2> QED
      BY <1>4, <2>1, <2>2 DEF Joins
  <1>12. Protecting(ci2, cs2, at2, mine \union {n})
    BY <1>5, <1>11, EnterProtecting
  <1>13. /\ Matched(ci2, cs2, at2, mine \union {n}, TRUE)
         /\ Fits(n) => Matched(ci2, cs2, at2, mine \union {n}, FALSE)
    BY <1>5, <1>6, <1>7, <1>8, <1>9, <1>10, <1>12 DEF Matched, Handled, Continuable
  <1> QED
    BY <1>5, <1>13

----------------------------------------------------------------------------
(* All threads.                                                            *)

LEMMA MinePush ==
    ASSUME NEW cs, StackRight(cs), NEW n, n = Len(cs) + 1, NEW cs2, DOMAIN cs2 = 1 .. n,
           \A i \in DOMAIN cs : cs2[i] = cs[i]
    PROVE  \A t : Mine(cs2, t) = IF t = cs2[n].thread THEN Mine(cs, t) \union {n} ELSE Mine(cs, t)
  <1>1. DOMAIN cs = 1 .. Len(cs) /\ Len(cs) \in Nat
    BY StackSeq
  <1>2. \A i : i \in DOMAIN cs2 <=> i \in DOMAIN cs \/ i = n
    BY <1>1
  <1> QED
    BY <1>2 DEF Mine

LEMMA MineCut ==
    ASSUME NEW cs, StackRight(cs), NEW k \in 1 .. Len(cs), NEW cs2, DOMAIN cs2 = 1 .. k,
           \A i \in 1 .. k : cs2[i] = cs[i]
    PROVE  \A t : /\ Mine(cs2, t) = {i \in Mine(cs, t) : i <= k}
                  /\ (\A i \in DOMAIN cs : k < i => cs[i].thread # t) => Mine(cs2, t) = Mine(cs, t)
  <1>1. DOMAIN cs = 1 .. Len(cs) /\ Len(cs) \in Nat
    BY StackSeq
  <1>2. \A i : i \in DOMAIN cs2 <=> i \in DOMAIN cs /\ i <= k
    BY <1>1
  <1>3. \A t : Mine(cs2, t) = {i \in Mine(cs, t) : i <= k}
    BY <1>2 DEF Mine
  <1>4. ASSUME NEW t, \A i \in DOMAIN cs : k < i => cs[i].thread # t
        PROVE  \A i \in Mine(cs, t) : i <= k
    BY <1>1, <1>4 DEF Mine
  <1>5. \A t : (\A i \in DOMAIN cs : k < i => cs[i].thread # t) => Mine(cs2, t) = Mine(cs, t)
    BY <1>3, <1>4
  <1> QED
    BY <1>3, <1>5

\* A step is right if it is for the threads that run before and after it, and
\* for any others that it changes.
OnlyFor(changed, ths, ths2, cs, cs2, at, at2) ==
    /\ cs[Len(cs)].thread \in changed /\ cs2[Len(cs2)].thread \in changed
    /\ \A t \in Threads \ changed : /\ ths2[t] = ths[t] /\ Mine(cs2, t) = Mine(cs, t)
                                    /\ \A i \in Mine(cs, t) : cs2[i] = cs[i] /\ at2[i] = at[i]

LEMMA StepRight ==
    ASSUME NEW ths, NEW cs, NEW now, NEW at, NEW ths2, NEW cs2, NEW now2, NEW at2, NEW changed,
           Right(ths, cs, now, at), States(ths2), StackRight(cs2), now2 \in Doings, Depths(at2),
           OnlyFor(changed, ths, ths2, cs, cs2, at, at2),
           \A t \in changed : ThreadRight(t, ths2[t], cs2, now2, at2)
    PROVE  Right(ths2, cs2, now2, at2)
  <1>1. StackRight(cs) /\ \A t \in Threads : ThreadRight(t, ths[t], cs, now, at)
    BY DEF Right
  <1>2. \A t \in Threads \ changed : ThreadRight(t, ths2[t], cs2, now2, at2)
    <2> TAKE t \in Threads \ changed
    <2>1. PICK s : s = ths[t]
      OBVIOUS
    <2>2. ThreadRight(t, s, cs, now, at)
      BY <1>1, <2>1
    <2>3. Idle(t, cs, cs2, at, at2)
      BY DEF OnlyFor, Idle
    <2>4. s = ths2[t]
      BY <2>1 DEF OnlyFor
    <2>5. ThreadRight(t, s, cs2, now2, at2)
      BY <1>1, <2>2, <2>3, OthersKept
    <2> QED
      BY <2>4, <2>5
  <1> QED
    BY <1>2 DEF Right

\* What a call does to the state of its thread.
StateEntered(s, n, m, c) ==
    IF Fits(n) THEN [s EXCEPT !.nCcalls = n, !.nny = @ + m, !.ci = Append(@, c)]
            ELSE [s EXCEPT !.nCcalls = n]

StateDeeper(s, n, m, c, s2) ==
    /\ s \in LuaStates /\ n \in Int /\ m \in {0, 1} /\ c \in CallInfos
    /\ s2 = StateEntered(s, n, m, c)

LEMMA StateEnters ==
    ASSUME NEW s, NEW n, NEW m, NEW c, NEW s2, StateDeeper(s, n, m, c, s2)
    PROVE  /\ s2 \in LuaStates /\ s2.nCcalls = n
           /\ Fits(n) => s2.nny = s.nny + m /\ s2.ci = Append(s.ci, c)
           /\ ~Fits(n) => s2.nny = s.nny /\ s2.ci = s.ci
           /\ s2.status = s.status /\ s2.allowhook = s.allowhook /\ s2.hasFunction = s.hasFunction
  <1>0. /\ s \in LuaStates /\ n \in Int /\ m \in {0, 1} /\ c \in CallInfos
        /\ s2 = StateEntered(s, n, m, c)
    BY DEF StateDeeper
  <1>1. CASE Fits(n)
    <2>1. PICK k \in Int : k = s.nny + m
      BY <1>0 DEF LuaStates
    <2>2. PICK ci : ci = Append(s.ci, c) /\ ci \in Seq(CallInfos)
      BY <1>0, AppendProperties DEF LuaStates
    <2>3. s2 = [s EXCEPT !.nCcalls = n, !.nny = k, !.ci = ci]
      BY <1>0, <1>1, <2>1, <2>2 DEF LuaStates, StateEntered
    <2>4. /\ s2 \in LuaStates /\ s2.nCcalls = n /\ s2.nny = k /\ s2.ci = ci
          /\ s2.status = s.status /\ s2.allowhook = s.allowhook /\ s2.hasFunction = s.hasFunction
      BY <1>0, <2>2, <2>3 DEF LuaStates
    <2> QED
      BY <1>1, <2>1, <2>2, <2>4
  <1>2. CASE ~Fits(n)
    <2>1. /\ s2 \in LuaStates /\ s2.nCcalls = n /\ s2.nny = s.nny /\ s2.ci = s.ci
          /\ s2.status = s.status /\ s2.allowhook = s.allowhook /\ s2.hasFunction = s.hasFunction
      BY <1>0, <1>2 DEF LuaStates, StateEntered
    <2> QED
      BY <1>2, <2>1
  <1> QED
    BY <1>1, <1>2

LEMMA EntryUncounted ==
    ASSUME NEW e \in Entries, e.f # "resume", NEW e2, e2 = [e EXCEPT !.nny = 0]
    PROVE  /\ e2 \in Entries /\ e2.f = e.f /\ e2.thread = e.thread /\ e2.nny = 0
           /\ \A then : IsCall(e2, then) <=> IsCall(e, then)
           /\ OfFunction(e2) <=> OfFunction(e)
           /\ e.f = "pcall" => /\ e2.ci = e.ci /\ e2.allowhook = e.allowhook
                               /\ e2.nCcalls = e.nCcalls /\ e2.oldNny = e.oldNny
  <1>1. CASE e.f = "pcall"
    <2>1. e \in [f : {"pcall"}, thread : Threads, nny : {0, 1}, nCcalls : Int, ci : Nat,
                 allowhook : BOOLEAN, oldNny : Int, errfunc : Nat]
      BY <1>1 DEF Entries
    <2> QED
      BY <1>1, <2>1 DEF Entries, IsCall, OfFunction
  <1>2. CASE e.f # "pcall"
    <2>1. e \in [f : {"call"}, thread : Threads, nny : {0, 1},
                 then : {"operation", "function", "pcall", "errormsg"}]
      BY <1>2 DEF Entries
    <2> QED
      BY <1>2, <2>1 DEF Entries, IsCall, OfFunction
  <1> QED
    BY <1>1, <1>2

\* A thread is there and has made all C calls that it has counted.
LEMMA RunningThread ==
    ASSUME NEW ths, NEW cs, NEW now, NEW at, Right(ths, cs, now, at),
           NEW t, t = cs[Len(cs)].thread, NEW s, s = ths[t]
    PROVE  /\ StackRight(cs) /\ t \in Threads /\ s \in LuaStates /\ now \in Doings
           /\ s.ci \in Seq(CallInfos) /\ s.nny \in Int /\ s.nCcalls = Len(cs) /\ Len(cs) \in Nat \ {0}
           /\ Len(cs) \in Mine(cs, t) /\ Mine(cs, t) \subseteq 1 .. Len(cs)
           /\ Counted(s, t, cs) /\ Running(s, cs, now)
           /\ Matched(s.ci, cs, at, Mine(cs, t), ~Calm(now))
           /\ Depths(at)
           /\ Fits(Len(cs)) /\ s.ci # << >> =>
                 \A i \in Mine(cs, t) : at[i] \in Nat /\ at[i] < Len(s.ci)
  <1>1. StackRight(cs) /\ States(ths) /\ now \in Doings /\ Depths(at)
    BY DEF Right
  <1>2. /\ t \in Threads /\ Len(cs) \in Mine(cs, t) /\ Mine(cs, t) # {}
        /\ Mine(cs, t) \subseteq 1 .. Len(cs)
        /\ Counted(s, t, cs) => s.nCcalls = Len(cs)
    BY <1>1, TopIsMine
  <1>3. Len(cs) \in Nat \ {0}
    BY <1>1, StackSeq
  <1>4. s \in LuaStates /\ ThreadRight(t, s, cs, now, at)
    BY <1>1, <1>2 DEF Right, States
  <1>5. s.ci \in Seq(CallInfos) /\ s.nny \in Int
    BY <1>4 DEF LuaStates
  <1>6. /\ Counted(s, t, cs) /\ Running(s, cs, now)
        /\ Matched(s.ci, cs, at, Mine(cs, t), ~Calm(now))
    <2>1. Counted(s, t, cs) /\ Running(s, cs, now)
          /\ Matched(s.ci, cs, at, Mine(cs, t), t # cs[Len(cs)].thread \/ ~Calm(now))
      BY <1>2, <1>4 DEF ThreadRight
    <2>2. (t # cs[Len(cs)].thread \/ ~Calm(now)) = ~Calm(now)
      BY DEF Calm
    <2> QED
      BY <2>1, <2>2
  <1>7. ASSUME Fits(Len(cs)), s.ci # << >>
        PROVE  \A i \in Mine(cs, t) : at[i] \in Nat /\ at[i] < Len(s.ci)
    <2>1. PICK ci \in Seq(CallInfos) : ci = s.ci
      BY <1>5
    <2>2. \A i \in Mine(cs, t) : i <= Len(cs)
      BY <1>2, <1>3
    <2>3. ci # << >> /\ Matched(ci, cs, at, Mine(cs, t), ~Calm(now))
      BY <1>6, <1>7, <2>1
    <2>4. \A i \in Mine(cs, t) : at[i] \in Nat /\ at[i] < Len(ci)
      BY <1>1, <1>2, <1>7, <2>2, <2>3, AllBegun DEF Depths
    <2> QED
      BY <2>1, <2>4
  <1> QED
    BY <1>1, <1>2, <1>3, <1>4, <1>5, <1>6, <1>7

\* Once the stack is right, loosely matched is all that a thread that is to be
\* thrown something has to be.
LEMMA Loosened ==
    ASSUME NEW ci, NEW cs, NEW at, NEW mine, NEW loose, Matched(ci, cs, at, mine, loose)
    PROVE  Matched(ci, cs, at, mine, TRUE)
  BY DEF Matched, Handled, Continuable

LEMMA RunningRight ==
    ASSUME NEW s, NEW cs, NEW t, t = cs[Len(cs)].thread, Mine(cs, t) # {}, NEW now, NEW at,
           Counted(s, t, cs), Running(s, cs, now),
           Matched(s.ci, cs, at, Mine(cs, t), TRUE),
           Calm(now) => Matched(s.ci, cs, at, Mine(cs, t), FALSE)
    PROVE  ThreadRight(t, s, cs, now, at)
  <1>1. Matched(s.ci, cs, at, Mine(cs, t), t # cs[Len(cs)].thread \/ ~Calm(now))
    BY DEF Matched, Handled, Continuable
  <1> QED
    BY <1>1 DEF ThreadRight

\* The thread t makes the C call n, "e", in the state s.
ReadyToEnter(t, s, e, n, ths, cs, at) ==
    /\ t = cs[Len(cs)].thread /\ s \in LuaStates /\ e \in Entries /\ e.f # "resume" /\ e.thread = t
    /\ n = s.nCcalls + 1 /\ s.nCcalls = ths[t].nCcalls /\ s.nny = ths[t].nny
    /\ ~s.hasFunction /\ s.status = "OK"
    /\ s.ci # << >> /\ (s.allowhook <=> Unhooked(s.ci, Len(s.ci)))
    /\ Fits(n - 1) \/ IsCall(e, "errormsg")
    /\ e.f = "pcall" => e.nCcalls = n - 1 /\ e.oldNny = s.nny
    /\ e.nny = 1 <=> e.f = "pcall" \/ IsCall(e, "function") \/ IsCall(e, "errormsg")
    /\ MayEnter(e, n, s.ci, cs, at, Mine(cs, t))

Entered(t, s, e, n, ths, cs, ths2, cs2, now2) ==
    /\ ths2 = [ths EXCEPT ![t] = StateEntered(s, n, e.nny, LuaFunction(FALSE))]
    /\ cs2 = Append(cs, IF Fits(n) THEN e ELSE [e EXCEPT !.nny = 0])
    /\ now2 = CASE Fits(n) -> [at |-> "lua", status |-> "OK"]
                [] n = MaxCCalls -> [at |-> "errormsg", status |-> "OK"]
                [] OTHER -> [at |-> "throw", status |-> "ERRERR"]

LEMMA EnterRight ==
    ASSUME NEW ths, NEW cs, NEW now, NEW at, Right(ths, cs, now, at),
           NEW t, NEW s, NEW e, NEW n, ReadyToEnter(t, s, e, n, ths, cs, at),
           NEW ths2, NEW cs2, NEW now2, Entered(t, s, e, n, ths, cs, ths2, cs2, now2)
    PROVE  \E at2 : Right(ths2, cs2, now2, at2)
  <1>1. t = cs[Len(cs)].thread /\ n = s.nCcalls + 1 /\ s.nCcalls = ths[t].nCcalls /\ s.nny = ths[t].nny
    BY DEF ReadyToEnter
  <1>2. /\ StackRight(cs) /\ t \in Threads /\ ths[t].nCcalls = Len(cs) /\ Len(cs) \in Nat \ {0}
        /\ Counted(ths[t], t, cs)
    BY <1>1, RunningThread
  <1>3. Len(cs) \in Mine(cs, t) /\ Mine(cs, t) \subseteq 1 .. Len(cs)
    BY <1>1, RunningThread
  <1>4. n = Len(cs) + 1 /\ n \in Nat /\ n - 1 = Len(cs) /\ n > 1
    BY <1>1, <1>2
  <1>5. States(ths) /\ Depths(at)
    BY DEF Right
  <1>6. s.nny = NnyUpTo(cs, t, Len(cs))
    BY <1>1, <1>2 DEF Counted
  <1>7. s \in LuaStates /\ s.status = "OK" /\ ~s.hasFunction /\ s.ci # << >>
        /\ (s.allowhook <=> Unhooked(s.ci, Len(s.ci)))
    BY DEF ReadyToEnter
  <1>8. e \in Entries /\ e.f # "resume" /\ e.thread = t
    BY DEF ReadyToEnter
  <1>9. PICK e2 : e2 = IF Fits(n) THEN e ELSE [e EXCEPT !.nny = 0]
    OBVIOUS
  <1>10. /\ e2 \in Entries /\ e2.f = e.f /\ e2.thread = t
         /\ e2.nny = IF Fits(n) THEN e.nny ELSE 0
         /\ \A then : IsCall(e2, then) <=> IsCall(e, then)
         /\ OfFunction(e2) <=> OfFunction(e)
         /\ e.f = "pcall" => /\ e2.ci = e.ci /\ e2.allowhook = e.allowhook
                             /\ e2.nCcalls = e.nCcalls /\ e2.oldNny = e.oldNny
    <2>1. CASE Fits(n)
      BY <1>8, <1>9, <2>1
    <2>2. CASE ~Fits(n)
      BY <1>8, <1>9, <2>2, EntryUncounted
    <2> QED
      BY <2>1, <2>2
  <1>11. e.nny \in {0, 1}
    BY <1>8 DEF Entries
  <1>12. cs2 = Append(cs, e2)
    BY <1>9 DEF Entered
  <1>13. OnTop(e2, n, cs, cs2)
    <2>1. e2.f # "resume" /\ e2.thread = cs[n - 1].thread
      BY <1>1, <1>4, <1>8, <1>10
    <2>2. e2.f = "pcall" => e2.nCcalls = n - 1 /\ e2.oldNny = NnyUpTo(cs, e2.thread, n - 1)
      <3>1. e.f = "pcall" => e.nCcalls = n - 1 /\ e.oldNny = s.nny
        BY DEF ReadyToEnter
      <3> QED
        BY <1>4, <1>6, <1>10, <3>1
    <2>3. Fits(n) => (e2.nny = 1 <=> e2.f = "pcall" \/ IsCall(e2, "function") \/ IsCall(e2, "errormsg"))
      BY <1>10 DEF ReadyToEnter
    <2>4. Fits(n - 1) \/ IsCall(e2, "errormsg")
      BY <1>10 DEF ReadyToEnter
    <2>5. MayPush(e2, n, cs)
      BY <1>4, <1>10, <2>1, <2>2, <2>3, <2>4 DEF MayPush
    <2> QED
      BY <1>2, <1>12, <2>5, StackPush
  <1>29. /\ StackRight(cs2) /\ Len(cs2) = n /\ DOMAIN cs2 = 1 .. n /\ cs2[n] = e2
         /\ \A i \in DOMAIN cs : cs2[i] = cs[i]
    BY <1>13 DEF OnTop
  <1>14. PICK ci : ci = s.ci /\ ci \in Seq(CallInfos) /\ Len(ci) \in Nat
    BY <1>7 DEF LuaStates
  <1>15. PICK at2 : Deeper(n, Len(ci), at, at2) /\ Depths(at2)
    <2>1. Len(ci) \in Nat /\ n \in Nat
      BY <1>4, <1>14
    <2> QED
      BY <1>5, <2>1, DeeperIs
  <1>16. PICK ci2 : ci2 = IF Fits(n) THEN Append(ci, LuaFunction(FALSE)) ELSE ci
    OBVIOUS
  <1>17. /\ ci2 \in Seq(CallInfos) /\ ci2 # << >>
         /\ Unhooked(ci2, Len(ci2)) <=> Unhooked(ci, Len(ci))
         /\ Matched(ci2, cs2, at2, Mine(cs, t) \union {n}, TRUE)
         /\ Fits(n) => Matched(ci2, cs2, at2, Mine(cs, t) \union {n}, FALSE)
         /\ Fits(n) => ci2[Len(ci2)].f = "lua"
    <2>1. MayEnter(e, n, ci, cs, at, Mine(cs, t)) /\ ci # << >>
      BY <1>14 DEF ReadyToEnter
    <2>2. MayEnter(e2, n, ci, cs, at, Mine(cs, t)) /\ e2.f # "resume"
      BY <1>8, <1>10, <2>1 DEF MayEnter
    <2>3. Begins(ci, ci2, n)
      BY <1>14, <1>16, <2>1 DEF Begins
    <2>4. StackRight(cs) /\ n = Len(cs) + 1 /\ Deeper(n, Len(ci), at, at2)
      BY <1>2, <1>4, <1>15
    <2>5. /\ ci2 \in Seq(CallInfos) /\ ci2 # << >>
          /\ Unhooked(ci2, Len(ci2)) <=> Unhooked(ci, Len(ci))
      BY <1>13, <2>2, <2>3, <2>4, EnterMatched
    <2>6. /\ Matched(ci2, cs2, at2, Mine(cs, t) \union {n}, TRUE)
      BY <1>13, <2>2, <2>3, <2>4, EnterMatched
    <2>7. Fits(n) => Matched(ci2, cs2, at2, Mine(cs, t) \union {n}, FALSE)
      BY <1>13, <2>2, <2>3, <2>4, EnterMatched
    <2>8. Fits(n) => ci2[Len(ci2)].f = "lua"
      <3> HAVE Fits(n)
      <3>1. ci2 = Append(ci, LuaFunction(FALSE))
        BY <1>16
      <3> QED
        BY <1>14, <3>1, LuaOnTop
    <2> QED
      BY <2>5, <2>6, <2>7, <2>8
  <1>18. PICK s2 : s2 = StateEntered(s, n, e.nny, LuaFunction(FALSE))
    OBVIOUS
  <1>19. /\ s2 \in LuaStates /\ s2.nCcalls = n /\ s2.nny = s.nny + e2.nny /\ s2.ci = ci2
         /\ s2.status = "OK" /\ s2.allowhook = s.allowhook /\ ~s2.hasFunction
    <2>1. LuaFunction(FALSE) \in CallInfos
      BY FramesAreCallInfos
    <2>2. n \in Int
      BY <1>4
    <2>3. /\ s2 \in LuaStates /\ s2.nCcalls = n
          /\ Fits(n) => s2.nny = s.nny + e.nny /\ s2.ci = Append(s.ci, LuaFunction(FALSE))
          /\ ~Fits(n) => s2.nny = s.nny /\ s2.ci = s.ci
          /\ s2.status = s.status /\ s2.allowhook = s.allowhook /\ s2.hasFunction = s.hasFunction
      <3>1. PICK m, c : m = e.nny /\ c = LuaFunction(FALSE)
        OBVIOUS
      <3>2. StateDeeper(s, n, m, c, s2)
        BY <1>7, <1>11, <1>18, <2>1, <2>2, <3>1 DEF StateDeeper
      <3>3. /\ s2 \in LuaStates /\ s2.nCcalls = n
            /\ Fits(n) => s2.nny = s.nny + m /\ s2.ci = Append(s.ci, c)
            /\ ~Fits(n) => s2.nny = s.nny /\ s2.ci = s.ci
            /\ s2.status = s.status /\ s2.allowhook = s.allowhook /\ s2.hasFunction = s.hasFunction
        BY <3>2, StateEnters
      <3> QED
        BY <3>1, <3>3
    <2>4. s2.ci = ci2
      BY <1>14, <1>16, <2>3
    <2>5. s2.nny = s.nny + e2.nny
      <3>1. s.nny + 0 = s.nny
        BY <1>7 DEF LuaStates
      <3> QED
        BY <1>10, <2>3, <3>1
    <2> QED
      BY <1>7, <2>3, <2>4, <2>5
  <1>20. ths2 = [ths EXCEPT ![t] = s2]
    BY <1>18 DEF Entered
  <1>21. Mine(cs2, t) = Mine(cs, t) \union {n} /\ \A u : u # t => Mine(cs2, u) = Mine(cs, u)
    <2>1. StackRight(cs) /\ n = Len(cs) + 1 /\ cs2[n].thread = t
      BY <1>2, <1>4, <1>10, <1>29
    <2> QED
      BY <1>29, <2>1, MinePush
  <1>22. Counted(s2, t, cs2)
    <2>1. NnyUpTo(cs2, t, n) = NnyUpTo(cs, t, Len(cs)) + e2.nny
      <3>1. cs2 \in Seq(Entries) /\ cs \in Seq(Entries)
        BY <1>2, <1>29 DEF StackRight
      <3>2. n \in 1 .. Len(cs2)
        BY <1>4, <1>29
      <3>3. NnyUpTo(cs2, t, n) = NnyUpTo(cs2, t, n - 1) + (IF cs2[n].thread = t /\ cs2[n].nny = 1 THEN 1 ELSE 0)
        BY <3>1, <3>2, NnyAdd
      <3>4. (IF cs2[n].thread = t /\ cs2[n].nny = 1 THEN 1 ELSE 0) = e2.nny
        BY <1>10, <1>11, <1>29
      <3>5. DOMAIN cs = 1 .. Len(cs)
        BY <1>2, StackSeq
      <3>6. Len(cs) \in Int /\ Len(cs) <= Len(cs) /\ Len(cs) <= Len(cs2)
            /\ \A j \in 1 .. Len(cs) : cs2[j] = cs[j]
        <4>1. Len(cs) \in Int /\ Len(cs) <= Len(cs) /\ Len(cs) <= Len(cs2)
          BY <1>2, <1>4, <1>29
        <4> QED
          BY <1>29, <3>5, <4>1
      <3>7. NnyUpTo(cs2, t, Len(cs)) = NnyUpTo(cs, t, Len(cs))
        BY <3>1, <3>6, NnysSame
      <3> QED
        BY <1>4, <3>3, <3>4, <3>7
    <2>2. s2.nny = NnyUpTo(cs2, t, Len(cs2))
      BY <1>6, <1>29, <1>19, <2>1
    <2>3. s2.nCcalls \in Mine(cs2, t) /\ \A i \in Mine(cs2, t) : i <= s2.nCcalls
      <3>1. \A i \in 1 .. Len(cs) : i <= n
        BY <1>2, <1>4
      <3> QED
        BY <1>3, <1>4, <1>19, <1>21, <3>1
    <2>4. s2.allowhook <=> Unhooked(s2.ci, Len(s2.ci))
      BY <1>7, <1>14, <1>17, <1>19
    <2> QED
      BY <1>19, <2>2, <2>3, <2>4 DEF Counted
  <1>23. now2 \in Doings /\ (Calm(now2) <=> Fits(n)) /\ now2 # [at |-> "throw", status |-> "YIELD"]
         /\ (now2.at = "errormsg" => n = MaxCCalls) /\ (now2.at = "lua" => Fits(n))
         /\ now2.at # "unroll"
    <2>4. Fits(n) => n # MaxCCalls
      BY <1>4, CallsAssumption DEF Fits
    <2>1. CASE Fits(n)
      <3>1. now2 = [at |-> "lua", status |-> "OK"]
        BY <2>1, <2>4 DEF Entered
      <3> QED
        BY <2>1, <3>1 DEF Doings, Calm
    <2>2. CASE ~Fits(n) /\ n = MaxCCalls
      <3>1. now2 = [at |-> "errormsg", status |-> "OK"]
        BY <2>2 DEF Entered
      <3> QED
        BY <2>2, <3>1 DEF Doings, Calm
    <2>3. CASE ~Fits(n) /\ n # MaxCCalls
      <3>1. now2 = [at |-> "throw", status |-> "ERRERR"]
        BY <2>3 DEF Entered
      <3> QED
        BY <2>3, <3>1 DEF Doings, Calm
    <2> QED
      BY <2>1, <2>2, <2>3
  <1>24. t = cs2[Len(cs2)].thread /\ n \in Mine(cs2, t)
    BY <1>10, <1>29, <1>21
  <1>25. ThreadRight(t, s2, cs2, now2, at2)
    <2>1. /\ Matched(s2.ci, cs2, at2, Mine(cs2, t), TRUE)
          /\ Calm(now2) => Matched(s2.ci, cs2, at2, Mine(cs2, t), FALSE)
      BY <1>17, <1>19, <1>21, <1>23
    <2>2. Running(s2, cs2, now2)
      <3>1. s2.status = "OK" /\ s2.ci # << >> /\ (Fits(n) => s2.ci[Len(s2.ci)].f = "lua") /\ Len(cs2) = n
        BY <1>29, <1>17, <1>19
      <3> QED
        BY <1>23, <3>1 DEF Running
    <2> QED
      BY <1>22, <1>24, <2>1, <2>2, RunningRight
  <1>26. States(ths2) /\ ths2[t] = s2 /\ \A u \in Threads \ {t} : ths2[u] = ths[u]
    <2>1. t \in Threads /\ s2 \in LuaStates
      BY <1>2, <1>19
    <2> QED
      BY <1>5, <1>20, <2>1 DEF States
  <1>27. \A u \in Threads \ {t} : \A i \in Mine(cs, u) : cs2[i] = cs[i] /\ at2[i] = at[i]
    <2>1. DOMAIN cs = 1 .. Len(cs)
      BY <1>2, StackSeq
    <2>2. \A i \in DOMAIN cs : i \in Nat /\ i # n
      BY <1>2, <1>4, <2>1
    <2>3. \A u : \A i \in Mine(cs, u) : i \in DOMAIN cs
      BY DEF Mine
    <2>4. \A i \in Nat : i # n => at2[i] = at[i]
      BY <1>4, <1>15 DEF Deeper, Depths
    <2> QED
      BY <1>29, <2>2, <2>3, <2>4
  <1>28. Right(ths2, cs2, now2, at2)
    <2>1. cs[Len(cs)].thread \in {t} /\ cs2[Len(cs2)].thread \in {t} /\ \A u \in {t} : u = t
      BY <1>1, <1>24
    <2>2. \A u \in {t} : ThreadRight(u, ths2[u], cs2, now2, at2)
      BY <1>25, <1>26
    <2>3. \A u \in Threads \ {t} : /\ ths2[u] = ths[u] /\ Mine(cs2, u) = Mine(cs, u)
                                  /\ \A i \in Mine(cs, u) : cs2[i] = cs[i] /\ at2[i] = at[i]
      BY <1>21, <1>26, <1>27
    <2>4. OnlyFor({t}, ths, ths2, cs, cs2, at, at2)
      BY <2>1, <2>3 DEF OnlyFor
    <2> QED
      BY <1>15, <1>23, <1>26, <1>29, <2>2, <2>4, StepRight
  <1> QED
    BY <1>28

----------------------------------------------------------------------------
(* Returns, and what errors and yields cut short.                          *)

\* The CallInfos above the first k are left.
Shorter(ci, ci2, k) ==
    /\ DOMAIN ci = 1 .. Len(ci) /\ Len(ci) \in Nat /\ k \in Nat /\ k < Len(ci)
    /\ Len(ci2) = k /\ DOMAIN ci2 = 1 .. k
    /\ \A d \in 1 .. k : ci2[d] = ci[d]
    /\ \A n \in 0 .. k : Unhooked(ci2, n) <=> Unhooked(ci, n)
    /\ InfosRight(ci) => InfosRight(ci2)

LEMMA CutIsShorter ==
    ASSUME NEW ci, ci \in Seq(CallInfos), NEW k, k \in Nat, k < Len(ci),
           NEW ci2, ci2 = SubSeq(ci, 1, k)
    PROVE  Shorter(ci, ci2, k) /\ ci2 \in Seq(CallInfos)
  <1>1. k \in 0 .. Len(ci) /\ DOMAIN ci = 1 .. Len(ci) /\ Len(ci) \in Nat
    OBVIOUS
  <1>2. ci2 \in Seq(CallInfos) /\ Len(ci2) = k /\ DOMAIN ci2 = 1 .. k
    BY <1>1, PrefixOf
  <1>3. \A d \in 1 .. k : ci2[d] = ci[d]
    BY <1>1, PrefixOf
  <1>4. /\ \A n \in 0 .. k : Unhooked(ci2, n) <=> Unhooked(ci, n)
        /\ InfosRight(ci) => InfosRight(ci2)
    BY <1>1, PrefixOf
  <1> QED
    BY <1>1, <1>2, <1>3, <1>4 DEF Shorter

\* So are the C calls of the thread but for "mine2".
Leaves(k, cs, cs2, at, mine, mine2) ==
    /\ mine2 \subseteq mine /\ mine \subseteq Nat /\ \A i \in mine : at[i] \in Nat
    /\ cs[1].f = "pcall" /\ \A i \in mine2 : cs2[i] = cs[i]
    /\ \A i \in mine : Fits(i) /\ IsCall(cs[i], "operation") => cs[i].nny # 1
    /\ \A i \in mine2 : at[i] <= k /\ (Fits(i) /\ cs[i].f # "resume" => at[i] < k)
    /\ \A i \in mine \ mine2 : /\ k <= at[i]
                               /\ at[i] = k => IsCall(cs[i], "operation") \/ IsCall(cs[i], "errormsg")

\* None of those that are left was made by the last CallInfo but for an instruction.
NoneAt(k, cs, at, mine, mine2) == \A i \in mine \ mine2 : at[i] = k => IsCall(cs[i], "operation")

LEMMA CutPlaces ==
    ASSUME NEW ci, NEW ci2, NEW k, NEW cs, NEW cs2, NEW at, NEW mine, NEW mine2,
           Shorter(ci, ci2, k), Leaves(k, cs, cs2, at, mine, mine2), Places(ci, cs, at, mine)
    PROVE  Places(ci2, cs2, at, mine2)
  <1>1. \A i \in mine2 : at[i] <= Len(ci2)
    BY DEF Shorter, Leaves
  <1>2. \A i, j \in mine2 : i < j =>
          at[i] < at[j] \/ (~Fits(i) /\ IsCall(cs2[j], "errormsg") /\ at[i] <= at[j])
    BY DEF Leaves, Places
  <1>3. ASSUME NEW i \in mine2, Fits(i), cs2[i].f # "resume"
        PROVE  at[i] < Len(ci2) /\ ci2[at[i] + 1].f = "lua" /\ ~ci2[at[i] + 1].reentry
    <2>1. i \in mine /\ cs2[i] = cs[i] /\ at[i] < k /\ at[i] \in Nat
      BY <1>3 DEF Leaves
    <2>2. ci[at[i] + 1].f = "lua" /\ ~ci[at[i] + 1].reentry
      BY <1>3, <2>1 DEF Places
    <2>3. at[i] + 1 \in 1 .. k /\ Len(ci2) = k
      BY <2>1 DEF Shorter
    <2>4. ci2[at[i] + 1] = ci[at[i] + 1]
      BY <2>3 DEF Shorter
    <2> QED
      BY <2>1, <2>2, <2>3, <2>4
  <1> QED
    BY <1>1, <1>2, <1>3 DEF Places

LEMMA CutCallers ==
    ASSUME NEW ci, NEW ci2, NEW k, NEW cs, NEW cs2, NEW at, NEW mine, NEW mine2,
           Shorter(ci, ci2, k), Leaves(k, cs, cs2, at, mine, mine2), Callers(ci, cs, at, mine)
    PROVE  Callers(ci2, cs2, at, mine2)
  <1> SUFFICES ASSUME NEW i \in mine2
               PROVE  /\ cs2[i].f = "resume" \/ i = 1 <=> at[i] = 0
                      /\ IsCall(cs2[i], "operation") => ci2[at[i]].f = "lua"
                      /\ OfFunction(cs2[i]) /\ i # 1 => ci2[at[i]].f # "lua"
                      /\ cs2[i].f = "pcall" =>
                            /\ cs2[i].ci = at[i]
                            /\ cs2[i].allowhook <=> Unhooked(ci2, at[i])
                            /\ i # 1 => ci2[at[i]].f \in Protected /\ ~ci2[at[i]].ypcall
    BY DEF Callers
  <1>1. i \in mine /\ cs2[i] = cs[i] /\ at[i] \in Nat /\ at[i] <= k /\ k \in Nat
    BY DEF Leaves, Shorter
  <1>2. at[i] # 0 => ci2[at[i]] = ci[at[i]]
    BY <1>1 DEF Shorter
  <1>3. Unhooked(ci2, at[i]) <=> Unhooked(ci, at[i])
    BY <1>1 DEF Shorter
  <1>4. /\ cs[i].f = "resume" \/ i = 1 <=> at[i] = 0
        /\ IsCall(cs[i], "operation") => ci[at[i]].f = "lua"
        /\ OfFunction(cs[i]) /\ i # 1 => ci[at[i]].f # "lua"
        /\ cs[i].f = "pcall" =>
              /\ cs[i].ci = at[i]
              /\ cs[i].allowhook <=> Unhooked(ci, at[i])
              /\ i # 1 => ci[at[i]].f \in Protected /\ ~ci[at[i]].ypcall
    BY <1>1 DEF Callers
  <1>5. i = 1 => ~IsCall(cs[i], "operation")
    BY DEF IsCall, Leaves
  <1>6. cs[i].f = "resume" => ~OfFunction(cs[i]) /\ ~IsCall(cs[i], "operation") /\ cs[i].f # "pcall"
    BY DEF OfFunction, IsCall
  <1>7. CASE at[i] = 0
    BY <1>1, <1>3, <1>4, <1>5, <1>6, <1>7
  <1>8. CASE at[i] # 0
    BY <1>1, <1>2, <1>3, <1>4, <1>8
  <1> QED
    BY <1>7, <1>8

LEMMA CutBegun ==
    ASSUME NEW ci, NEW ci2, NEW k, NEW cs, NEW cs2, NEW at, NEW mine, NEW mine2,
           Shorter(ci, ci2, k), Leaves(k, cs, cs2, at, mine, mine2), Begun(ci, cs, at, mine)
    PROVE  Begun(ci2, cs2, at, mine2)
  <1> SUFFICES ASSUME NEW d \in DOMAIN ci2, ci2[d].f = "lua", ~ci2[d].reentry
               PROVE  \/ \E i \in mine2 : Fits(i) /\ cs2[i].f # "resume" /\ at[i] + 1 = d
                      \/ \A i \in mine2 : cs2[i].f # "resume" => d <= at[i]
    BY DEF Begun
  <1>1. d \in DOMAIN ci /\ ci2[d] = ci[d] /\ d <= k
    BY DEF Shorter
  <1>2. \/ \E i \in mine : Fits(i) /\ cs[i].f # "resume" /\ at[i] + 1 = d
        \/ \A i \in mine : cs[i].f # "resume" => d <= at[i]
    BY <1>1 DEF Begun
  <1>3. CASE \A i \in mine : cs[i].f # "resume" => d <= at[i]
    BY <1>3 DEF Leaves
  <1>4. ASSUME NEW i \in mine, Fits(i), cs[i].f # "resume", at[i] + 1 = d
        PROVE  i \in mine2 /\ cs2[i].f # "resume"
    <2>1. k \in Nat /\ at[i] \in Nat
      BY DEF Shorter, Leaves
    <2>2. ~(k <= at[i])
      BY <1>1, <1>4, <2>1
    <2> QED
      BY <1>4, <2>2 DEF Leaves
  <1> QED
    BY <1>2, <1>3, <1>4

LEMMA CutHandled ==
    ASSUME NEW ci, NEW ci2, NEW k, NEW cs, NEW cs2, NEW at, NEW mine, NEW mine2,
           Shorter(ci, ci2, k), Leaves(k, cs, cs2, at, mine, mine2), Handled(ci, cs, at, mine, TRUE)
    PROVE  /\ Handled(ci2, cs2, at, mine2, TRUE)
           /\ NoneAt(k, cs, at, mine, mine2) => Handled(ci2, cs2, at, mine2, FALSE)
  <1>1. ASSUME NEW d \in DOMAIN ci2, ci2[d].hooked
        PROVE  \E i \in mine : /\ Fits(i) /\ IsCall(cs[i], "errormsg") /\ at[i] = d
                               /\ i \in mine2 => cs2[i] = cs[i]
                               /\ i \notin mine2 => at[i] = k
    <2>1. d \in DOMAIN ci /\ ci2[d] = ci[d] /\ d <= k /\ d # Len(ci) /\ d \in Nat /\ k \in Nat
      BY DEF Shorter
    <2>2. PICK i \in mine : Fits(i) /\ IsCall(cs[i], "errormsg") /\ at[i] = d
      BY <1>1, <2>1 DEF Handled
    <2>3. i \in mine2 => cs2[i] = cs[i]
      BY DEF Leaves
    <2>4. i \notin mine2 => k <= at[i]
      BY DEF Leaves
    <2> QED
      BY <2>1, <2>2, <2>3, <2>4
  <1>2. Len(ci2) = k
    BY DEF Shorter
  <1>3. Handled(ci2, cs2, at, mine2, TRUE)
    BY <1>1, <1>2 DEF Handled
  <1>4. ASSUME NoneAt(k, cs, at, mine, mine2)
        PROVE  Handled(ci2, cs2, at, mine2, FALSE)
    <2>1. \A i : IsCall(cs[i], "operation") => ~IsCall(cs[i], "errormsg")
      BY DEF IsCall
    <2> QED
      BY <1>1, <1>4, <2>1 DEF Handled, NoneAt
  <1> QED
    BY <1>3, <1>4

LEMMA CutContinuable ==
    ASSUME NEW ci, NEW ci2, NEW k, NEW cs, NEW cs2, NEW at, NEW mine, NEW mine2,
           Shorter(ci, ci2, k), Leaves(k, cs, cs2, at, mine, mine2),
           Continuable(ci, cs, at, mine, TRUE)
    PROVE  /\ Continuable(ci2, cs2, at, mine2, TRUE)
           /\ NoneAt(k, cs, at, mine, mine2) => Continuable(ci2, cs2, at, mine2, FALSE)
  <1>1. ASSUME NEW d \in DOMAIN ci2, ci2[d].f # "lua", ~ci2[d].k
        PROVE  \E i \in mine : /\ Fits(i) /\ cs[i].nny = 1 /\ at[i] = d
                               /\ i \in mine2 => cs2[i] = cs[i]
                               /\ i \notin mine2 => at[i] = k
    <2>1. d \in DOMAIN ci /\ ci2[d] = ci[d] /\ d <= k /\ d # Len(ci) /\ d \in Nat /\ k \in Nat
      BY DEF Shorter
    <2>2. PICK i \in mine : Fits(i) /\ cs[i].nny = 1 /\ at[i] = d
      BY <1>1, <2>1 DEF Continuable
    <2>3. i \in mine2 => cs2[i] = cs[i]
      BY DEF Leaves
    <2>4. i \notin mine2 => k <= at[i]
      BY DEF Leaves
    <2> QED
      BY <2>1, <2>2, <2>3, <2>4
  <1>2. Len(ci2) = k
    BY DEF Shorter
  <1>3. Continuable(ci2, cs2, at, mine2, TRUE)
    BY <1>1, <1>2 DEF Continuable
  <1>4. ASSUME NoneAt(k, cs, at, mine, mine2)
        PROVE  Continuable(ci2, cs2, at, mine2, FALSE)
    <2>1. \A i \in mine : Fits(i) /\ IsCall(cs[i], "operation") => cs[i].nny # 1
      BY DEF Leaves
    <2> QED
      BY <1>1, <1>4, <2>1 DEF Continuable, NoneAt
  <1> QED
    BY <1>3, <1>4

LEMMA CutProtecting ==
    ASSUME NEW ci, NEW ci2, NEW k, NEW cs, NEW cs2, NEW at, NEW mine, NEW mine2,
           Shorter(ci, ci2, k), Leaves(k, cs, cs2, at, mine, mine2), Protecting(ci, cs, at, mine)
    PROVE  Protecting(ci2, cs2, at, mine2)
  <1> SUFFICES ASSUME NEW d \in DOMAIN ci2, ci2[d].f \in Protected
               PROVE  \/ ci2[d].ypcall /\ \A i \in mine2 : cs2[i].nny = 1 \/ cs2[i].f = "pcall" => d <= at[i]
                      \/ ~ci2[d].ypcall /\ \E i \in mine2 : cs2[i].f = "pcall" /\ at[i] = d
    BY DEF Protecting
  <1>1. d \in DOMAIN ci /\ ci2[d] = ci[d] /\ d <= k /\ d \in Nat /\ k \in Nat
    BY DEF Shorter
  <1>2. \/ ci[d].ypcall /\ \A i \in mine : cs[i].nny = 1 \/ cs[i].f = "pcall" => d <= at[i]
        \/ ~ci[d].ypcall /\ \E i \in mine : cs[i].f = "pcall" /\ at[i] = d
    BY <1>1 DEF Protecting
  <1>3. CASE ci[d].ypcall
    BY <1>1, <1>2, <1>3 DEF Leaves
  <1>4. CASE ~ci[d].ypcall
    <2>1. PICK i \in mine : cs[i].f = "pcall" /\ at[i] = d
      BY <1>2, <1>4
    <2>2. ~IsCall(cs[i], "operation") /\ ~IsCall(cs[i], "errormsg")
      BY <2>1 DEF IsCall
    <2>3. i \in mine2
      BY <1>1, <2>1, <2>2 DEF Leaves
    <2> QED
      BY <1>1, <1>4, <2>1, <2>3 DEF Leaves
  <1> QED
    BY <1>3, <1>4

LEMMA CutMatched ==
    ASSUME NEW ci, NEW ci2, NEW k, NEW cs, NEW cs2, NEW at, NEW mine, NEW mine2,
           Shorter(ci, ci2, k), Leaves(k, cs, cs2, at, mine, mine2), Matched(ci, cs, at, mine, TRUE)
    PROVE  /\ Matched(ci2, cs2, at, mine2, TRUE)
           /\ NoneAt(k, cs, at, mine, mine2) => Matched(ci2, cs2, at, mine2, FALSE)
  <1>1. InfosRight(ci2)
    BY DEF Matched, Shorter
  <1>2. Places(ci2, cs2, at, mine2)
    BY CutPlaces DEF Matched
  <1>3. Callers(ci2, cs2, at, mine2)
    BY CutCallers DEF Matched
  <1>4. Begun(ci2, cs2, at, mine2)
    BY CutBegun DEF Matched
  <1>5. Protecting(ci2, cs2, at, mine2)
    BY CutProtecting DEF Matched
  <1>6. /\ Handled(ci2, cs2, at, mine2, TRUE)
        /\ NoneAt(k, cs, at, mine, mine2) => Handled(ci2, cs2, at, mine2, FALSE)
    BY CutHandled DEF Matched
  <1>7. /\ Continuable(ci2, cs2, at, mine2, TRUE)
        /\ NoneAt(k, cs, at, mine, mine2) => Continuable(ci2, cs2, at, mine2, FALSE)
    BY CutContinuable DEF Matched
  <1> QED
    BY <1>1, <1>2, <1>3, <1>4, <1>5, <1>6, <1>7 DEF Matched

\* What is known of a thread that is on the C stack and of its C calls.
Known(ci, cs, at, t) ==
    /\ StackRight(cs) /\ Depths(at) /\ ci \in Seq(CallInfos) /\ ci # << >>
    /\ Matched(ci, cs, at, Mine(cs, t), TRUE)

LEMMA KnownFacts ==
    ASSUME NEW ci, NEW cs, NEW at, NEW t, Known(ci, cs, at, t)
    PROVE  /\ DOMAIN cs = 1 .. Len(cs) /\ Len(cs) \in Nat \ {0} /\ cs[1].f = "pcall"
           /\ DOMAIN ci = 1 .. Len(ci) /\ Len(ci) \in Nat \ {0}
           /\ \A i \in Mine(cs, t) : /\ i \in DOMAIN cs /\ i \in Nat \ {0} /\ cs[i].thread = t
                                     /\ at[i] \in Nat /\ at[i] <= Len(ci)
           /\ \A i \in Mine(cs, t) : Fits(i) /\ IsCall(cs[i], "operation") => cs[i].nny # 1
  <1>1. DOMAIN cs = 1 .. Len(cs) /\ Len(cs) \in Nat \ {0}
    BY StackSeq DEF Known
  <1>2. cs[1].f = "pcall"
    BY DEF Known, StackRight
  <1>3. DOMAIN ci = 1 .. Len(ci) /\ Len(ci) \in Nat \ {0}
    BY EmptySeq DEF Known
  <1>4. \A i \in Mine(cs, t) : i \in DOMAIN cs /\ i \in Nat \ {0} /\ cs[i].thread = t
    BY <1>1 DEF Mine
  <1>5. \A i \in Mine(cs, t) : at[i] \in Nat
    BY <1>4 DEF Known, Depths
  <1>6. \A i \in Mine(cs, t) : at[i] <= Len(ci)
    BY DEF Known, Matched, Places
  <1>7. \A i \in Mine(cs, t) : EntryRight(cs, i)
    BY <1>4 DEF Known, StackRight
  <1>8. \A i \in Mine(cs, t) : Fits(i) /\ IsCall(cs[i], "operation") => cs[i].nny # 1
    BY <1>7 DEF EntryRight, IsCall
  <1> QED
    BY <1>1, <1>2, <1>3, <1>4, <1>5, <1>6, <1>8

\* The thread's last C call, m, is within the limits.
LastFits(cs, t, m) == m \in Mine(cs, t) /\ Fits(m) /\ \A i \in Mine(cs, t) : i <= m

LEMMA KnownBegun ==
    ASSUME NEW ci, NEW cs, NEW at, NEW t, Known(ci, cs, at, t), NEW m, LastFits(cs, t, m)
    PROVE  \A i \in Mine(cs, t) : at[i] < Len(ci)
  <1>1. /\ \A i \in Mine(cs, t) : i \in Nat \ {0} /\ at[i] \in Nat /\ at[i] <= Len(ci)
        /\ Len(ci) \in Nat \ {0}
    BY KnownFacts
  <1>2. m \in Mine(cs, t) /\ Fits(m) /\ \A i \in Mine(cs, t) : i <= m
    BY DEF LastFits
  <1>3. at[m] < Len(ci)
    <2>1. CASE cs[m].f = "resume"
      BY <1>1, <1>2, <2>1 DEF Known, Matched, Callers
    <2>2. CASE cs[m].f # "resume"
      BY <1>2, <2>2 DEF Known, Matched, Places
    <2> QED
      BY <2>1, <2>2
  <1>4. \A i \in Mine(cs, t) : i < m => at[i] <= at[m]
    BY <1>1, <1>2 DEF Known, Matched, Places
  <1>5. \A i \in Mine(cs, t) : i < m \/ i = m
    BY <1>1, <1>2
  <1> QED
    BY <1>1, <1>2, <1>3, <1>4, <1>5

\* A function that the C stack knows nothing of returns.
LEMMA FramePopped ==
    ASSUME NEW ci, NEW cs, NEW at, NEW t, Known(ci, cs, at, t), NEW m, LastFits(cs, t, m),
           ci[Len(ci)].f # "lua" \/ ci[Len(ci)].reentry,
           NEW k, k = Len(ci) - 1, NEW ci2, ci2 = SubSeq(ci, 1, k)
    PROVE  /\ Matched(ci2, cs, at, Mine(cs, t), FALSE)
           /\ Shorter(ci, ci2, k) /\ ci2 \in Seq(CallInfos) /\ ci2 # << >>
           /\ ci2[Len(ci2)].f = "lua"
  <1>1. /\ \A i \in Mine(cs, t) : i \in Nat \ {0} /\ at[i] \in Nat /\ at[i] <= Len(ci)
        /\ Len(ci) \in Nat \ {0} /\ DOMAIN ci = 1 .. Len(ci) /\ cs[1].f = "pcall"
        /\ \A i \in Mine(cs, t) : Fits(i) /\ IsCall(cs[i], "operation") => cs[i].nny # 1
    BY KnownFacts
  <1>2. \A i \in Mine(cs, t) : at[i] < Len(ci)
    BY KnownBegun
  <1>3. k \in Nat /\ k < Len(ci) /\ Len(ci) \in DOMAIN ci
    BY <1>1
  <1>4. Shorter(ci, ci2, k) /\ ci2 \in Seq(CallInfos)
    BY <1>3, CutIsShorter DEF Known
  <1>5. Len(ci) > 1 /\ ci[Len(ci) - 1].f = "lua"
    BY <1>3 DEF Known, Matched, InfosRight
  <1>6. ci2 # << >> /\ ci2[Len(ci2)].f = "lua"
    <2>1. k \in 1 .. k /\ Len(ci2) = k
      BY <1>1, <1>4, <1>5 DEF Shorter
    <2>2. ci2[k] = ci[k]
      BY <1>4, <2>1 DEF Shorter
    <2>3. ci2 # << >>
      <3>1. Len(ci2) # 0
        BY <1>3, <2>1
      <3> QED
        BY <3>1
    <2> QED
      BY <1>5, <2>1, <2>2, <2>3
  <1>7. \A i \in Mine(cs, t) : at[i] <= k /\ (Fits(i) /\ cs[i].f # "resume" => at[i] < k)
    <2> TAKE i \in Mine(cs, t)
    <2>1. at[i] <= k
      BY <1>1, <1>2
    <2>2. ASSUME Fits(i), cs[i].f # "resume"
          PROVE  at[i] # k
      <3>1. ci[at[i] + 1].f = "lua" /\ ~ci[at[i] + 1].reentry
        BY <2>2 DEF Known, Matched, Places
      <3> QED
        BY <1>1, <3>1
    <2> QED
      BY <1>1, <2>1, <2>2
  <1>8. Leaves(k, cs, cs, at, Mine(cs, t), Mine(cs, t))
    BY <1>1, <1>7 DEF Leaves
  <1>9. Matched(ci, cs, at, Mine(cs, t), TRUE)
    BY DEF Known
  <1>10. Matched(ci2, cs, at, Mine(cs, t), FALSE)
    <2>1. NoneAt(k, cs, at, Mine(cs, t), Mine(cs, t))
      BY DEF NoneAt
    <2> QED
      BY <1>4, <1>8, <1>9, <2>1, CutMatched
  <1> QED
    BY <1>4, <1>6, <1>10

\* The C calls from h on end, which are all of the thread that runs.
Kept(t, cs, cs2) ==
    /\ StackRight(cs2) /\ t = cs[Len(cs)].thread /\ t = cs2[Len(cs2)].thread
    /\ \A u : u # t => Mine(cs2, u) = Mine(cs, u) /\ \A i \in Mine(cs, u) : cs2[i] = cs[i]

Ends(h, t, cs, cs2) ==
    /\ h \in DOMAIN cs /\ h > 1 /\ cs[h].f # "resume"
    /\ \A i \in DOMAIN cs : h <= i => cs[i].thread = t
    /\ cs2 = SubSeq(cs, 1, h - 1)

LEMMA CallEnds ==
    ASSUME NEW cs, StackRight(cs), NEW h, NEW t, NEW cs2, Ends(h, t, cs, cs2)
    PROVE  /\ Kept(t, cs, cs2) /\ Len(cs2) = h - 1 /\ h - 1 \in Nat \ {0}
           /\ Mine(cs2, t) = {i \in Mine(cs, t) : i <= h - 1}
           /\ \A i \in Mine(cs2, t) : cs2[i] = cs[i]
           /\ NnyUpTo(cs2, t, h - 1) = NnyUpTo(cs, t, h - 1)
           /\ h - 1 \in Mine(cs2, t)
           /\ Fits(h - 1) \/ IsCall(cs[h], "errormsg")
  <1>1. /\ DOMAIN cs = 1 .. Len(cs) /\ Len(cs) \in Nat \ {0} /\ cs \in Seq(Entries)
    BY StackSeq
  <1>2. h \in DOMAIN cs /\ h > 1 /\ cs[h].f # "resume" /\ cs2 = SubSeq(cs, 1, h - 1)
        /\ \A i \in DOMAIN cs : h <= i => cs[i].thread = t
    BY DEF Ends
  <1>3. h - 1 \in 1 .. Len(cs) /\ h - 1 \in Nat \ {0} /\ h \in Nat
    BY <1>1, <1>2
  <1>4. /\ StackRight(cs2) /\ Len(cs2) = h - 1 /\ DOMAIN cs2 = 1 .. h - 1
        /\ \A i \in 1 .. h - 1 : cs2[i] = cs[i]
    <2>1. PICK k \in 1 .. Len(cs) : k = h - 1
      BY <1>3
    <2>2. cs2 = SubSeq(cs, 1, k)
      BY <1>2, <2>1
    <2>3. /\ StackRight(cs2) /\ Len(cs2) = k /\ DOMAIN cs2 = 1 .. k
          /\ \A i \in 1 .. k : cs2[i] = cs[i]
      BY <2>2, StackCut
    <2> QED
      BY <2>1, <2>3
  <1>5. EntryRight(cs, h)
    BY <1>2 DEF StackRight
  <1>6. cs[h - 1].thread = t
    BY <1>2, <1>3, <1>5 DEF EntryRight, Follows
  <1>7. Fits(h - 1) \/ IsCall(cs[h], "errormsg")
    BY <1>2, <1>5 DEF EntryRight, Overflows
  <1>8. t = cs[Len(cs)].thread
    BY <1>1, <1>2
  <1>9. t = cs2[Len(cs2)].thread
    BY <1>3, <1>4, <1>6
  <1>10. \A u : /\ Mine(cs2, u) = {i \in Mine(cs, u) : i <= h - 1}
                /\ u # t => Mine(cs2, u) = Mine(cs, u)
    <2>1. \A u : u # t => \A i \in DOMAIN cs : h - 1 < i => cs[i].thread # u
      BY <1>1, <1>2
    <2> QED
      BY <1>3, <1>4, <2>1, MineCut
  <1>11. \A u : \A i \in Mine(cs2, u) : cs2[i] = cs[i]
    BY <1>4 DEF Mine
  <1>12. Kept(t, cs, cs2)
    BY <1>4, <1>8, <1>9, <1>10, <1>11 DEF Kept
  <1>13. NnyUpTo(cs2, t, h - 1) = NnyUpTo(cs, t, h - 1)
    <2>1. cs2 \in Seq(Entries)
      BY <1>4 DEF StackRight
    <2>2. h - 1 \in Int /\ h - 1 <= Len(cs) /\ h - 1 <= Len(cs2)
      BY <1>3, <1>4
    <2> QED
      BY <1>1, <1>4, <2>1, <2>2, NnysSame
  <1>14. h - 1 \in Mine(cs2, t)
    BY <1>3, <1>4, <1>9 DEF Mine
  <1> QED
    BY <1>3, <1>4, <1>7, <1>10, <1>11, <1>12, <1>13, <1>14

\* An instruction's call returns, or an error handler's.
LEMMA CallReturns ==
    ASSUME NEW ci, NEW cs, NEW at, NEW t, Known(ci, cs, at, t),
           NEW h, NEW cs2, Ends(h, t, cs, cs2), h = Len(cs), Fits(h),
           IsCall(cs[h], "operation") \/ IsCall(cs[h], "errormsg"),
           NEW k, k = at[h], NEW ci2, ci2 = SubSeq(ci, 1, k)
    PROVE  /\ Matched(ci2, cs2, at, Mine(cs2, t), TRUE)
           /\ IsCall(cs[h], "operation") =>
                 Matched(ci2, cs2, at, Mine(cs2, t), FALSE) /\ ci2[Len(ci2)].f = "lua"
           /\ Shorter(ci, ci2, k) /\ ci2 \in Seq(CallInfos) /\ ci2 # << >>
  <1>1. /\ \A i \in Mine(cs, t) : i \in Nat \ {0} /\ at[i] \in Nat /\ at[i] <= Len(ci)
        /\ Len(ci) \in Nat \ {0} /\ DOMAIN ci = 1 .. Len(ci) /\ cs[1].f = "pcall"
        /\ \A i \in Mine(cs, t) : Fits(i) /\ IsCall(cs[i], "operation") => cs[i].nny # 1
    BY KnownFacts
  <1>2. /\ \A i \in Mine(cs2, t) : cs2[i] = cs[i]
        /\ Mine(cs2, t) = {i \in Mine(cs, t) : i <= h - 1}
    BY CallEnds DEF Known
  <1>3. h \in Mine(cs, t) /\ h > 1 /\ cs[h].f # "resume" /\ \A i \in Mine(cs, t) : i <= h
    <2>1. h \in DOMAIN cs /\ h > 1 /\ cs[h].f # "resume" /\ cs[h].thread = t
      <3>1. h \in DOMAIN cs /\ h > 1 /\ cs[h].f # "resume"
            /\ \A i \in DOMAIN cs : h <= i => cs[i].thread = t
        BY DEF Ends
      <3>2. DOMAIN cs = 1 .. Len(cs)
        BY KnownFacts
      <3> QED
        BY <3>1, <3>2
    <2>2. DOMAIN cs = 1 .. Len(cs)
      BY KnownFacts
    <2> QED
      BY <2>1, <2>2 DEF Mine
  <1>4. at[h] < Len(ci)
    BY <1>3 DEF Known, Matched, Places
  <1>5. at[h] # 0 /\ (IsCall(cs[h], "operation") => ci[at[h]].f = "lua")
    BY <1>3 DEF Known, Matched, Callers
  <1>6. k \in Nat /\ k < Len(ci) /\ k # 0
    BY <1>1, <1>3, <1>4, <1>5
  <1>7. Shorter(ci, ci2, k) /\ ci2 \in Seq(CallInfos)
    BY <1>6, CutIsShorter DEF Known
  <1>8. \A i \in Mine(cs2, t) : at[i] <= k /\ (Fits(i) /\ cs[i].f # "resume" => at[i] < k)
    <2> TAKE i \in Mine(cs2, t)
    <2>1. i \in Mine(cs, t) /\ i < h
      BY <1>1, <1>2, <1>3
    <2>2. at[i] < at[h] \/ (~Fits(i) /\ at[i] <= at[h])
      BY <1>3, <2>1 DEF Known, Matched, Places
    <2> QED
      BY <1>1, <1>3, <2>1, <2>2
  <1>9. \A i \in Mine(cs, t) \ Mine(cs2, t) : i = h
    BY <1>1, <1>2, <1>3
  <1>10. Leaves(k, cs, cs2, at, Mine(cs, t), Mine(cs2, t))
    <2>1. /\ Mine(cs2, t) \subseteq Mine(cs, t) /\ Mine(cs, t) \subseteq Nat
          /\ \A i \in Mine(cs, t) : at[i] \in Nat
      BY <1>1, <1>2
    <2>2. \A i \in Mine(cs, t) \ Mine(cs2, t) :
             k <= at[i] /\ (at[i] = k => IsCall(cs[i], "operation") \/ IsCall(cs[i], "errormsg"))
      BY <1>6, <1>9
    <2> QED
      BY <1>1, <1>2, <1>8, <2>1, <2>2 DEF Leaves
  <1>11. Matched(ci, cs, at, Mine(cs, t), TRUE)
    BY DEF Known
  <1>12. Matched(ci2, cs2, at, Mine(cs2, t), TRUE)
    BY <1>7, <1>10, <1>11, CutMatched
  <1>13. IsCall(cs[h], "operation") => Matched(ci2, cs2, at, Mine(cs2, t), FALSE)
    <2>1. IsCall(cs[h], "operation") => NoneAt(k, cs, at, Mine(cs, t), Mine(cs2, t))
      BY <1>9 DEF NoneAt
    <2>2. NoneAt(k, cs, at, Mine(cs, t), Mine(cs2, t)) => Matched(ci2, cs2, at, Mine(cs2, t), FALSE)
      BY <1>7, <1>10, <1>11, CutMatched
    <2> QED
      BY <2>1, <2>2
  <1>14. Len(ci2) = k /\ ci2[k] = ci[k]
    <2>1. Len(ci2) = k /\ k \in 1 .. k
      BY <1>6, <1>7 DEF Shorter
    <2> QED
      BY <1>7, <2>1 DEF Shorter
  <1>15. ci2 # << >>
    BY <1>6, <1>14
  <1> QED
    BY <1>5, <1>7, <1>12, <1>13, <1>14, <1>15

Below(k, n) == k = n - 1

\* The call of a C function ends, and so does the function, whether the call has
\* returned or an error has been caught.
LEMMA FunctionEnds ==
    ASSUME NEW ci, NEW cs, NEW at, NEW t, Known(ci, cs, at, t),
           NEW h, NEW cs2, Ends(h, t, cs, cs2), OfFunction(cs[h]),
           NEW k, Below(k, at[h]), NEW ci2, ci2 = SubSeq(ci, 1, k)
    PROVE  /\ Matched(ci2, cs2, at, Mine(cs2, t), FALSE) /\ ci2[Len(ci2)].f = "lua"
           /\ Shorter(ci, ci2, k) /\ ci2 \in Seq(CallInfos) /\ ci2 # << >>
           /\ at[h] \in Nat \ {0} /\ at[h] <= Len(ci) /\ ~ci[at[h]].hooked /\ ci[at[h]].f # "lua"
           /\ Fits(h - 1)
  <1>1. /\ \A i \in Mine(cs, t) : i \in Nat \ {0} /\ at[i] \in Nat /\ at[i] <= Len(ci)
        /\ Len(ci) \in Nat \ {0} /\ DOMAIN ci = 1 .. Len(ci) /\ cs[1].f = "pcall"
        /\ \A i \in Mine(cs, t) : Fits(i) /\ IsCall(cs[i], "operation") => cs[i].nny # 1
    BY KnownFacts
  <1>2. /\ \A i \in Mine(cs2, t) : cs2[i] = cs[i]
        /\ Mine(cs2, t) = {i \in Mine(cs, t) : i <= h - 1}
        /\ Fits(h - 1) \/ IsCall(cs[h], "errormsg")
    BY CallEnds DEF Known
  <1>3. h \in Mine(cs, t) /\ h > 1 /\ cs[h].f # "resume"
    <2>1. h \in DOMAIN cs /\ h > 1 /\ cs[h].f # "resume"
          /\ \A i \in DOMAIN cs : h <= i => cs[i].thread = t
      BY DEF Ends
    <2>2. DOMAIN cs = 1 .. Len(cs)
      BY KnownFacts
    <2>3. cs[h].thread = t
      BY <2>1, <2>2
    <2> QED
      BY <2>1, <2>3 DEF Mine
  <1>4. ~IsCall(cs[h], "errormsg") /\ ~IsCall(cs[h], "operation")
    BY DEF OfFunction, IsCall
  <1>5. at[h] # 0 /\ ci[at[h]].f # "lua"
    BY <1>3 DEF Known, Matched, Callers
  <1>6. at[h] \in Nat /\ at[h] <= Len(ci) /\ at[h] \in DOMAIN ci
    BY <1>1, <1>3, <1>5
  <1>7. at[h] > 1 /\ ci[at[h] - 1].f = "lua" /\ ~ci[at[h]].hooked
    BY <1>5, <1>6 DEF Known, Matched, InfosRight
  <1>8. k \in Nat /\ k < Len(ci) /\ k # 0 /\ k < at[h]
    BY <1>1, <1>6, <1>7 DEF Below
  <1>9. Shorter(ci, ci2, k) /\ ci2 \in Seq(CallInfos)
    BY <1>8, CutIsShorter DEF Known
  <1>10. \A i \in Mine(cs2, t) : at[i] <= k /\ (Fits(i) /\ cs[i].f # "resume" => at[i] < k)
    <2> TAKE i \in Mine(cs2, t)
    <2>1. i \in Mine(cs, t) /\ i < h
      BY <1>1, <1>2, <1>3
    <2>2. at[i] < at[h]
      BY <1>3, <1>4, <2>1 DEF Known, Matched, Places
    <2>3. Fits(i) /\ cs[i].f # "resume" => ci[at[i] + 1].f = "lua"
      BY <2>1 DEF Known, Matched, Places
    <2>4. Fits(i) /\ cs[i].f # "resume" => at[i] + 1 # at[h]
      BY <1>5, <2>3
    <2> QED
      BY <1>1, <1>3, <2>1, <2>2, <2>4 DEF Below
  <1>11. \A i \in Mine(cs, t) \ Mine(cs2, t) : k < at[i]
    <2> TAKE i \in Mine(cs, t) \ Mine(cs2, t)
    <2>1. h < i \/ i = h
      BY <1>1, <1>2, <1>3
    <2>2. h < i => at[h] <= at[i]
      BY <1>1, <1>3 DEF Known, Matched, Places
    <2> QED
      BY <1>1, <1>3, <1>8, <2>1, <2>2
  <1>12. Leaves(k, cs, cs2, at, Mine(cs, t), Mine(cs2, t))
    <2>1. /\ Mine(cs2, t) \subseteq Mine(cs, t) /\ Mine(cs, t) \subseteq Nat
          /\ \A i \in Mine(cs, t) : at[i] \in Nat
      BY <1>1, <1>2
    <2>2. \A i \in Mine(cs, t) \ Mine(cs2, t) : k <= at[i] /\ at[i] # k
      BY <1>1, <1>8, <1>11
    <2> QED
      BY <1>1, <1>2, <1>10, <2>1, <2>2 DEF Leaves
  <1>13. Matched(ci, cs, at, Mine(cs, t), TRUE)
    BY DEF Known
  <1>14. NoneAt(k, cs, at, Mine(cs, t), Mine(cs2, t))
    BY <1>1, <1>8, <1>11 DEF NoneAt
  <1>15. Matched(ci2, cs2, at, Mine(cs2, t), FALSE)
    BY <1>9, <1>12, <1>13, <1>14, CutMatched
  <1>16. Len(ci2) = k /\ ci2[k] = ci[k]
    <2>0. k \in Nat /\ k # 0
      BY <1>8
    <2>1. Len(ci2) = k /\ k \in 1 .. k
      BY <1>9, <2>0 DEF Shorter
    <2> QED
      BY <1>9, <2>1 DEF Shorter
  <1>17. ci2 # << >>
    BY <1>8, <1>16
  <1>18. Fits(h - 1)
    BY <1>2, <1>4
  <1>19. ci2[Len(ci2)].f = "lua"
    BY <1>7, <1>16 DEF Below
  <1>20. at[h] \in Nat \ {0} /\ at[h] <= Len(ci) /\ ~ci[at[h]].hooked /\ ci[at[h]].f # "lua"
    BY <1>5, <1>6, <1>7
  <1> QED
    BY <1>9, <1>15, <1>17, <1>18, <1>19, <1>20

\* What the last CallInfo of a thread that runs is like.
LEMMA LastIsBegun ==
    ASSUME NEW ci, NEW cs, NEW at, NEW t, Known(ci, cs, at, t), NEW m, LastFits(cs, t, m),
           cs[m].f # "resume", ci[Len(ci)].f = "lua", ~ci[Len(ci)].reentry
    PROVE  at[m] + 1 = Len(ci)
  <1>1. /\ \A i \in Mine(cs, t) : i \in Nat \ {0} /\ at[i] \in Nat /\ at[i] < Len(ci)
        /\ Len(ci) \in Nat \ {0} /\ Len(ci) \in DOMAIN ci
    BY KnownFacts, KnownBegun
  <1>2. m \in Mine(cs, t) /\ \A i \in Mine(cs, t) : i <= m
    BY DEF LastFits
  <1>3. \/ \E i \in Mine(cs, t) : Fits(i) /\ cs[i].f # "resume" /\ at[i] + 1 = Len(ci)
        \/ \A i \in Mine(cs, t) : cs[i].f # "resume" => Len(ci) <= at[i]
    BY <1>1 DEF Known, Matched, Begun
  <1>4. PICK i \in Mine(cs, t) : Fits(i) /\ at[i] + 1 = Len(ci)
    <2>1. ~(Len(ci) <= at[m])
      BY <1>1, <1>2
    <2> QED
      BY <1>2, <1>3, <2>1
  <1>5. i < m => at[i] < at[m]
    BY <1>2, <1>4 DEF Known, Matched, Places
  <1>6. ~(at[i] < at[m])
    BY <1>1, <1>2, <1>4
  <1>7. i = m
    BY <1>1, <1>2, <1>4, <1>5, <1>6
  <1> QED
    BY <1>4, <1>7

LEMMA LastUnhooked ==
    ASSUME NEW ci, NEW cs, NEW at, NEW t, Known(ci, cs, at, t), NEW m, LastFits(cs, t, m),
           Matched(ci, cs, at, Mine(cs, t), FALSE)
    PROVE  ~ci[Len(ci)].hooked
  <1>1. /\ \A i \in Mine(cs, t) : at[i] \in Nat /\ at[i] < Len(ci)
        /\ Len(ci) \in Nat \ {0} /\ Len(ci) \in DOMAIN ci
    BY KnownFacts, KnownBegun
  <1>2. \A i \in Mine(cs, t) : at[i] # Len(ci)
    BY <1>1
  <1> QED
    BY <1>1, <1>2 DEF Matched, Handled

\* A function is called that makes no C call.
Longer(ci, ci2, c) ==
    /\ DOMAIN ci = 1 .. Len(ci) /\ Len(ci) \in Nat \ {0}
    /\ Len(ci2) = Len(ci) + 1 /\ DOMAIN ci2 = 1 .. Len(ci) + 1 /\ ci2[Len(ci) + 1] = c
    /\ \A d \in 1 .. Len(ci) : ci2[d] = ci[d]
    /\ \A n \in 0 .. Len(ci) : Unhooked(ci2, n) <=> Unhooked(ci, n)
    /\ ~c.hooked /\ (c.f = "lua" => c.reentry)

LEMMA PushIsLonger ==
    ASSUME NEW ci, ci \in Seq(CallInfos), ci # << >>, NEW c, c \in CallInfos,
           ~c.hooked, c.f = "lua" <=> c.reentry,
           c.ypcall => c.f \in Protected /\ c.k /\ (c.oldAllowhook <=> Unhooked(ci, Len(ci))),
           NEW ci2, ci2 = Append(ci, c)
    PROVE  /\ Longer(ci, ci2, c) /\ ci2 \in Seq(CallInfos) /\ ci2 # << >>
           /\ ci[Len(ci)].f = "lua" /\ InfosRight(ci) => InfosRight(ci2)
           /\ Unhooked(ci2, Len(ci2)) <=> Unhooked(ci, Len(ci))
  <1>1. DOMAIN ci = 1 .. Len(ci) /\ Len(ci) \in Nat \ {0}
    BY EmptySeq
  <1>2. /\ ci2 \in Seq(CallInfos) /\ Len(ci2) = Len(ci) + 1 /\ DOMAIN ci2 = 1 .. Len(ci) + 1
        /\ ci2 # << >> /\ ci2[Len(ci) + 1] = c
    BY LongerBy
  <1>3. \A d \in 1 .. Len(ci) : ci2[d] = ci[d]
    BY LongerBy
  <1>7. \A n \in 0 .. Len(ci) : Unhooked(ci2, n) <=> Unhooked(ci, n)
    BY LongerBy
  <1>6. Unhooked(ci2, Len(ci2)) <=> Unhooked(ci, Len(ci))
    BY LongerBy
  <1>4. ci[Len(ci)].f = "lua" /\ InfosRight(ci) => InfosRight(ci2)
    BY LongerBy
  <1>5. Longer(ci, ci2, c)
    BY <1>1, <1>2, <1>3, <1>7 DEF Longer
  <1> QED
    BY <1>2, <1>4, <1>5, <1>6

\* All of Matched() but Protecting(), of which the new CallInfo has to be.
LEMMA FrameFits ==
    ASSUME NEW ci, NEW cs, NEW at, NEW t, Known(ci, cs, at, t), Matched(ci, cs, at, Mine(cs, t), FALSE),
           NEW c, NEW ci2, Longer(ci, ci2, c)
    PROVE  /\ Places(ci2, cs, at, Mine(cs, t)) /\ Callers(ci2, cs, at, Mine(cs, t))
           /\ Begun(ci2, cs, at, Mine(cs, t))
           /\ Handled(ci2, cs, at, Mine(cs, t), FALSE) /\ Handled(ci2, cs, at, Mine(cs, t), TRUE)
           /\ Continuable(ci2, cs, at, Mine(cs, t), TRUE)
           /\ c.f = "lua" => Continuable(ci2, cs, at, Mine(cs, t), FALSE)
  <1> DEFINE mine == Mine(cs, t)
  <1>1. \A i \in mine : i \in Nat \ {0} /\ at[i] \in Nat /\ at[i] <= Len(ci)
    BY KnownFacts
  <1>2. /\ DOMAIN ci = 1 .. Len(ci) /\ Len(ci) \in Nat \ {0}
        /\ Len(ci2) = Len(ci) + 1 /\ DOMAIN ci2 = 1 .. Len(ci) + 1 /\ ci2[Len(ci2)] = c
        /\ \A d \in DOMAIN ci : ci2[d] = ci[d]
        /\ \A d \in DOMAIN ci2 : d \in DOMAIN ci \/ d = Len(ci2)
    BY DEF Longer
  <1>3. /\ ~c.hooked /\ (c.f = "lua" => c.reentry)
        /\ \A n \in 0 .. Len(ci) : Unhooked(ci2, n) <=> Unhooked(ci, n)
    BY DEF Longer
  <1> HIDE DEF mine
  <1>4. Places(ci2, cs, at, mine)
    <2>1. Places(ci, cs, at, mine)
      BY DEF Matched, mine
    <2>2. \A i \in mine : at[i] <= Len(ci2)
      BY <1>1, <1>2
    <2>3. ASSUME NEW i \in mine, Fits(i), cs[i].f # "resume"
          PROVE  at[i] < Len(ci2) /\ ci2[at[i] + 1].f = "lua" /\ ~ci2[at[i] + 1].reentry
      <3>1. at[i] < Len(ci) /\ ci[at[i] + 1].f = "lua" /\ ~ci[at[i] + 1].reentry
        BY <2>1, <2>3 DEF Places
      <3>2. at[i] + 1 \in DOMAIN ci
        BY <1>1, <1>2, <3>1
      <3>3. ci2[at[i] + 1] = ci[at[i] + 1]
        BY <1>2, <3>2
      <3>4. at[i] < Len(ci2)
        BY <1>1, <1>2, <3>1
      <3> QED
        BY <3>1, <3>3, <3>4
    <2> QED
      BY <2>1, <2>2, <2>3 DEF Places
  <1>5. Callers(ci2, cs, at, mine)
    <2> SUFFICES ASSUME NEW i \in mine
                 PROVE  /\ cs[i].f = "resume" \/ i = 1 <=> at[i] = 0
                        /\ IsCall(cs[i], "operation") => ci2[at[i]].f = "lua"
                        /\ OfFunction(cs[i]) /\ i # 1 => ci2[at[i]].f # "lua"
                        /\ cs[i].f = "pcall" =>
                              /\ cs[i].ci = at[i]
                              /\ cs[i].allowhook <=> Unhooked(ci2, at[i])
                              /\ i # 1 => ci2[at[i]].f \in Protected /\ ~ci2[at[i]].ypcall
      BY DEF Callers
    <2>1. /\ cs[i].f = "resume" \/ i = 1 <=> at[i] = 0
          /\ IsCall(cs[i], "operation") => ci[at[i]].f = "lua"
          /\ OfFunction(cs[i]) /\ i # 1 => ci[at[i]].f # "lua"
          /\ cs[i].f = "pcall" =>
                /\ cs[i].ci = at[i]
                /\ cs[i].allowhook <=> Unhooked(ci, at[i])
                /\ i # 1 => ci[at[i]].f \in Protected /\ ~ci[at[i]].ypcall
      BY DEF Matched, Callers, mine
    <2>2. at[i] # 0 => ci2[at[i]] = ci[at[i]]
      BY <1>1, <1>2
    <2>3. Unhooked(ci2, at[i]) <=> Unhooked(ci, at[i])
      BY <1>1, <1>2, <1>3
    <2>4. cs[i].f = "resume" => ~OfFunction(cs[i]) /\ ~IsCall(cs[i], "operation") /\ cs[i].f # "pcall"
      BY DEF OfFunction, IsCall
    <2>5. i = 1 => ~IsCall(cs[i], "operation")
      <3>1. cs[1].f = "pcall"
        BY KnownFacts
      <3> QED
        BY <3>1 DEF IsCall
    <2>6. CASE at[i] = 0
      BY <2>1, <2>3, <2>4, <2>5, <2>6
    <2>7. CASE at[i] # 0
      BY <2>1, <2>2, <2>3, <2>7
    <2> QED
      BY <2>6, <2>7
  <1>6. Begun(ci2, cs, at, mine)
    <2>1. Begun(ci, cs, at, mine)
      BY DEF Matched, mine
    <2> QED
      BY <1>2, <1>3, <2>1 DEF Begun
  <1>7. Handled(ci2, cs, at, mine, FALSE) /\ Handled(ci2, cs, at, mine, TRUE)
    <2>1. Handled(ci, cs, at, mine, FALSE)
      BY DEF Matched, mine
    <2> QED
      BY <1>2, <1>3, <2>1 DEF Handled
  <1>8. /\ Continuable(ci2, cs, at, mine, TRUE)
        /\ c.f = "lua" => Continuable(ci2, cs, at, mine, FALSE)
    <2>1. Continuable(ci, cs, at, mine, FALSE)
      BY DEF Matched, mine
    <2> QED
      BY <1>2, <1>3, <2>1 DEF Continuable
  <1> QED
    BY <1>4, <1>5, <1>6, <1>7, <1>8 DEF mine

\* What was protected still is.
ProtectingTo(ci, cs, at, mine, n) ==
    \A d \in 1 .. n : ci[d].f \in Protected =>
        \/ ci[d].ypcall /\ \A i \in mine : cs[i].nny = 1 \/ cs[i].f = "pcall" => d <= at[i]
        \/ ~ci[d].ypcall /\ \E i \in mine : cs[i].f = "pcall" /\ at[i] = d

LEMMA FrameProtects ==
    ASSUME NEW ci, NEW cs, NEW at, NEW t, Known(ci, cs, at, t),
           NEW c, NEW ci2, Longer(ci, ci2, c)
    PROVE  /\ ProtectingTo(ci2, cs, at, Mine(cs, t), Len(ci))
           /\ DOMAIN ci2 = 1 .. Len(ci) + 1 /\ Len(ci) \in Nat \ {0} /\ ci2[Len(ci) + 1] = c
           /\ Len(ci2) = Len(ci) + 1
  <1>1. Protecting(ci, cs, at, Mine(cs, t))
    BY DEF Known, Matched
  <1>2. /\ DOMAIN ci = 1 .. Len(ci) /\ \A d \in 1 .. Len(ci) : ci2[d] = ci[d]
        /\ DOMAIN ci2 = 1 .. Len(ci) + 1 /\ Len(ci) \in Nat \ {0} /\ ci2[Len(ci) + 1] = c
        /\ Len(ci2) = Len(ci) + 1
    BY DEF Longer
  <1>3. ProtectingTo(ci2, cs, at, Mine(cs, t), Len(ci))
    BY <1>1, <1>2 DEF Protecting, ProtectingTo
  <1> QED
    BY <1>2, <1>3

LEMMA FramePushed ==
    ASSUME NEW ci, NEW cs, NEW at, NEW t, Known(ci, cs, at, t), Matched(ci, cs, at, Mine(cs, t), FALSE),
           NEW c, NEW ci2, Longer(ci, ci2, c), InfosRight(ci2),
           c.f \in Protected =>
              c.ypcall /\ \A i \in Mine(cs, t) : cs[i].nny # 1 /\ cs[i].f # "pcall"
    PROVE  /\ Matched(ci2, cs, at, Mine(cs, t), TRUE)
           /\ c.f = "lua" => Matched(ci2, cs, at, Mine(cs, t), FALSE)
  <1> DEFINE mine == Mine(cs, t)
  <1>1. /\ Places(ci2, cs, at, mine) /\ Callers(ci2, cs, at, mine) /\ Begun(ci2, cs, at, mine)
        /\ Handled(ci2, cs, at, mine, FALSE) /\ Handled(ci2, cs, at, mine, TRUE)
        /\ Continuable(ci2, cs, at, mine, TRUE)
        /\ c.f = "lua" => Continuable(ci2, cs, at, mine, FALSE)
    BY FrameFits
  <1>2. /\ ProtectingTo(ci2, cs, at, mine, Len(ci))
        /\ DOMAIN ci2 = 1 .. Len(ci) + 1 /\ Len(ci) \in Nat \ {0} /\ ci2[Len(ci) + 1] = c
    BY FrameProtects
  <1> HIDE DEF mine
  <1>3. \A d \in DOMAIN ci2 : d \in 1 .. Len(ci) \/ d = Len(ci) + 1
    BY <1>2
  <1>4. Protecting(ci2, cs, at, mine)
    BY <1>2, <1>3 DEF Protecting, ProtectingTo, mine
  <1> QED
    BY <1>1, <1>4 DEF Matched, mine

OneSet(ci, n, c, ci2) ==
    ci \in Seq(CallInfos) /\ n \in 1 .. Len(ci) /\ c \in CallInfos /\ ci2 = [ci EXCEPT ![n] = c]

LEMMA OneChanged ==
    ASSUME NEW ci, NEW n, NEW c, NEW ci2, OneSet(ci, n, c, ci2)
    PROVE  /\ ci2 \in Seq(CallInfos) /\ Len(ci2) = Len(ci) /\ DOMAIN ci2 = 1 .. Len(ci)
           /\ ci2[n] = c /\ \A d \in 1 .. Len(ci) : d # n => ci2[d] = ci[d]
  BY ExceptSeq DEF OneSet

\* A hook fails in the last function.
Hooks(ci, ci2) ==
    /\ DOMAIN ci = 1 .. Len(ci) /\ Len(ci) \in Nat \ {0}
    /\ DOMAIN ci2 = DOMAIN ci /\ Len(ci2) = Len(ci) /\ ci2[Len(ci)].hooked
    /\ \A d \in DOMAIN ci : /\ ci2[d].f = ci[d].f /\ ci2[d].reentry = ci[d].reentry
                            /\ ci2[d].k = ci[d].k /\ ci2[d].ypcall = ci[d].ypcall
                            /\ ci2[d].oldAllowhook = ci[d].oldAllowhook
                            /\ d < Len(ci) => ci2[d].hooked = ci[d].hooked

LEMMA HookHooks ==
    ASSUME NEW ci, ci \in Seq(CallInfos), ci # << >>,
           NEW ci2, ci2 = [ci EXCEPT ![Len(ci)].hooked = TRUE]
    PROVE  Hooks(ci, ci2) /\ ci2 \in Seq(CallInfos) /\ ci2 # << >>
  <1>1. DOMAIN ci = 1 .. Len(ci) /\ Len(ci) \in Nat \ {0} /\ Len(ci) \in DOMAIN ci
    BY EmptySeq
  <1>2. PICK c : c = [ci[Len(ci)] EXCEPT !.hooked = TRUE]
    OBVIOUS
  <1>3. ci[Len(ci)] \in CallInfos
    BY <1>1
  <1>4. /\ c \in CallInfos /\ c.hooked
        /\ c.f = ci[Len(ci)].f /\ c.reentry = ci[Len(ci)].reentry /\ c.k = ci[Len(ci)].k
        /\ c.ypcall = ci[Len(ci)].ypcall /\ c.oldAllowhook = ci[Len(ci)].oldAllowhook
    BY <1>2, <1>3 DEF CallInfos
  <1>5. OneSet(ci, Len(ci), c, ci2)
    BY <1>1, <1>2, <1>4 DEF OneSet
  <1>6. ci2 \in Seq(CallInfos) /\ Len(ci2) = Len(ci) /\ DOMAIN ci2 = 1 .. Len(ci)
    BY <1>5, OneChanged
  <1>7. ci2[Len(ci)] = c /\ \A d \in 1 .. Len(ci) : d # Len(ci) => ci2[d] = ci[d]
    BY <1>5, OneChanged
  <1>8. \A d \in DOMAIN ci : d < Len(ci) => d # Len(ci)
    BY <1>1
  <1>9. ci2 # << >>
    BY <1>1, <1>6
  <1> QED
    BY <1>1, <1>4, <1>6, <1>7, <1>8, <1>9 DEF Hooks

LEMMA HookMatched ==
    ASSUME NEW ci, NEW cs, NEW at, NEW t, Known(ci, cs, at, t), NEW m, LastFits(cs, t, m),
           Matched(ci, cs, at, Mine(cs, t), FALSE), NEW ci2, Hooks(ci, ci2), ci[Len(ci)].f = "lua"
    PROVE  Matched(ci2, cs, at, Mine(cs, t), TRUE) /\ ~Unhooked(ci2, Len(ci2))
  <1> DEFINE mine == Mine(cs, t)
  <1>1. \A i \in mine : i \in Nat \ {0} /\ at[i] \in Nat /\ at[i] < Len(ci)
    BY KnownFacts, KnownBegun
  <1>2. /\ DOMAIN ci = 1 .. Len(ci) /\ Len(ci) \in Nat \ {0} /\ ci2[Len(ci)].hooked
        /\ DOMAIN ci2 = DOMAIN ci /\ Len(ci2) = Len(ci)
        /\ \A d \in DOMAIN ci : /\ ci2[d].f = ci[d].f /\ ci2[d].reentry = ci[d].reentry
                                /\ ci2[d].k = ci[d].k /\ ci2[d].ypcall = ci[d].ypcall
                                /\ ci2[d].oldAllowhook = ci[d].oldAllowhook
                                /\ d < Len(ci) => ci2[d].hooked = ci[d].hooked
    BY DEF Hooks
  <1> HIDE DEF mine
  <1>3. \A n \in Nat : n < Len(ci) => (Unhooked(ci2, n) <=> Unhooked(ci, n))
    BY <1>2 DEF Unhooked
  <1>4. ~Unhooked(ci2, Len(ci2))
    BY <1>2 DEF Unhooked
  <1>5. InfosRight(ci2)
    <2>1. InfosRight(ci)
      BY DEF Matched
    <2>2. \A d \in DOMAIN ci : ci[d].f # "lua" => d < Len(ci) /\ d \in Nat
      BY <1>2
    <2>3. \A d \in DOMAIN ci : ci[d].ypcall => ci[d].f # "lua"
      BY <2>1 DEF InfosRight, Protected
    <2> SUFFICES ASSUME NEW d \in DOMAIN ci
                 PROVE  /\ ci2[d].f # "lua" \/ ci2[d].reentry => d > 1 /\ ci2[d - 1].f = "lua"
                        /\ ci2[d].f # "lua" => ~ci2[d].hooked /\ ~ci2[d].reentry
                        /\ ci2[d].ypcall => /\ ci2[d].f \in Protected /\ ci2[d].k
                                            /\ ci2[d].oldAllowhook <=> Unhooked(ci2, d)
      BY <1>2 DEF InfosRight
    <2>4. d > 1 => d - 1 \in DOMAIN ci
      BY <1>2
    <2>5. ci2[d].f # "lua" \/ ci2[d].reentry => d > 1 /\ ci2[d - 1].f = "lua"
      BY <1>2, <2>1, <2>4 DEF InfosRight
    <2>6. ci2[d].f # "lua" => ~ci2[d].hooked /\ ~ci2[d].reentry
      BY <1>2, <2>1, <2>2 DEF InfosRight
    <2>7. ci2[d].ypcall => /\ ci2[d].f \in Protected /\ ci2[d].k
                           /\ ci2[d].oldAllowhook <=> Unhooked(ci2, d)
      <3> HAVE ci2[d].ypcall
      <3>1. ci[d].ypcall /\ d < Len(ci) /\ d \in Nat
        BY <1>2, <2>2, <2>3
      <3>2. Unhooked(ci2, d) <=> Unhooked(ci, d)
        BY <1>3, <3>1
      <3> QED
        BY <1>2, <2>1, <3>1, <3>2 DEF InfosRight
    <2> QED
      BY <2>5, <2>6, <2>7
  <1>6. Places(ci2, cs, at, mine)
    <2>1. Places(ci, cs, at, mine)
      BY DEF Matched, mine
    <2>2. \A i \in mine : at[i] + 1 \in DOMAIN ci
      BY <1>1, <1>2
    <2> QED
      BY <1>2, <2>1, <2>2 DEF Places
  <1>7. Callers(ci2, cs, at, mine)
    <2> SUFFICES ASSUME NEW i \in mine
                 PROVE  /\ cs[i].f = "resume" \/ i = 1 <=> at[i] = 0
                        /\ IsCall(cs[i], "operation") => ci2[at[i]].f = "lua"
                        /\ OfFunction(cs[i]) /\ i # 1 => ci2[at[i]].f # "lua"
                        /\ cs[i].f = "pcall" =>
                              /\ cs[i].ci = at[i]
                              /\ cs[i].allowhook <=> Unhooked(ci2, at[i])
                              /\ i # 1 => ci2[at[i]].f \in Protected /\ ~ci2[at[i]].ypcall
      BY DEF Callers
    <2>1. /\ cs[i].f = "resume" \/ i = 1 <=> at[i] = 0
          /\ IsCall(cs[i], "operation") => ci[at[i]].f = "lua"
          /\ OfFunction(cs[i]) /\ i # 1 => ci[at[i]].f # "lua"
          /\ cs[i].f = "pcall" =>
                /\ cs[i].ci = at[i]
                /\ cs[i].allowhook <=> Unhooked(ci, at[i])
                /\ i # 1 => ci[at[i]].f \in Protected /\ ~ci[at[i]].ypcall
      BY DEF Matched, Callers, mine
    <2>2. at[i] # 0 => ci2[at[i]].f = ci[at[i]].f /\ ci2[at[i]].ypcall = ci[at[i]].ypcall
      BY <1>1, <1>2
    <2>3. Unhooked(ci2, at[i]) <=> Unhooked(ci, at[i])
      BY <1>1, <1>3
    <2>4. cs[i].f = "resume" => ~OfFunction(cs[i]) /\ ~IsCall(cs[i], "operation") /\ cs[i].f # "pcall"
      BY DEF OfFunction, IsCall
    <2>5. i = 1 => ~IsCall(cs[i], "operation")
      <3>1. cs[1].f = "pcall"
        BY KnownFacts
      <3> QED
        BY <3>1 DEF IsCall
    <2>6. CASE at[i] = 0
      BY <2>1, <2>3, <2>4, <2>5, <2>6
    <2>7. CASE at[i] # 0
      BY <2>1, <2>2, <2>3, <2>7
    <2> QED
      BY <2>6, <2>7
  <1>8. Begun(ci2, cs, at, mine)
    <2>1. Begun(ci, cs, at, mine)
      BY DEF Matched, mine
    <2> QED
      BY <1>2, <2>1 DEF Begun
  <1>9. Handled(ci2, cs, at, mine, TRUE)
    <2>1. Handled(ci, cs, at, mine, FALSE)
      BY DEF Matched, mine
    <2>2. \A d \in DOMAIN ci : d < Len(ci) \/ d = Len(ci)
      BY <1>2
    <2> QED
      BY <1>2, <2>1, <2>2 DEF Handled
  <1>10. Continuable(ci2, cs, at, mine, TRUE)
    <2>1. Continuable(ci, cs, at, mine, FALSE)
      BY DEF Matched, mine
    <2> QED
      BY <1>2, <2>1 DEF Continuable
  <1>11. Protecting(ci2, cs, at, mine)
    <2>1. Protecting(ci, cs, at, mine)
      BY DEF Matched, mine
    <2> QED
      BY <1>2, <2>1 DEF Protecting
  <1> QED
    BY <1>4, <1>5, <1>6, <1>7, <1>8, <1>9, <1>10, <1>11 DEF Matched, mine

\* recover() keeps the CallInfos up to the protected call k, and the C call h,
\* which is lua_resume()'s.
Recovers(ci, ci2, k) ==
    /\ DOMAIN ci = 1 .. Len(ci) /\ Len(ci) \in Nat \ {0}
    /\ k \in DOMAIN ci /\ Len(ci2) = k /\ DOMAIN ci2 = 1 .. k
    /\ \A d \in 1 .. k : /\ ci2[d].f = ci[d].f /\ ci2[d].reentry = ci[d].reentry
                         /\ ci2[d].k = ci[d].k /\ ci2[d].ypcall = ci[d].ypcall
                         /\ ci2[d].oldAllowhook = ci[d].oldAllowhook
                         /\ ci2[d].hooked = ci[d].hooked

Recovered(ci, k, ci2) ==
    ci \in Seq(CallInfos) /\ k \in DOMAIN ci /\ ci2 = [SubSeq(ci, 1, k) EXCEPT ![k].stat = TRUE]

LEMMA RecoverRecovers ==
    ASSUME NEW ci, NEW k, NEW ci2, Recovered(ci, k, ci2)
    PROVE  Recovers(ci, ci2, k) /\ ci2 \in Seq(CallInfos) /\ ci2 # << >> /\ ci2[k].stat
  <1>1. DOMAIN ci = 1 .. Len(ci) /\ Len(ci) \in Nat \ {0} /\ k \in 0 .. Len(ci) /\ k \in 1 .. k
    <2>1. ci \in Seq(CallInfos) /\ k \in DOMAIN ci
      BY DEF Recovered
    <2> QED
      BY <2>1
  <1>2. PICK ci1 : ci1 = SubSeq(ci, 1, k)
    OBVIOUS
  <1>3. ci1 \in Seq(CallInfos) /\ Len(ci1) = k /\ DOMAIN ci1 = 1 .. k
    <2>1. ci \in Seq(CallInfos)
      BY DEF Recovered
    <2> QED
      BY <1>1, <1>2, <2>1, PrefixOf
  <1>4. \A d \in 1 .. k : ci1[d] = ci[d]
    <2>1. ci \in Seq(CallInfos)
      BY DEF Recovered
    <2> QED
      BY <1>1, <1>2, <2>1, PrefixOf
  <1>5. PICK c : c = [ci1[k] EXCEPT !.stat = TRUE]
    OBVIOUS
  <1>6. ci1[k] \in CallInfos
    BY <1>1, <1>3
  <1>7. /\ c \in CallInfos /\ c.stat /\ c.hooked = ci1[k].hooked
        /\ c.f = ci1[k].f /\ c.reentry = ci1[k].reentry /\ c.k = ci1[k].k
        /\ c.ypcall = ci1[k].ypcall /\ c.oldAllowhook = ci1[k].oldAllowhook
    BY <1>5, <1>6 DEF CallInfos
  <1>8. OneSet(ci1, k, c, ci2)
    <2>1. ci2 = [ci1 EXCEPT ![k] = c]
      BY <1>2, <1>5 DEF Recovered
    <2>2. ci1 \in Seq(CallInfos) /\ k \in 1 .. Len(ci1)
      BY <1>1, <1>3
    <2>3. c \in CallInfos
      BY <1>7
    <2> QED
      BY <2>1, <2>2, <2>3 DEF OneSet
  <1>12. /\ ci2 \in Seq(CallInfos) /\ Len(ci2) = Len(ci1) /\ DOMAIN ci2 = 1 .. Len(ci1)
         /\ ci2[k] = c /\ \A d \in 1 .. Len(ci1) : d # k => ci2[d] = ci1[d]
    BY <1>8, OneChanged
  <1>9. ci2 \in Seq(CallInfos) /\ Len(ci2) = k /\ DOMAIN ci2 = 1 .. k
    BY <1>3, <1>12
  <1>10. ci2[k] = c /\ \A d \in 1 .. k : d # k => ci2[d] = ci1[d]
    BY <1>3, <1>12
  <1>11. ci2 # << >>
    BY <1>1, <1>9
  <1> QED
    BY <1>1, <1>4, <1>7, <1>9, <1>10, <1>11 DEF Recovers

LEMMA RecoverMatched ==
    ASSUME NEW ci, NEW cs, NEW at, NEW t, Known(ci, cs, at, t),
           NEW k, NEW ci2, Recovers(ci, ci2, k), ci[k].ypcall,
           NEW h, h \in Mine(cs, t), cs[h].f = "resume", NEW cs2, cs2[h] = cs[h]
    PROVE  /\ Matched(ci2, cs2, at, {h}, FALSE)
           /\ ci[k].oldAllowhook <=> Unhooked(ci2, Len(ci2))
  <1> DEFINE mine == Mine(cs, t)
  <1>1. \A i \in mine : i \in Nat \ {0} /\ at[i] \in Nat /\ at[i] <= Len(ci)
    BY KnownFacts
  <1>2. /\ DOMAIN ci = 1 .. Len(ci) /\ Len(ci) \in Nat \ {0}
        /\ k \in DOMAIN ci /\ k \in Nat \ {0} /\ Len(ci2) = k /\ DOMAIN ci2 = 1 .. k
        /\ \A d \in DOMAIN ci2 :
              /\ d \in DOMAIN ci /\ d \in Nat /\ d <= k
              /\ ci2[d].f = ci[d].f /\ ci2[d].reentry = ci[d].reentry
              /\ ci2[d].k = ci[d].k /\ ci2[d].ypcall = ci[d].ypcall
              /\ ci2[d].oldAllowhook = ci[d].oldAllowhook /\ ci2[d].hooked = ci[d].hooked
    BY DEF Recovers
  <1>3. \A n \in 0 .. k : Unhooked(ci2, n) <=> Unhooked(ci, n)
    <2>1. \A d \in 1 .. k : d \in DOMAIN ci /\ d \in DOMAIN ci2
      BY <1>2
    <2>2. \A d \in DOMAIN ci : \A n \in 0 .. k : d <= n => d \in DOMAIN ci2
      BY <1>2
    <2> QED
      BY <1>2, <2>1, <2>2 DEF Unhooked
  <1>4. h \in mine
    OBVIOUS
  <1> HIDE DEF mine
  <1>5. InfosRight(ci) /\ Callers(ci, cs, at, mine) /\ Handled(ci, cs, at, mine, TRUE)
        /\ Continuable(ci, cs, at, mine, TRUE) /\ Protecting(ci, cs, at, mine)
    BY DEF Known, Matched, mine
  <1>6. at[h] = 0 /\ cs2[h].f = "resume"
    BY <1>4, <1>5 DEF Callers
  <1>7. ci[k].f \in Protected /\ ci[k].k /\ (ci[k].oldAllowhook <=> Unhooked(ci, k)) /\ ~ci[k].hooked
    BY <1>2, <1>5 DEF InfosRight, Protected
  <1>8. ci[k].oldAllowhook <=> Unhooked(ci2, Len(ci2))
    <2>1. k \in 0 .. k
      BY <1>2
    <2> QED
      BY <1>2, <1>3, <1>7, <2>1
  <1>9. InfosRight(ci2)
    <2> SUFFICES ASSUME NEW d \in DOMAIN ci2
                 PROVE  /\ ci2[d].f # "lua" \/ ci2[d].reentry => d > 1 /\ ci2[d - 1].f = "lua"
                        /\ ci2[d].f # "lua" => ~ci2[d].hooked /\ ~ci2[d].reentry
                        /\ ci2[d].ypcall => /\ ci2[d].f \in Protected /\ ci2[d].k
                                            /\ ci2[d].oldAllowhook <=> Unhooked(ci2, d)
      BY DEF InfosRight
    <2>1. d \in DOMAIN ci /\ d \in 0 .. k /\ (d > 1 => d - 1 \in DOMAIN ci2)
      BY <1>2
    <2>2. Unhooked(ci2, d) <=> Unhooked(ci, d)
      BY <1>3, <2>1
    <2> QED
      BY <1>2, <1>5, <2>1, <2>2 DEF InfosRight
  <1>10. \A i \in mine : ((Fits(i) /\ IsCall(cs[i], "errormsg")) \/ cs[i].nny = 1 \/ cs[i].f = "pcall") =>
                         k <= at[i]
    <2>1. \A i \in mine : cs[i].nny = 1 \/ cs[i].f = "pcall" => k <= at[i]
      BY <1>2, <1>5, <1>7 DEF Protecting
    <2>2. \A i \in mine : EntryRight(cs, i)
      <3>1. \A i \in mine : i \in DOMAIN cs
        BY DEF mine, Mine
      <3> QED
        BY <3>1 DEF Known, StackRight
    <2>3. \A i \in mine : Fits(i) /\ IsCall(cs[i], "errormsg") => cs[i].nny = 1
      BY <2>2 DEF EntryRight
    <2> QED
      BY <2>1, <2>3
  <1>11. Handled(ci2, cs2, at, {h}, FALSE)
    <2> SUFFICES ASSUME NEW d \in DOMAIN ci2, ci2[d].hooked
                 PROVE  FALSE
      BY DEF Handled
    <2>1. d \in DOMAIN ci /\ ci[d].hooked /\ d <= k /\ d # k /\ d # Len(ci)
      BY <1>2, <1>7
    <2>2. PICK i \in mine : Fits(i) /\ IsCall(cs[i], "errormsg") /\ at[i] = d
      BY <1>5, <2>1 DEF Handled
    <2>3. k <= d
      BY <1>10, <2>2
    <2> QED
      BY <1>2, <2>1, <2>3
  <1>12. Continuable(ci2, cs2, at, {h}, FALSE)
    <2> SUFFICES ASSUME NEW d \in DOMAIN ci2, ci2[d].f # "lua", ~ci2[d].k
                 PROVE  FALSE
      BY DEF Continuable
    <2>1. d \in DOMAIN ci /\ ci[d].f # "lua" /\ ~ci[d].k /\ d <= k /\ d # k /\ d # Len(ci)
      BY <1>2, <1>7
    <2>2. PICK i \in mine : cs[i].nny = 1 /\ at[i] = d
      BY <1>5, <2>1 DEF Continuable
    <2>3. k <= d
      BY <1>10, <2>2
    <2> QED
      BY <1>2, <2>1, <2>3
  <1>13. Protecting(ci2, cs2, at, {h})
    <2> SUFFICES ASSUME NEW d \in DOMAIN ci2, ci2[d].f \in Protected
                 PROVE  ci2[d].ypcall /\ (cs2[h].nny = 1 \/ cs2[h].f = "pcall" => d <= at[h])
      BY DEF Protecting
    <2>1. d \in DOMAIN ci /\ ci[d].f \in Protected /\ d <= k /\ d \in Nat
      BY <1>2
    <2>2. CASE ci[d].ypcall
      <3>1. cs[h].nny # 1
        <4>1. h \in DOMAIN cs
          BY <1>4 DEF mine, Mine
        <4>2. cs[h] \in Entries
          BY <4>1, StackSeq DEF Known
        <4> QED
          BY <4>2 DEF Entries
      <3> QED
        BY <1>2, <1>6, <2>2, <3>1
    <2>3. CASE ~ci[d].ypcall
      <3>1. PICK i \in mine : cs[i].f = "pcall" /\ at[i] = d
        BY <1>5, <2>1, <2>3 DEF Protecting
      <3>2. k <= d
        BY <1>10, <3>1
      <3>3. d = k
        BY <1>2, <2>1, <3>2
      <3> QED
        BY <2>3, <3>3
    <2> QED
      BY <2>2, <2>3
  <1>14. Places(ci2, cs2, at, {h})
    <2>1. h \in Nat
      BY <1>1, <1>4
    <2>2. \A i, j \in {h} : ~(i < j)
      BY <2>1
    <2> QED
      BY <1>2, <1>6, <2>2 DEF Places
  <1>15. Callers(ci2, cs2, at, {h})
    <2>1. ~OfFunction(cs2[h]) /\ ~IsCall(cs2[h], "operation") /\ cs2[h].f # "pcall"
      BY <1>6 DEF OfFunction, IsCall
    <2> QED
      BY <1>6, <2>1 DEF Callers
  <1>16. Begun(ci2, cs2, at, {h})
    BY <1>6 DEF Begun
  <1> QED
    BY <1>8, <1>9, <1>11, <1>12, <1>13, <1>14, <1>15, <1>16 DEF Matched

----------------------------------------------------------------------------
(* Steps of the thread that runs.                                          *)

\* What it has become.
Steps(t, s2, cs2, now2, at) ==
    /\ s2 \in LuaStates /\ s2.nny = NnyUpTo(cs2, t, Len(cs2)) /\ s2.nCcalls = Len(cs2)
    /\ ~s2.hasFunction /\ (s2.allowhook <=> Unhooked(s2.ci, Len(s2.ci)))
    /\ Matched(s2.ci, cs2, at, Mine(cs2, t), TRUE)
    /\ Calm(now2) => Matched(s2.ci, cs2, at, Mine(cs2, t), FALSE)
    /\ Running(s2, cs2, now2) /\ now2 \in Doings

Becomes(ths, t, s2, ths2) == ths2 = [ths EXCEPT ![t] = s2]

LEMMA KeptSame ==
    ASSUME NEW cs, StackRight(cs), NEW t, t = cs[Len(cs)].thread
    PROVE  Kept(t, cs, cs)
  BY DEF Kept

LEMMA ThreadStep ==
    ASSUME NEW ths, NEW cs, NEW now, NEW at, Right(ths, cs, now, at),
           NEW t, NEW cs2, Kept(t, cs, cs2), NEW now2, NEW s2, Steps(t, s2, cs2, now2, at),
           NEW ths2, Becomes(ths, t, s2, ths2)
    PROVE  Right(ths2, cs2, now2, at)
  <1>1. States(ths) /\ Depths(at)
    BY DEF Right
  <1>2. StackRight(cs2) /\ t = cs[Len(cs)].thread /\ t = cs2[Len(cs2)].thread
    BY DEF Kept
  <1>3. \A u : u # t => Mine(cs2, u) = Mine(cs, u) /\ \A i \in Mine(cs, u) : cs2[i] = cs[i]
    BY DEF Kept
  <1>4. t \in Threads /\ Len(cs2) \in Mine(cs2, t) /\ Mine(cs2, t) \subseteq 1 .. Len(cs2)
        /\ Mine(cs2, t) # {}
    BY <1>2, TopIsMine
  <1>5. s2 \in LuaStates /\ now2 \in Doings
    BY DEF Steps
  <1>6. States(ths2) /\ ths2[t] = s2 /\ \A u \in Threads \ {t} : ths2[u] = ths[u]
    BY <1>1, <1>4, <1>5 DEF States, Becomes
  <1>7. Counted(s2, t, cs2)
    <2>1. Len(cs2) \in Nat
      BY <1>2, StackSeq
    <2>2. \A i \in Mine(cs2, t) : i <= Len(cs2)
      BY <1>4, <2>1
    <2> QED
      BY <1>4, <2>2 DEF Counted, Steps
  <1>8. ThreadRight(t, s2, cs2, now2, at)
    <2>1. /\ Running(s2, cs2, now2) /\ Matched(s2.ci, cs2, at, Mine(cs2, t), TRUE)
          /\ Calm(now2) => Matched(s2.ci, cs2, at, Mine(cs2, t), FALSE)
      BY DEF Steps
    <2> QED
      BY <1>2, <1>4, <1>7, <2>1, RunningRight
  <1>9. OnlyFor({t}, ths, ths2, cs, cs2, at, at)
    <2>1. cs[Len(cs)].thread \in {t} /\ cs2[Len(cs2)].thread \in {t}
      BY <1>2
    <2> QED
      BY <1>3, <1>6, <2>1 DEF OnlyFor
  <1>10. \A u \in {t} : ThreadRight(u, ths2[u], cs2, now2, at)
    BY <1>6, <1>8
  <1> QED
    BY <1>1, <1>2, <1>5, <1>6, <1>9, <1>10, StepRight

\* What is known of it before the step.
Runs(s, t, cs, at) ==
    /\ Known(s.ci, cs, at, t) /\ s \in LuaStates /\ t \in Threads
    /\ s.nny = NnyUpTo(cs, t, Len(cs)) /\ s.nCcalls = Len(cs) /\ ~s.hasFunction
    /\ s.allowhook <=> Unhooked(s.ci, Len(s.ci))
    /\ t = cs[Len(cs)].thread /\ Len(cs) \in Mine(cs, t) /\ \A i \in Mine(cs, t) : i <= Len(cs)

Turn(ths, cs, t, s) == t = cs[Len(cs)].thread /\ s = ths[t]

LEMMA ThreadRuns ==
    ASSUME NEW ths, NEW cs, NEW now, NEW at, Right(ths, cs, now, at),
           NEW t, NEW s, Turn(ths, cs, t, s)
    PROVE  /\ s.ci # << >> => Runs(s, t, cs, at)
           /\ Running(s, cs, now) /\ now \in Doings /\ StackRight(cs) /\ t \in Threads
           /\ Calm(now) => Matched(s.ci, cs, at, Mine(cs, t), FALSE)
           /\ Kept(t, cs, cs)
  <1>1. /\ StackRight(cs) /\ t \in Threads /\ s \in LuaStates /\ now \in Doings
        /\ s.ci \in Seq(CallInfos) /\ s.nCcalls = Len(cs) /\ Len(cs) \in Nat \ {0}
        /\ Len(cs) \in Mine(cs, t) /\ Mine(cs, t) \subseteq 1 .. Len(cs)
    BY RunningThread DEF Turn
  <1>2. /\ Counted(s, t, cs) /\ Running(s, cs, now) /\ Depths(at)
        /\ Matched(s.ci, cs, at, Mine(cs, t), ~Calm(now))
    BY RunningThread DEF Turn
  <1>3. Matched(s.ci, cs, at, Mine(cs, t), TRUE)
    BY <1>2 DEF Matched, Handled, Continuable
  <1>4. Calm(now) => Matched(s.ci, cs, at, Mine(cs, t), FALSE)
    BY <1>2 DEF Matched, Handled, Continuable
  <1>5. \A i \in Mine(cs, t) : i <= Len(cs)
    BY <1>1
  <1>6. s.ci # << >> => Runs(s, t, cs, at)
    BY <1>1, <1>2, <1>3, <1>5 DEF Runs, Known, Counted, Turn
  <1> QED
    BY <1>1, <1>2, <1>4, <1>6, KeptSame DEF Turn

LEMMA ThreadInLua ==
    ASSUME NEW ths, NEW cs, NEW now, NEW at, Right(ths, cs, now, at), now.at = "lua",
           NEW t, NEW s, Turn(ths, cs, t, s)
    PROVE  /\ Runs(s, t, cs, at) /\ Kept(t, cs, cs) /\ StackRight(cs) /\ s.status = "OK"
           /\ s.ci # << >> /\ s.ci[Len(s.ci)].f = "lua" /\ ~s.ci[Len(s.ci)].hooked
           /\ Fits(Len(cs)) /\ LastFits(cs, t, Len(cs)) /\ now = [at |-> "lua", status |-> "OK"]
           /\ Matched(s.ci, cs, at, Mine(cs, t), FALSE)
  <1>1. Running(s, cs, now) /\ StackRight(cs) /\ Kept(t, cs, cs) /\ now \in Doings
        /\ Matched(s.ci, cs, at, Mine(cs, t), FALSE) /\ (s.ci # << >> => Runs(s, t, cs, at))
    BY ThreadRuns DEF Calm
  <1>2. now = [at |-> "lua", status |-> "OK"]
    BY <1>1 DEF Doings
  <1>3. s.status = "OK" /\ s.ci # << >> /\ s.ci[Len(s.ci)].f = "lua" /\ Fits(Len(cs))
    BY <1>1, <1>2 DEF Running
  <1>4. LastFits(cs, t, Len(cs))
    BY <1>1, <1>3 DEF LastFits, Runs
  <1>5. ~s.ci[Len(s.ci)].hooked
    BY <1>1, <1>3, <1>4, LastUnhooked DEF Runs
  <1> QED
    BY <1>1, <1>2, <1>3, <1>4, <1>5

SameBut(s, s2) ==
    /\ s2 \in LuaStates /\ s2.nny = s.nny /\ s2.nCcalls = s.nCcalls
    /\ s2.hasFunction = s.hasFunction /\ s2.allowhook = s.allowhook

LEMMA ReframedSteps ==
    ASSUME NEW s, NEW t, NEW cs, NEW at, Runs(s, t, cs, at), NEW s2, SameBut(s, s2),
           NEW ci2, ci2 = s2.ci,
           Unhooked(ci2, Len(ci2)) <=> Unhooked(s.ci, Len(s.ci)),
           NEW now2, now2 \in Doings, Running(s2, cs, now2),
           Matched(ci2, cs, at, Mine(cs, t), TRUE),
           Calm(now2) => Matched(ci2, cs, at, Mine(cs, t), FALSE)
    PROVE  Steps(t, s2, cs, now2, at)
  BY DEF Runs, SameBut, Steps

\* Only the list of CallInfos changes.
Reframes(s, ci2, s2) ==
    s \in LuaStates /\ ci2 \in Seq(CallInfos) /\ s2 = [s EXCEPT !.ci = ci2]

LEMMA ReframedState ==
    ASSUME NEW s, NEW ci2, NEW s2, Reframes(s, ci2, s2)
    PROVE  SameBut(s, s2) /\ s2.ci = ci2 /\ s2.status = s.status /\ s2.errfunc = s.errfunc
  BY DEF Reframes, SameBut, LuaStates

LEMMA SameUnhooked ==
    ASSUME NEW ci, NEW ci2, NEW k, Shorter(ci, ci2, k),
           \A d \in DOMAIN ci : k < d => ~ci[d].hooked
    PROVE  Unhooked(ci2, Len(ci2)) <=> Unhooked(ci, Len(ci))
  <1>1. /\ DOMAIN ci = 1 .. Len(ci) /\ Len(ci) \in Nat /\ k \in Nat /\ k < Len(ci) /\ Len(ci2) = k
        /\ Unhooked(ci2, k) <=> Unhooked(ci, k)
    BY DEF Shorter
  <1>2. Unhooked(ci, k) <=> Unhooked(ci, Len(ci))
    BY <1>1 DEF Unhooked
  <1> QED
    BY <1>1, <1>2

LEMMA FrontIsPrefix ==
    ASSUME NEW ci, ci \in Seq(CallInfos), ci # << >>, NEW ci2, ci2 = Front(ci)
    PROVE  ci2 = SubSeq(ci, 1, Len(ci) - 1) /\ Len(ci) - 1 \in Nat /\ Len(ci) \in Nat \ {0}
           /\ Last(ci) = ci[Len(ci)]
  <1>1. Len(ci) \in Nat \ {0}
    BY EmptySeq
  <1> QED
    BY <1>1 DEF Front, Last

LEMMA AppendThenFront ==
    ASSUME NEW ci, ci \in Seq(CallInfos), NEW c, c \in CallInfos
    PROVE  Front(Append(ci, c)) = ci /\ Last(Append(ci, c)) = c /\ Append(ci, c) \in Seq(CallInfos)
  <1>1. /\ Append(ci, c) \in Seq(CallInfos) /\ Len(Append(ci, c)) = Len(ci) + 1
        /\ \A d \in 1 .. Len(ci) : Append(ci, c)[d] = ci[d]
        /\ Append(ci, c)[Len(ci) + 1] = c
    BY AppendProperties
  <1>2. Len(ci) \in Nat /\ Len(ci) + 1 - 1 = Len(ci)
    OBVIOUS
  <1>3. PICK ci1 : ci1 = Append(ci, c)
    OBVIOUS
  <1>4. Front(ci1) = SubSeq(ci1, 1, Len(ci))
    BY <1>1, <1>2, <1>3 DEF Front
  <1>5. SubSeq(ci1, 1, Len(ci)) = ci
    <2>1. SubSeq(ci1, 1, Len(ci)) \in Seq(CallInfos) /\ Len(SubSeq(ci1, 1, Len(ci))) = Len(ci)
          /\ \A d \in 1 .. Len(ci) : SubSeq(ci1, 1, Len(ci))[d] = ci1[d]
      BY <1>1, <1>2, <1>3, PrefixOf
    <2> QED
      BY <1>1, <1>3, <2>1, SeqEqual
  <1>6. Last(ci1) = c
    BY <1>1, <1>3 DEF Last
  <1> QED
    BY <1>1, <1>3, <1>4, <1>5, <1>6

\* A function that makes no C call is called in Lua, and is the last then.
Pushes(s, c, ci2, s2) ==
    /\ c \in CallInfos /\ ~c.hooked /\ ~c.ypcall /\ c.f \notin Protected /\ (c.f = "lua" <=> c.reentry)
    /\ ci2 = Append(s.ci, c) /\ SameBut(s, s2) /\ s2.ci = ci2

LEMMA PushSteps ==
    ASSUME NEW ths, NEW cs, NEW now, NEW at, Right(ths, cs, now, at), now.at = "lua",
           NEW t, NEW s, Turn(ths, cs, t, s),
           NEW c, NEW ci2, NEW s2, Pushes(s, c, ci2, s2),
           NEW now2, now2 \in Doings, Running(s2, cs, now2), Calm(now2) => c.f = "lua"
    PROVE  Steps(t, s2, cs, now2, at)
  <1>1. /\ Runs(s, t, cs, at) /\ s.ci # << >> /\ s.ci[Len(s.ci)].f = "lua"
        /\ Matched(s.ci, cs, at, Mine(cs, t), FALSE)
    BY ThreadInLua
  <1>2. PICK ci : ci = s.ci
    OBVIOUS
  <1>3. /\ Known(ci, cs, at, t) /\ ci \in Seq(CallInfos) /\ ci # << >> /\ ci[Len(ci)].f = "lua"
        /\ Matched(ci, cs, at, Mine(cs, t), FALSE) /\ InfosRight(ci)
    BY <1>1, <1>2 DEF Runs, Known, Matched
  <1>4. /\ c \in CallInfos /\ ~c.hooked /\ ~c.ypcall /\ c.f \notin Protected /\ (c.f = "lua" <=> c.reentry)
        /\ ci2 = Append(ci, c) /\ SameBut(s, s2) /\ s2.ci = ci2
    BY <1>2 DEF Pushes
  <1>5. /\ Longer(ci, ci2, c) /\ InfosRight(ci2)
        /\ Unhooked(ci2, Len(ci2)) <=> Unhooked(ci, Len(ci))
    BY <1>3, <1>4, PushIsLonger
  <1>6. /\ Matched(ci2, cs, at, Mine(cs, t), TRUE)
        /\ c.f = "lua" => Matched(ci2, cs, at, Mine(cs, t), FALSE)
    BY <1>3, <1>4, <1>5, FramePushed
  <1>7. Unhooked(ci2, Len(ci2)) <=> Unhooked(s.ci, Len(s.ci))
    BY <1>2, <1>5
  <1>8. SameBut(s, s2) /\ s2.ci = ci2
    BY <1>4
  <1> QED
    BY <1>1, <1>6, <1>7, <1>8, ReframedSteps

----------------------------------------------------------------------------
(* The actions, one by one.                                                *)

LEMMA TheTurn ==
    ASSUME NEW at, Right(th, cstack, doing, at)
    PROVE  /\ Turn(th, cstack, Thread, th[Thread]) /\ Thread = cstack[Len(cstack)].thread
           /\ Thread \in Threads /\ States(th) /\ th[Thread] \in LuaStates /\ StackRight(cstack)
           /\ Top(Thread) = th[Thread].ci[Len(th[Thread].ci)]
  <1>1. StackRight(cstack) /\ States(th)
    BY DEF Right
  <1>2. Thread = cstack[Len(cstack)].thread
    BY <1>1, StackSeq DEF Thread
  <1>3. Thread \in Threads
    BY <1>1, <1>2, StackSeq
  <1>4. th[Thread] \in LuaStates
    BY <1>1, <1>3 DEF States
  <1> QED
    BY <1>1, <1>2, <1>3, <1>4 DEF Turn, Top, Last

\* A frame of this kind may be pushed.
Plain(c) == c \in CallInfos /\ ~c.hooked /\ ~c.ypcall /\ c.f \notin Protected /\ (c.f = "lua" <=> c.reentry)

LEMMA PlainFrames ==
    /\ Plain(LuaFunction(TRUE)) /\ LuaFunction(TRUE).f = "lua"
    /\ \A f \in {"c", "yield", "resume", "wrap"} : Plain(CFunction(f)) /\ CFunction(f).f = f
  BY FramesAreCallInfos DEF Plain, Protected

PushedAs(s, c, s2) == s \in LuaStates /\ Plain(c) /\ s2 = [s EXCEPT !.ci = Append(s.ci, c)]

LEMMA PushedIs ==
    ASSUME NEW s, NEW c, NEW s2, PushedAs(s, c, s2)
    PROVE  /\ Pushes(s, c, s2.ci, s2) /\ s2.status = s.status
           /\ s2.ci # << >> /\ s2.ci[Len(s2.ci)] = c
  <1>1. s \in LuaStates /\ Plain(c) /\ c \in CallInfos /\ s.ci \in Seq(CallInfos)
    BY DEF PushedAs, Plain, LuaStates
  <1>2. PICK ci : ci = s.ci /\ ci \in Seq(CallInfos)
    BY <1>1
  <1>3. PICK ci2 : ci2 = Append(ci, c)
    OBVIOUS
  <1>4. ci2 \in Seq(CallInfos)
    BY <1>1, <1>2, <1>3, AppendThenFront
  <1>5. Reframes(s, ci2, s2)
    BY <1>1, <1>2, <1>3, <1>4 DEF Reframes, PushedAs
  <1>6. SameBut(s, s2) /\ s2.ci = ci2 /\ s2.status = s.status
    BY <1>5, ReframedState
  <1>7. Pushes(s, c, ci2, s2)
    BY <1>1, <1>2, <1>3, <1>6 DEF Pushes, Plain
  <1>8. ci2 # << >> /\ Len(ci2) = Len(ci) + 1
    BY <1>1, <1>2, <1>3, LongerBy
  <1>9. ci2[Len(ci) + 1] = c
    BY <1>1, <1>2, <1>3, LongerBy
  <1> QED
    BY <1>6, <1>7, <1>8, <1>9

LEMMA CallStep ==
    ASSUME NEW at, Right(th, cstack, doing, at), Call
    PROVE  Right(th', cstack', doing', at)
  <1>1. PICK t, s : t = Thread /\ s = th[t]
    OBVIOUS
  <1>2. Turn(th, cstack, t, s) /\ s \in LuaStates
    BY <1>1, TheTurn
  <1>3. doing.at = "lua" /\ cstack' = cstack /\ doing' = doing
        /\ th' = [th EXCEPT ![t] = [s EXCEPT !.ci = Append(@, LuaFunction(TRUE))]]
    BY <1>1 DEF Call, InLua, In, Pushed
  <1>4. doing.at = "lua"
    BY <1>3
  <1>5. PICK c : c = LuaFunction(TRUE) /\ Plain(c) /\ c.f = "lua"
    BY PlainFrames
  <1>6. PICK s2 : s2 = [s EXCEPT !.ci = Append(s.ci, c)]
    OBVIOUS
  <1>7. PushedAs(s, c, s2)
    BY <1>2, <1>5, <1>6 DEF PushedAs
  <1>8. Pushes(s, c, s2.ci, s2) /\ s2.status = s.status /\ s2.ci # << >> /\ s2.ci[Len(s2.ci)] = c
    BY <1>7, PushedIs
  <1>9. /\ Runs(s, t, cstack, at) /\ s.ci # << >> /\ s.status = "OK" /\ Fits(Len(cstack))
        /\ Kept(t, cstack, cstack)
    BY <1>2, <1>4, ThreadInLua
  <1>10. Running(s2, cstack, doing) /\ doing \in Doings
    <2>1. doing \in Doings
      BY DEF Right
    <2>2. doing # [at |-> "throw", status |-> "YIELD"]
      BY <1>4
    <2> QED
      BY <1>4, <1>5, <1>8, <1>9, <2>1, <2>2 DEF Running
  <1>11. Steps(t, s2, cstack, doing, at)
    BY <1>2, <1>4, <1>5, <1>8, <1>10, PushSteps
  <1>12. Becomes(th, t, s2, th')
    BY <1>3, <1>5, <1>6 DEF Becomes
  <1>13. Right(th', cstack, doing, at)
    BY <1>9, <1>11, <1>12, ThreadStep
  <1> QED
    BY <1>3, <1>13

LEMMA ErrorStep ==
    ASSUME NEW at, Right(th, cstack, doing, at), Error
    PROVE  Right(th', cstack', doing', at)
  <1>1. PICK t, s : t = Thread /\ s = th[t]
    OBVIOUS
  <1>2. Turn(th, cstack, t, s)
    BY <1>1, TheTurn
  <1>3. doing.at = "lua" /\ cstack' = cstack /\ th' = th /\ doing' = [at |-> "errormsg", status |-> "OK"]
    BY DEF Error, InLua, In, Go
  <1>4. doing.at = "lua"
    BY <1>3
  <1>5. /\ Runs(s, t, cstack, at) /\ s.ci # << >> /\ s.status = "OK" /\ Fits(Len(cstack))
        /\ Kept(t, cstack, cstack)
    BY <1>2, <1>4, ThreadInLua
  <1>6. PICK now2 : now2 = [at |-> "errormsg", status |-> "OK"]
    OBVIOUS
  <1>7. now2 \in Doings /\ ~Calm(now2) /\ Running(s, cstack, now2)
    BY <1>5, <1>6 DEF Doings, Calm, Running
  <1>8. SameBut(s, s)
    BY <1>5 DEF SameBut, Runs
  <1>9. Matched(s.ci, cstack, at, Mine(cstack, t), TRUE)
    BY <1>5 DEF Runs, Known
  <1>10. Steps(t, s, cstack, now2, at)
    BY <1>5, <1>7, <1>8, <1>9, ReframedSteps
  <1>11. Becomes(th, t, s, th)
    <2>1. States(th) /\ t \in Threads
      BY <1>1, TheTurn
    <2> QED
      BY <1>1, <2>1 DEF Becomes, States
  <1>12. Right(th, cstack, now2, at)
    BY <1>5, <1>10, <1>11, ThreadStep
  <1> QED
    BY <1>3, <1>6, <1>12

LEMMA YieldStep ==
    ASSUME NEW at, Right(th, cstack, doing, at), Yield
    PROVE  Right(th', cstack', doing', at)
  <1>1. PICK t, s : t = Thread /\ s = th[t]
    OBVIOUS
  <1>2. Turn(th, cstack, t, s) /\ s \in LuaStates
    BY <1>1, TheTurn
  <1>3. PICK c : c = CFunction("yield") /\ Plain(c) /\ c.f = "yield"
    BY PlainFrames
  <1>4. PICK s1 : s1 = [s EXCEPT !.ci = Append(s.ci, c)]
    OBVIOUS
  <1>5. /\ doing.at = "lua" /\ cstack' = cstack
        /\ \/ /\ s1.nny > 0 /\ th' = [th EXCEPT ![t] = s1]
              /\ doing' = [at |-> "errormsg", status |-> "OK"]
           \/ /\ ~(s1.nny > 0) /\ th' = [th EXCEPT ![t] = [s1 EXCEPT !.status = "YIELD"]]
              /\ doing' = [at |-> "throw", status |-> "YIELD"]
    BY <1>1, <1>3, <1>4 DEF Yield, InLua, In, Go, Throw, Pushed
  <1>6. doing.at = "lua"
    BY <1>5
  <1>7. PushedAs(s, c, s1)
    BY <1>2, <1>3, <1>4 DEF PushedAs
  <1>8. Pushes(s, c, s1.ci, s1) /\ s1.status = s.status /\ s1.ci # << >> /\ s1.ci[Len(s1.ci)] = c
    BY <1>7, PushedIs
  <1>9. /\ s.status = "OK" /\ Fits(Len(cstack)) /\ Kept(t, cstack, cstack) /\ Runs(s, t, cstack, at)
    BY <1>2, <1>6, ThreadInLua
  <1>10. CASE s1.nny > 0
    <2>1. PICK now2 : now2 = [at |-> "errormsg", status |-> "OK"]
      OBVIOUS
    <2>2. now2 \in Doings /\ ~Calm(now2) /\ Running(s1, cstack, now2)
      BY <1>8, <1>9, <2>1 DEF Doings, Calm, Running
    <2>3. Steps(t, s1, cstack, now2, at)
      BY <1>2, <1>6, <1>8, <2>2, PushSteps
    <2>4. Becomes(th, t, s1, th') /\ cstack' = cstack /\ doing' = now2
      BY <1>5, <1>10, <2>1 DEF Becomes
    <2>5. Right(th', cstack, now2, at)
      BY <1>9, <2>3, <2>4, ThreadStep
    <2> QED
      BY <2>4, <2>5
  <1>11. CASE ~(s1.nny > 0)
    <2>1. PICK now2 : now2 = [at |-> "throw", status |-> "YIELD"]
      OBVIOUS
    <2>2. PICK s2 : s2 = [s1 EXCEPT !.status = "YIELD"]
      OBVIOUS
    <2>3. SameBut(s, s1)
      BY <1>8 DEF Pushes
    <2>4. SameBut(s, s2) /\ s2.ci = s1.ci /\ s2.status = "YIELD" /\ s2.nny = s1.nny
      BY <2>2, <2>3 DEF SameBut, LuaStates, Statuses
    <2>5. Pushes(s, c, s1.ci, s2)
      BY <1>8, <2>4 DEF Pushes
    <2>6. s2.nny = 0
      <3>1. s.nny \in Nat
        <4>1. cstack \in Seq(Entries) /\ Len(cstack) \in Int
          BY <1>9, StackSeq DEF Kept
        <4>2. Cardinality(Nnys(cstack, t, Len(cstack))) \in Nat
          BY <4>1, NnysFinite
        <4> QED
          BY <1>9, <4>2 DEF Runs, NnyUpTo, Base
      <3> QED
        BY <1>11, <2>4, <3>1 DEF SameBut
    <2>7. now2 \in Doings /\ ~Calm(now2) /\ Running(s2, cstack, now2)
      BY <1>3, <1>8, <1>9, <2>1, <2>4, <2>6 DEF Doings, Calm, Running
    <2>8. Steps(t, s2, cstack, now2, at)
      BY <1>2, <1>6, <2>5, <2>7, PushSteps
    <2>9. Becomes(th, t, s2, th') /\ cstack' = cstack /\ doing' = now2
      BY <1>5, <1>11, <2>1, <2>2 DEF Becomes
    <2>10. Right(th', cstack, now2, at)
      BY <1>9, <2>8, <2>9, ThreadStep
    <2> QED
      BY <2>9, <2>10
  <1> QED
    BY <1>10, <1>11

LEMMA HookFailsStep ==
    ASSUME NEW at, Right(th, cstack, doing, at), HookFails
    PROVE  Right(th', cstack', doing', at)
  <1>1. PICK t, s : t = Thread /\ s = th[t]
    OBVIOUS
  <1>2. Turn(th, cstack, t, s) /\ s \in LuaStates
    BY <1>1, TheTurn
  <1>3. PICK ci, ci2 : ci = s.ci /\ ci2 = [ci EXCEPT ![Len(ci)].hooked = TRUE]
    OBVIOUS
  <1>4. PICK s2 : s2 = [s EXCEPT !.allowhook = FALSE, !.ci = ci2]
    OBVIOUS
  <1>5. PICK now2 : now2 = [at |-> "errormsg", status |-> "OK"]
    OBVIOUS
  <1>6. doing.at = "lua" /\ cstack' = cstack /\ doing' = now2
    BY <1>5 DEF HookFails, InLua, In, Go
  <1>7. Becomes(th, t, s2, th')
    <2>1. States(th) /\ t \in Threads
      BY <1>1, TheTurn
    <2>2. th' = [th EXCEPT ![t].allowhook = FALSE, ![t].ci[Len(th[t].ci)].hooked = TRUE]
      BY <1>1 DEF HookFails
    <2> QED
      BY <1>1, <1>3, <1>4, <2>1, <2>2 DEF Becomes, States, LuaStates
  <1>8. doing.at = "lua"
    BY <1>6
  <1>9. /\ Runs(s, t, cstack, at) /\ s.ci # << >> /\ s.status = "OK" /\ Fits(Len(cstack))
        /\ Kept(t, cstack, cstack) /\ LastFits(cstack, t, Len(cstack))
    BY <1>2, <1>8, ThreadInLua
  <1>10. Matched(s.ci, cstack, at, Mine(cstack, t), FALSE) /\ s.ci[Len(s.ci)].f = "lua"
    BY <1>2, <1>8, ThreadInLua
  <1>11. ci \in Seq(CallInfos) /\ ci # << >> /\ Known(ci, cstack, at, t)
    BY <1>3, <1>9 DEF Runs, Known
  <1>12. Hooks(ci, ci2) /\ ci2 \in Seq(CallInfos) /\ ci2 # << >>
    BY <1>3, <1>11, HookHooks
  <1>13. Matched(ci2, cstack, at, Mine(cstack, t), TRUE) /\ ~Unhooked(ci2, Len(ci2))
    <2>1. Matched(ci, cstack, at, Mine(cstack, t), FALSE) /\ ci[Len(ci)].f = "lua"
      BY <1>3, <1>10
    <2> QED
      BY <1>9, <1>11, <1>12, <2>1, HookMatched
  <1>14. /\ s2 \in LuaStates /\ s2.ci = ci2 /\ s2.allowhook = FALSE /\ s2.nny = s.nny
         /\ s2.nCcalls = s.nCcalls /\ s2.hasFunction = s.hasFunction /\ s2.status = s.status
    BY <1>2, <1>4, <1>12 DEF LuaStates
  <1>15. now2 \in Doings /\ ~Calm(now2) /\ Running(s2, cstack, now2)
    BY <1>5, <1>9, <1>12, <1>14 DEF Doings, Calm, Running
  <1>16. Steps(t, s2, cstack, now2, at)
    BY <1>9, <1>13, <1>14, <1>15 DEF Steps, Runs
  <1>17. Right(th', cstack, now2, at)
    BY <1>7, <1>9, <1>16, ThreadStep
  <1> QED
    BY <1>6, <1>17

\* A C call that returns was counted, and is not any longer.
LEMMA NnyBelow ==
    ASSUME NEW cs, StackRight(cs), NEW h, NEW t, NEW cs2, Ends(h, t, cs, cs2), h = Len(cs)
    PROVE  NnyUpTo(cs2, t, Len(cs2)) = NnyUpTo(cs, t, h) - cs[h].nny
  <1>1. cs \in Seq(Entries) /\ Len(cs) \in Nat \ {0} /\ DOMAIN cs = 1 .. Len(cs) /\ cs[h].nny \in {0, 1}
    <2>1. cs \in Seq(Entries) /\ Len(cs) \in Nat \ {0} /\ DOMAIN cs = 1 .. Len(cs)
      BY StackSeq
    <2>2. Len(cs) \in DOMAIN cs /\ cs[Len(cs)].nny \in {0, 1}
      BY StackSeq
    <2> QED
      BY <2>1, <2>2
  <1>2. NnyUpTo(cs2, t, h - 1) = NnyUpTo(cs, t, h - 1) /\ Len(cs2) = h - 1
    BY CallEnds
  <1>3. cs[h].thread = t
    BY <1>1 DEF Ends
  <1>4. NnyUpTo(cs, t, h) = NnyUpTo(cs, t, h - 1) + (IF cs[h].thread = t /\ cs[h].nny = 1 THEN 1 ELSE 0)
    <2>1. h \in 1 .. Len(cs)
      BY <1>1
    <2> QED
      BY <1>1, <2>1, NnyAdd
  <1>5. NnyUpTo(cs, t, h - 1) \in Int
    <2>1. h - 1 \in Int
      BY <1>1
    <2> QED
      BY <1>1, <2>1, NnysFinite
  <1>6. (IF cs[h].thread = t /\ cs[h].nny = 1 THEN 1 ELSE 0) = cs[h].nny
    BY <1>1, <1>3
  <1>7. PICK m : m = cs[h].nny /\ m \in {0, 1}
    BY <1>1
  <1>8. PICK a : a = NnyUpTo(cs, t, h - 1) /\ a \in Int
    BY <1>5
  <1>9. NnyUpTo(cs, t, h) = a + m
    BY <1>4, <1>6, <1>7, <1>8
  <1>10. a = (a + m) - m
    BY <1>7, <1>8
  <1> QED
    BY <1>2, <1>7, <1>8, <1>9, <1>10

\* The last C call returns, with as many CallInfos as are left in s2.
Returned(s, e, s2) ==
    /\ s2 \in LuaStates /\ s2.nny = s.nny - e.nny /\ s2.nCcalls = s.nCcalls - 1
    /\ s2.hasFunction = s.hasFunction /\ s2.allowhook = s.allowhook /\ s2.status = s.status

LEMMA ReturnedSteps ==
    ASSUME NEW s, NEW t, NEW cs, NEW at, Runs(s, t, cs, at), NEW h, NEW cs2, Ends(h, t, cs, cs2),
           h = Len(cs), NEW s2, Returned(s, cs[h], s2), NEW ci2, ci2 = s2.ci,
           Unhooked(ci2, Len(ci2)) <=> Unhooked(s.ci, Len(s.ci)),
           NEW now2, now2 \in Doings, Running(s2, cs2, now2),
           Matched(ci2, cs2, at, Mine(cs2, t), TRUE),
           Calm(now2) => Matched(ci2, cs2, at, Mine(cs2, t), FALSE)
    PROVE  Steps(t, s2, cs2, now2, at)
  <1>1. StackRight(cs)
    BY DEF Runs, Known
  <1>2. Len(cs2) = h - 1
    BY <1>1, CallEnds
  <1>3. NnyUpTo(cs2, t, Len(cs2)) = NnyUpTo(cs, t, h) - cs[h].nny
    BY <1>1, NnyBelow
  <1>4. s2.nny = NnyUpTo(cs2, t, Len(cs2)) /\ s2.nCcalls = Len(cs2)
    BY <1>2, <1>3 DEF Runs, Returned
  <1>5. s2 \in LuaStates /\ ~s2.hasFunction /\ (s2.allowhook <=> Unhooked(ci2, Len(ci2)))
    BY DEF Runs, Returned
  <1> QED
    BY <1>4, <1>5 DEF Steps

\* In Lua, the function that has been called last returns, and with it the C
\* call that has begun it.
LuaNow    == [at |-> "lua", status |-> "OK"]
Failing   == [at |-> "throw", status |-> "ERRRUN"]
CallIsOver(s, cs, t, h, cs2, s2) ==
    /\ h = Len(cs) /\ Ends(h, t, cs, cs2) /\ Returned(s, cs[h], s2)
    /\ ~s.ci[Len(s.ci)].reentry

\* It has begun the last CallInfo.
LEMMA BeginsLast ==
    ASSUME NEW s, NEW t, NEW cs, NEW at, Runs(s, t, cs, at), LastFits(cs, t, Len(cs)),
           s.ci[Len(s.ci)].f = "lua",
           NEW h, NEW cs2, NEW s2, CallIsOver(s, cs, t, h, cs2, s2)
    PROVE  /\ at[h] \in Nat /\ at[h] + 1 = Len(s.ci) /\ Len(s.ci) \in Nat \ {0}
           /\ h \in Mine(cs, t) /\ Fits(h) /\ DOMAIN s.ci = 1 .. Len(s.ci)
           /\ Kept(t, cs, cs2) /\ Len(cs2) = h - 1 /\ (Fits(h - 1) \/ IsCall(cs[h], "errormsg"))
  <1>1. h = Len(cs) /\ Ends(h, t, cs, cs2) /\ ~s.ci[Len(s.ci)].reentry
    BY DEF CallIsOver
  <1>2. PICK ci : ci = s.ci
    OBVIOUS
  <1>3. Known(ci, cs, at, t) /\ ci[Len(ci)].f = "lua" /\ ~ci[Len(ci)].reentry
    BY <1>1, <1>2 DEF Runs
  <1>4. cs[h].f # "resume" /\ Fits(h) /\ LastFits(cs, t, h) /\ h \in Mine(cs, t)
    BY <1>1 DEF Ends, LastFits
  <1>5. at[h] + 1 = Len(ci)
    BY <1>3, <1>4, LastIsBegun
  <1>6. at[h] \in Nat /\ Len(ci) \in Nat \ {0} /\ DOMAIN ci = 1 .. Len(ci)
    BY <1>3, <1>4, KnownFacts
  <1>7. StackRight(cs)
    BY <1>3 DEF Known
  <1>8. Kept(t, cs, cs2) /\ Len(cs2) = h - 1 /\ (Fits(h - 1) \/ IsCall(cs[h], "errormsg"))
    BY <1>1, <1>7, CallEnds
  <1> QED
    BY <1>2, <1>4, <1>5, <1>6, <1>8

LEMMA EmptyShort ==
    ASSUME NEW ci, NEW ci2, Shorter(ci, ci2, 0)
    PROVE  ci2 = << >>
  <1>1. DOMAIN ci2 = {} /\ Len(ci2) = 0
    BY DEF Shorter
  <1> QED
    BY <1>1

\* With a function that is a Lua function's, the CallInfos that are gone have
\* run no hook.
LEMMA OperationReturns ==
    ASSUME NEW ths, NEW cs, NEW now, NEW at, Right(ths, cs, now, at), now.at = "lua",
           NEW t, NEW s, Turn(ths, cs, t, s),
           NEW h, NEW cs2, NEW s2, CallIsOver(s, cs, t, h, cs2, s2), s2.ci = Front(s.ci),
           NEW now2, \/ IsCall(cs[h], "operation") /\ now2 = LuaNow
                     \/ IsCall(cs[h], "errormsg") /\ now2 = Failing
    PROVE  Steps(t, s2, cs2, now2, at) /\ Kept(t, cs, cs2)
  <1>1. /\ Runs(s, t, cs, at) /\ s.ci # << >> /\ s.ci[Len(s.ci)].f = "lua" /\ s.status = "OK"
        /\ Fits(Len(cs)) /\ LastFits(cs, t, Len(cs)) /\ ~s.ci[Len(s.ci)].hooked
    BY ThreadInLua
  <1>2. PICK ci, ci2 : ci = s.ci /\ ci2 = s2.ci
    OBVIOUS
  <1>3. Known(ci, cs, at, t) /\ ci # << >> /\ ci \in Seq(CallInfos) /\ ~ci[Len(ci)].hooked
    BY <1>1, <1>2 DEF Runs, Known
  <1>4. /\ at[h] \in Nat /\ at[h] + 1 = Len(s.ci) /\ h \in Mine(cs, t) /\ Fits(h)
        /\ Kept(t, cs, cs2) /\ Len(cs2) = h - 1 /\ (Fits(h - 1) \/ IsCall(cs[h], "errormsg"))
        /\ DOMAIN s.ci = 1 .. Len(s.ci) /\ Len(s.ci) \in Nat \ {0}
    BY <1>1, BeginsLast
  <1>5. h = Len(cs) /\ Ends(h, t, cs, cs2) /\ Returned(s, cs[h], s2)
    BY DEF CallIsOver
  <1>6. ci2 = SubSeq(ci, 1, Len(ci) - 1)
    BY <1>2, <1>3, FrontIsPrefix
  <1>7. PICK k : k = at[h]
    OBVIOUS
  <1>8. k \in Nat /\ k = Len(ci) - 1
    BY <1>2, <1>4, <1>7
  <1>9. ci2 = SubSeq(ci, 1, k)
    BY <1>6, <1>8
  <1>10. Matched(ci2, cs2, at, Mine(cs2, t), TRUE) /\ Shorter(ci, ci2, k) /\ ci2 # << >>
         /\ (IsCall(cs[h], "operation") =>
               Matched(ci2, cs2, at, Mine(cs2, t), FALSE) /\ ci2[Len(ci2)].f = "lua")
    <2>1. \/ IsCall(cs[h], "operation") \/ IsCall(cs[h], "errormsg")
      OBVIOUS
    <2>2. Known(ci, cs, at, t) /\ Ends(h, t, cs, cs2) /\ h = Len(cs) /\ Fits(h)
      BY <1>3, <1>4, <1>5
    <2>3. Matched(ci2, cs2, at, Mine(cs2, t), TRUE)
      BY <1>7, <1>9, <2>1, <2>2, CallReturns
    <2>4. Shorter(ci, ci2, k) /\ ci2 # << >>
      BY <1>7, <1>9, <2>1, <2>2, CallReturns
    <2>5. IsCall(cs[h], "operation") => Matched(ci2, cs2, at, Mine(cs2, t), FALSE)
      BY <1>7, <1>9, <2>1, <2>2, CallReturns
    <2>6. ASSUME IsCall(cs[h], "operation")
          PROVE  ci2[Len(ci2)].f = "lua"
      <3>2. ci[k].f = "lua"
        BY <1>3, <1>4, <1>7, <2>6 DEF Known, Matched, Callers
      <3>3. Len(ci2) = k /\ k # 0 /\ (k \in 1 .. k => ci2[k] = ci[k])
        BY <1>8, <2>4, EmptyShort DEF Shorter
      <3> QED
        BY <1>8, <3>2, <3>3
    <2> QED
      BY <2>3, <2>4, <2>5, <2>6
  <1>11. Unhooked(ci2, Len(ci2)) <=> Unhooked(s.ci, Len(s.ci))
    <2>1. \A d \in DOMAIN ci : k < d => d = Len(ci)
      BY <1>2, <1>4, <1>8
    <2>2. \A d \in DOMAIN ci : k < d => ~ci[d].hooked
      BY <1>3, <2>1
    <2>3. Unhooked(ci2, Len(ci2)) <=> Unhooked(ci, Len(ci))
      BY <1>10, <2>2, SameUnhooked
    <2> QED
      BY <1>2, <2>3
  <1>12. s2.status = "OK"
    BY <1>1, <1>5 DEF Returned
  <1>13. Running(s2, cs2, now2) /\ now2 \in Doings
    <2>1. CASE IsCall(cs[h], "operation") /\ now2 = LuaNow
      <3>1. Fits(Len(cs2))
        BY <1>4, <2>1 DEF IsCall
      <3>2. s2.ci # << >> /\ s2.ci[Len(s2.ci)].f = "lua"
        BY <1>2, <1>10, <2>1
      <3> QED
        BY <1>12, <2>1, <3>1, <3>2 DEF Running, Doings, LuaNow
    <2>2. CASE IsCall(cs[h], "errormsg") /\ now2 = Failing
      <3>1. s2.ci # << >>
        BY <1>2, <1>10
      <3> QED
        BY <1>12, <2>2, <3>1 DEF Running, Doings, Failing
    <2> QED
      BY <2>1, <2>2
  <1>14. Calm(now2) => Matched(ci2, cs2, at, Mine(cs2, t), FALSE)
    <2>1. CASE IsCall(cs[h], "operation") /\ now2 = LuaNow
      BY <1>10, <2>1
    <2>2. CASE IsCall(cs[h], "errormsg") /\ now2 = Failing
      <3>1. ~Calm(now2)
        BY <2>2 DEF Calm, Failing
      <3> QED
        BY <3>1
    <2> QED
      BY <2>1, <2>2
  <1>15. Steps(t, s2, cs2, now2, at)
    BY <1>1, <1>2, <1>5, <1>10, <1>11, <1>13, <1>14, ReturnedSteps
  <1> QED
    BY <1>4, <1>15

LEMMA FrontTwice ==
    ASSUME NEW ci, ci \in Seq(CallInfos), Len(ci) > 1, NEW ci2, ci2 = Front(Front(ci))
    PROVE  ci2 = SubSeq(ci, 1, Len(ci) - 2)
  <1>1. Len(ci) \in Nat /\ ci # << >> /\ Len(ci) - 1 \in 0 .. Len(ci) /\ Len(ci) - 2 \in 0 .. Len(ci)
        /\ Len(ci) - 2 \in 0 .. Len(ci) - 1
    BY EmptySeq
  <1>2. PICK c : c = Front(ci)
    OBVIOUS
  <1>3. c = SubSeq(ci, 1, Len(ci) - 1)
    BY <1>1, <1>2, FrontIsPrefix
  <1>4. c \in Seq(CallInfos) /\ Len(c) = Len(ci) - 1 /\ \A d \in 1 .. Len(ci) - 1 : c[d] = ci[d]
    BY <1>1, <1>3, PrefixOf
  <1>5. c # << >>
    BY <1>1, <1>4, EmptySeq
  <1>6. ci2 = SubSeq(c, 1, Len(c) - 1)
    BY <1>2, <1>4, <1>5, FrontIsPrefix
  <1>7. ci2 = SubSeq(c, 1, Len(ci) - 2)
    BY <1>1, <1>4, <1>6
  <1>8. ci2 \in Seq(CallInfos) /\ Len(ci2) = Len(ci) - 2 /\ \A d \in 1 .. Len(ci) - 2 : ci2[d] = c[d]
    <2>1. Len(ci) - 2 \in 0 .. Len(c)
      BY <1>1, <1>4
    <2> QED
      BY <1>4, <1>7, <2>1, PrefixOf
  <1>9. PICK c2 : c2 = SubSeq(ci, 1, Len(ci) - 2)
    OBVIOUS
  <1>10. c2 \in Seq(CallInfos) /\ Len(c2) = Len(ci) - 2 /\ \A d \in 1 .. Len(ci) - 2 : c2[d] = ci[d]
    <2>1. PICK m \in 0 .. Len(ci) : m = Len(ci) - 2
      BY <1>1
    <2>2. c2 = SubSeq(ci, 1, m)
      BY <1>9, <2>1
    <2>3. c2 \in Seq(CallInfos) /\ Len(c2) = m /\ \A d \in 1 .. m : c2[d] = ci[d]
      BY <2>2, PrefixOf
    <2> QED
      BY <2>1, <2>3
  <1>11. \A d \in 1 .. Len(ci) - 2 : d \in 1 .. Len(ci) - 1
    BY <1>1
  <1>12. ci2 = c2
    BY <1>4, <1>8, <1>10, <1>11, SeqEqual
  <1> QED
    BY <1>9, <1>12

\* With one of a C function, that function returns, too.
LEMMA FunctionReturns ==
    ASSUME NEW ths, NEW cs, NEW now, NEW at, Right(ths, cs, now, at), now.at = "lua",
           NEW t, NEW s, Turn(ths, cs, t, s),
           NEW h, NEW cs2, NEW s2, CallIsOver(s, cs, t, h, cs2, s2), s2.ci = Front(Front(s.ci)),
           OfFunction(cs[h])
    PROVE  Steps(t, s2, cs2, LuaNow, at) /\ Kept(t, cs, cs2)
  <1>1. /\ Runs(s, t, cs, at) /\ s.ci # << >> /\ s.ci[Len(s.ci)].f = "lua" /\ s.status = "OK"
        /\ Fits(Len(cs)) /\ LastFits(cs, t, Len(cs)) /\ ~s.ci[Len(s.ci)].hooked
    BY ThreadInLua
  <1>2. PICK ci, ci2 : ci = s.ci /\ ci2 = s2.ci
    OBVIOUS
  <1>3. Known(ci, cs, at, t) /\ ci # << >> /\ ci \in Seq(CallInfos) /\ ~ci[Len(ci)].hooked
    BY <1>1, <1>2 DEF Runs, Known
  <1>4. /\ at[h] \in Nat /\ at[h] + 1 = Len(s.ci) /\ h \in Mine(cs, t) /\ Fits(h)
        /\ Kept(t, cs, cs2) /\ Len(cs2) = h - 1
        /\ DOMAIN s.ci = 1 .. Len(s.ci) /\ Len(s.ci) \in Nat \ {0}
    BY <1>1, BeginsLast
  <1>5. h = Len(cs) /\ Ends(h, t, cs, cs2) /\ Returned(s, cs[h], s2)
    BY DEF CallIsOver
  <1>6. PICK k : k = at[h] - 1
    OBVIOUS
  <1>7. Below(k, at[h])
    BY <1>6 DEF Below
  <1>8. /\ at[h] \in Nat \ {0} /\ at[h] <= Len(ci) /\ ~ci[at[h]].hooked /\ Fits(h - 1)
    <2>1. PICK c : c = SubSeq(ci, 1, k)
      OBVIOUS
    <2> QED
      BY <1>3, <1>5, <1>7, <2>1, FunctionEnds
  <1>9. k \in Nat /\ k = Len(ci) - 2 /\ Len(ci) > 1 /\ at[h] = Len(ci) - 1 /\ at[h] = k + 1
    BY <1>2, <1>4, <1>6, <1>8
  <1>10. ci2 = SubSeq(ci, 1, k)
    <2>1. ci2 = Front(Front(ci))
      BY <1>2
    <2> QED
      BY <1>3, <1>9, <2>1, FrontTwice
  <1>11. /\ Matched(ci2, cs2, at, Mine(cs2, t), FALSE) /\ ci2[Len(ci2)].f = "lua"
         /\ Shorter(ci, ci2, k) /\ ci2 # << >>
    BY <1>3, <1>5, <1>7, <1>10, FunctionEnds
  <1>12. Unhooked(ci2, Len(ci2)) <=> Unhooked(s.ci, Len(s.ci))
    <2>1. \A d \in DOMAIN ci : k < d => d = Len(ci) \/ d = at[h]
      BY <1>2, <1>4, <1>9
    <2>2. \A d \in DOMAIN ci : k < d => ~ci[d].hooked
      BY <1>3, <1>8, <2>1
    <2>3. Unhooked(ci2, Len(ci2)) <=> Unhooked(ci, Len(ci))
      BY <1>11, <2>2, SameUnhooked
    <2> QED
      BY <1>2, <2>3
  <1>13. s2.status = "OK"
    BY <1>1, <1>5 DEF Returned
  <1>14. Running(s2, cs2, LuaNow) /\ LuaNow \in Doings
    <2>1. Fits(Len(cs2))
      BY <1>4, <1>8
    <2>2. s2.ci # << >> /\ s2.ci[Len(s2.ci)].f = "lua"
      BY <1>2, <1>11
    <2> QED
      BY <1>13, <2>1, <2>2 DEF Running, Doings, LuaNow
  <1>15. Matched(ci2, cs2, at, Mine(cs2, t), TRUE)
    BY <1>11, Loosened
  <1>16. Steps(t, s2, cs2, LuaNow, at)
    BY <1>1, <1>2, <1>5, <1>11, <1>12, <1>14, <1>15, ReturnedSteps
  <1> QED
    BY <1>4, <1>16

ReturnLeft(s, e) == [Pop(s) EXCEPT !.nny = @ - e.nny, !.nCcalls = @ - 1]
ReturnEnded(l, errfunc) == [Pop(l) EXCEPT !.errfunc = errfunc]

LEMMA FrontIs ==
    ASSUME NEW ci, ci \in Seq(CallInfos), ci # << >>
    PROVE  Front(ci) \in Seq(CallInfos)
  <1>1. PICK c : c = Front(ci)
    OBVIOUS
  <1>2. c = SubSeq(ci, 1, Len(ci) - 1) /\ Len(ci) - 1 \in 0 .. Len(ci)
    BY <1>1, FrontIsPrefix
  <1>3. c \in Seq(CallInfos)
    BY <1>2, PrefixOf
  <1> QED
    BY <1>1, <1>3

LEMMA PopIs ==
    ASSUME NEW s, s \in LuaStates, s.ci # << >>
    PROVE  Reframes(s, Front(s.ci), Pop(s))
  <1>1. s.ci \in Seq(CallInfos)
    BY DEF LuaStates
  <1>2. Front(s.ci) \in Seq(CallInfos)
    BY <1>1, FrontIs
  <1> QED
    BY <1>2 DEF Reframes, Pop

LEMMA LeftIs ==
    ASSUME NEW s, s \in LuaStates, s.ci # << >>, NEW e, e.nny \in {0, 1},
           NEW l, l = ReturnLeft(s, e)
    PROVE  Returned(s, e, l) /\ l.ci = Front(s.ci) /\ l.errfunc = s.errfunc
  <1>1. PICK p, ci2 : p = Pop(s) /\ ci2 = Front(s.ci)
    OBVIOUS
  <1>2. Reframes(s, ci2, p)
    BY <1>1, PopIs
  <1>3. SameBut(s, p) /\ p.ci = ci2 /\ p.status = s.status /\ p.errfunc = s.errfunc
    BY <1>2, ReframedState
  <1>4. PICK m : m = e.nny /\ m \in Int
    OBVIOUS
  <1>5. l = [p EXCEPT !.nny = p.nny - m, !.nCcalls = p.nCcalls - 1]
    BY <1>1, <1>4 DEF ReturnLeft
  <1>6. p \in LuaStates /\ p.nny \in Int /\ p.nCcalls \in Int
    BY <1>3 DEF SameBut, LuaStates
  <1>7. PICK a, b : a = p.nny - m /\ b = p.nCcalls - 1 /\ a \in Int /\ b \in Int
    BY <1>4, <1>6
  <1>8. l = [p EXCEPT !.nny = a, !.nCcalls = b]
    BY <1>5, <1>7
  <1>9. l \in LuaStates /\ l.nny = a /\ l.nCcalls = b /\ l.ci = p.ci /\ l.hasFunction = p.hasFunction
        /\ l.allowhook = p.allowhook /\ l.status = p.status /\ l.errfunc = p.errfunc
    BY <1>6, <1>7, <1>8 DEF LuaStates
  <1> QED
    BY <1>1, <1>3, <1>4, <1>7, <1>9 DEF Returned, SameBut

LEMMA EndedIs ==
    ASSUME NEW l, l \in LuaStates, l.ci # << >>, NEW errfunc, errfunc \in Nat,
           NEW s2, s2 = ReturnEnded(l, errfunc)
    PROVE  SameBut(l, s2) /\ s2.ci = Front(l.ci) /\ s2.status = l.status /\ s2.errfunc = errfunc
  <1>1. PICK p, ci2 : p = Pop(l) /\ ci2 = Front(l.ci)
    OBVIOUS
  <1>2. Reframes(l, ci2, p)
    BY <1>1, PopIs
  <1>3. SameBut(l, p) /\ p.ci = ci2 /\ p.status = l.status
    BY <1>2, ReframedState
  <1>4. s2 = [p EXCEPT !.errfunc = errfunc]
    BY <1>1 DEF ReturnEnded
  <1>5. s2 \in LuaStates /\ s2.nny = p.nny /\ s2.nCcalls = p.nCcalls /\ s2.ci = p.ci
        /\ s2.hasFunction = p.hasFunction /\ s2.allowhook = p.allowhook /\ s2.status = p.status
        /\ s2.errfunc = errfunc
    BY <1>3, <1>4 DEF LuaStates, SameBut
  <1> QED
    BY <1>1, <1>3, <1>5 DEF SameBut

\* The Lua function that a coroutine begins with, or goes on with, has but the
\* call of lua_resume() below.
LEMMA OnlyResume ==
    ASSUME NEW ci, NEW cs, NEW at, NEW t, Known(ci, cs, at, t), NEW m, LastFits(cs, t, m),
           cs[m].f = "resume", m = Len(cs)
    PROVE  Mine(cs, t) = {m} /\ at[m] = 0 /\ t # MainThread
  <1>1. StackRight(cs) /\ m \in DOMAIN cs /\ DOMAIN cs = 1 .. Len(cs) /\ Len(cs) \in Nat \ {0}
        /\ cs[m].thread = t /\ m \in Mine(cs, t)
    <2>1. StackRight(cs) /\ m \in Mine(cs, t)
      BY DEF Known, LastFits
    <2> QED
      BY <2>1, StackSeq DEF Mine
  <1>2. \A k \in DOMAIN cs : m < k => cs[k].f = "call"
    BY <1>1
  <1>3. t # MainThread /\ \A k \in DOMAIN cs : k < m => cs[k].thread # t
    BY <1>1, <1>2, ResumeIsFirst
  <1>4. Mine(cs, t) = {m}
    BY <1>1, <1>3 DEF Mine
  <1>5. at[m] = 0
    BY <1>1 DEF Known, Matched, Callers
  <1> QED
    BY <1>3, <1>4, <1>5

LEMMA FirstReturns ==
    ASSUME NEW ci, NEW cs, NEW at, NEW t, Known(ci, cs, at, t), NEW m, LastFits(cs, t, m),
           cs[m].f = "resume", m = Len(cs), NEW ci2, ci2 = Front(ci)
    PROVE  /\ Matched(ci2, cs, at, Mine(cs, t), FALSE)
           /\ ~ci[Len(ci)].hooked => (Unhooked(ci2, Len(ci2)) <=> Unhooked(ci, Len(ci)))
  <1>1. Mine(cs, t) = {m} /\ at[m] = 0
    BY OnlyResume
  <1>2. ci \in Seq(CallInfos) /\ ci # << >> /\ Matched(ci, cs, at, Mine(cs, t), TRUE)
    BY DEF Known
  <1>3. PICK k : k = Len(ci) - 1
    OBVIOUS
  <1>4. ci2 = SubSeq(ci, 1, k) /\ k \in Nat /\ k < Len(ci) /\ Len(ci) \in Nat \ {0}
    BY <1>2, <1>3, FrontIsPrefix
  <1>5. Shorter(ci, ci2, k)
    BY <1>2, <1>4, CutIsShorter
  <1>6. Leaves(k, cs, cs, at, Mine(cs, t), Mine(cs, t))
    <2>1. /\ \A i \in Mine(cs, t) : i \in Nat /\ at[i] \in Nat
          /\ cs[1].f = "pcall"
          /\ \A i \in Mine(cs, t) : Fits(i) /\ IsCall(cs[i], "operation") => cs[i].nny # 1
      BY KnownFacts
    <2>2. \A i \in Mine(cs, t) : at[i] <= k /\ (Fits(i) /\ cs[i].f # "resume" => at[i] < k)
      BY <1>1, <1>4
    <2>3. \A i \in Mine(cs, t) \ Mine(cs, t) : FALSE
      OBVIOUS
    <2> QED
      BY <2>1, <2>2, <2>3 DEF Leaves
  <1>7. NoneAt(k, cs, at, Mine(cs, t), Mine(cs, t))
    BY DEF NoneAt
  <1>8. Matched(ci2, cs, at, Mine(cs, t), FALSE)
    BY <1>2, <1>5, <1>6, <1>7, CutMatched
  <1>9. ~ci[Len(ci)].hooked => (Unhooked(ci2, Len(ci2)) <=> Unhooked(ci, Len(ci)))
    <2>1. \A d \in DOMAIN ci : k < d => d = Len(ci)
      BY <1>3, <1>4, <1>5 DEF Shorter
    <2> QED
      BY <1>5, <2>1, SameUnhooked
  <1> QED
    BY <1>8, <1>9

\* A Lua function that has been called by another returns to it.
LEMMA ReentryReturns ==
    ASSUME NEW ths, NEW cs, NEW now, NEW at, Right(ths, cs, now, at), now.at = "lua",
           NEW t, NEW s, Turn(ths, cs, t, s), s.ci[Len(s.ci)].reentry,
           NEW s2, Reframes(s, Front(s.ci), s2)
    PROVE  Steps(t, s2, cs, now, at)
  <1>1. /\ Runs(s, t, cs, at) /\ s.ci # << >> /\ s.ci[Len(s.ci)].f = "lua" /\ s.status = "OK"
        /\ Fits(Len(cs)) /\ LastFits(cs, t, Len(cs)) /\ ~s.ci[Len(s.ci)].hooked
        /\ now = LuaNow
    <2>1. now = LuaNow
      <3>1. now \in Doings
        BY DEF Right
      <3> QED
        BY <3>1 DEF Doings, LuaNow
    <2>2. Runs(s, t, cs, at) /\ s.ci # << >> /\ s.ci[Len(s.ci)].f = "lua" /\ s.status = "OK"
      BY ThreadInLua
    <2>3. Fits(Len(cs)) /\ LastFits(cs, t, Len(cs)) /\ ~s.ci[Len(s.ci)].hooked
      BY ThreadInLua
    <2> QED
      BY <2>1, <2>2, <2>3
  <1>2. PICK ci, ci2, k : ci = s.ci /\ ci2 = s2.ci /\ k = Len(ci) - 1
    OBVIOUS
  <1>3. SameBut(s, s2) /\ ci2 = Front(ci) /\ s2.status = "OK"
    BY <1>1, <1>2, ReframedState
  <1>4. Known(ci, cs, at, t) /\ ci \in Seq(CallInfos) /\ ci # << >> /\ ci[Len(ci)].reentry
        /\ ~ci[Len(ci)].hooked
    BY <1>1, <1>2 DEF Runs, Known
  <1>5. ci2 = SubSeq(ci, 1, k) /\ Len(ci) \in Nat \ {0}
    BY <1>2, <1>3, <1>4, FrontIsPrefix
  <1>6. /\ Matched(ci2, cs, at, Mine(cs, t), FALSE)
        /\ Shorter(ci, ci2, k) /\ ci2 # << >> /\ ci2[Len(ci2)].f = "lua"
    BY <1>1, <1>2, <1>4, <1>5, FramePopped
  <1>7. Unhooked(ci2, Len(ci2)) <=> Unhooked(s.ci, Len(s.ci))
    <2>1. \A d \in DOMAIN ci : k < d => d = Len(ci)
      BY <1>2, <1>5, <1>6 DEF Shorter
    <2>2. \A d \in DOMAIN ci : k < d => ~ci[d].hooked
      BY <1>4, <2>1
    <2>3. Unhooked(ci2, Len(ci2)) <=> Unhooked(ci, Len(ci))
      BY <1>6, <2>2, SameUnhooked
    <2> QED
      BY <1>2, <2>3
  <1>8. Running(s2, cs, now) /\ now \in Doings
    BY <1>1, <1>2, <1>3, <1>6 DEF Running, Doings, LuaNow
  <1>9. Matched(ci2, cs, at, Mine(cs, t), TRUE)
    BY <1>6, Loosened
  <1> QED
    BY <1>1, <1>2, <1>3, <1>6, <1>7, <1>8, <1>9, ReframedSteps

\* The first function of a coroutine, or the one it has gone on with, returns
\* to unroll().
Unrolling == [at |-> "unroll", status |-> "OK"]

LEMMA ResumedReturns ==
    ASSUME NEW ths, NEW cs, NEW now, NEW at, Right(ths, cs, now, at), now.at = "lua",
           NEW t, NEW s, Turn(ths, cs, t, s), cs[Len(cs)].f = "resume",
           NEW s2, Reframes(s, Front(s.ci), s2)
    PROVE  Steps(t, s2, cs, Unrolling, at)
  <1>1. /\ Runs(s, t, cs, at) /\ s.ci # << >> /\ s.status = "OK"
        /\ Fits(Len(cs)) /\ LastFits(cs, t, Len(cs)) /\ ~s.ci[Len(s.ci)].hooked
    BY ThreadInLua
  <1>2. PICK ci, ci2 : ci = s.ci /\ ci2 = s2.ci
    OBVIOUS
  <1>3. SameBut(s, s2) /\ ci2 = Front(ci) /\ s2.status = "OK"
    BY <1>1, <1>2, ReframedState
  <1>4. Known(ci, cs, at, t) /\ ~ci[Len(ci)].hooked
    BY <1>1, <1>2 DEF Runs
  <1>5. Matched(ci2, cs, at, Mine(cs, t), FALSE) /\ (Unhooked(ci2, Len(ci2)) <=> Unhooked(ci, Len(ci)))
    <2>1. PICK m : m = Len(cs) /\ LastFits(cs, t, m) /\ cs[m].f = "resume"
      BY <1>1
    <2> QED
      BY <1>3, <1>4, <2>1, FirstReturns
  <1>6. Running(s2, cs, Unrolling) /\ Unrolling \in Doings
    BY <1>3 DEF Running, Doings, Unrolling
  <1>7. Matched(ci2, cs, at, Mine(cs, t), TRUE)
    BY <1>5, Loosened
  <1> QED
    BY <1>1, <1>2, <1>3, <1>5, <1>6, <1>7, ReframedSteps

\* The thread is left as it is.
LEMMA GoesOn ==
    ASSUME NEW ths, NEW cs, NEW now, NEW at, Right(ths, cs, now, at),
           NEW t, NEW s, Turn(ths, cs, t, s), s.ci # << >>,
           NEW now2, now2 \in Doings, ~Calm(now2), Running(s, cs, now2)
    PROVE  Right(ths, cs, now2, at)
  <1>1. Runs(s, t, cs, at) /\ t \in Threads /\ Kept(t, cs, cs)
    BY ThreadRuns
  <1>2. SameBut(s, s) /\ Matched(s.ci, cs, at, Mine(cs, t), TRUE)
    BY <1>1 DEF SameBut, Runs, Known
  <1>3. Steps(t, s, cs, now2, at)
    BY <1>1, <1>2, ReframedSteps
  <1>4. Becomes(ths, t, s, ths)
    BY <1>1 DEF Becomes, Turn, Right, States
  <1> QED
    BY <1>1, <1>3, <1>4, ThreadStep

\* The end of the C call: what Return does with it.
CallOver(cs, t, s, ths2, cs2, now2) ==
    LET e == cs[Len(cs)]
        left == ReturnLeft(s, e)
    IN  /\ cs2 = Front(cs)
        /\ \/ IsCall(e, "operation") /\ now2 = LuaNow /\ ths2 = left
           \/ IsCall(e, "errormsg") /\ now2 = Failing /\ ths2 = left
           \/ IsCall(e, "function") /\ now2 = LuaNow /\ ths2 = Pop(left)
           \/ /\ IsCall(e, "pcall") /\ now2 = LuaNow
              /\ ths2 = ReturnEnded(left, Last(left.ci).oldErrfunc)
           \/ /\ e.f = "pcall" /\ Len(cs) # 1 /\ now2 = LuaNow
              /\ ths2 = ReturnEnded(left, e.errfunc)

LEMMA ReturnIs ==
    ASSUME NEW at, Right(th, cstack, doing, at), Return,
           NEW t, t = Thread, NEW s, s = th[t]
    PROVE  /\ doing.at = "lua"
           /\ \/ /\ s.ci[Len(s.ci)].reentry /\ cstack' = cstack /\ doing' = doing
                 /\ th' = [th EXCEPT ![t] = Pop(s)]
              \/ /\ cstack[Len(cstack)].f = "resume" /\ cstack' = cstack /\ doing' = Unrolling
                 /\ th' = [th EXCEPT ![t] = Pop(s)]
              \/ /\ cstack[Len(cstack)].f = "pcall" /\ Len(cstack) = 1 /\ cstack' = cstack /\ th' = th
                 /\ doing' = [at |-> "over", status |-> "OK"]
              \/ /\ ~s.ci[Len(s.ci)].reentry
                 /\ \E s2 : /\ CallOver(cstack, t, s, s2, cstack', doing')
                            /\ th' = [th EXCEPT ![t] = s2]
  <1>1. StackRight(cstack) /\ Top(t) = s.ci[Len(s.ci)]
    BY TheTurn
  <1>2. PICK e : e = cstack[Len(cstack)] /\ e = Last(cstack)
    BY <1>1, StackSeq
  <1>3. e \in Entries
    BY <1>1, <1>2, StackSeq
  <1>4. /\ e.f \in {"resume", "pcall", "call"}
        /\ e.f = "call" => e.then \in {"operation", "function", "pcall", "errormsg"}
    BY <1>3 DEF Entries
  <1>5. doing.at = "lua"
    BY DEF Return, InLua, In
  <1>6. CASE Top(t).reentry
    <2>1. th' = [th EXCEPT ![t] = Pop(s)] /\ cstack' = cstack /\ doing' = doing
      BY <1>6 DEF Return
    <2> QED
      BY <1>1, <1>5, <1>6, <2>1
  <1>7. CASE ~Top(t).reentry /\ e.f = "resume"
    <2>1. th' = [th EXCEPT ![t] = Pop(s)] /\ cstack' = cstack /\ doing' = Unrolling
      BY <1>2, <1>7 DEF Return, Go, Unrolling
    <2> QED
      BY <1>2, <1>5, <1>7, <2>1
  <1>8. CASE ~Top(t).reentry /\ e.f = "pcall" /\ Len(cstack) = 1
    <2>1. th' = th /\ cstack' = cstack /\ doing' = [at |-> "over", status |-> "OK"]
      BY <1>2, <1>8 DEF Return, Go
    <2> QED
      BY <1>2, <1>5, <1>8, <2>1
  <1>9. CASE ~Top(t).reentry /\ e.f = "pcall" /\ Len(cstack) # 1
    <2>1. PICK s2 : s2 = ReturnEnded(ReturnLeft(s, e), e.errfunc)
      OBVIOUS
    <2>2. th' = [th EXCEPT ![t] = s2] /\ cstack' = Front(cstack) /\ doing' = LuaNow
      BY <1>2, <1>9, <2>1 DEF Return, Go, LuaNow, ReturnEnded, ReturnLeft
    <2>3. CallOver(cstack, t, s, s2, cstack', doing')
      BY <1>2, <1>9, <2>1, <2>2 DEF CallOver
    <2> QED
      BY <1>1, <1>5, <1>9, <2>2, <2>3
  <1>10. CASE ~Top(t).reentry /\ e.f = "call"
    <2>0. \/ e.then = "operation" \/ e.then = "function" \/ e.then = "pcall" \/ e.then = "errormsg"
      BY <1>4, <1>10
    <2>1. CASE e.then = "operation"
      <3>1. PICK s2 : s2 = ReturnLeft(s, e)
        OBVIOUS
      <3>2. th' = [th EXCEPT ![t] = s2] /\ cstack' = Front(cstack) /\ doing' = LuaNow
        BY <1>2, <1>10, <2>1, <3>1 DEF Return, Go, LuaNow, ReturnLeft
      <3>3. CallOver(cstack, t, s, s2, cstack', doing')
        BY <1>2, <1>10, <2>1, <3>1, <3>2 DEF CallOver, IsCall
      <3> QED
        BY <1>1, <1>5, <1>10, <3>2, <3>3
    <2>2. CASE e.then = "function"
      <3>1. PICK s2 : s2 = Pop(ReturnLeft(s, e))
        OBVIOUS
      <3>2. th' = [th EXCEPT ![t] = s2] /\ cstack' = Front(cstack) /\ doing' = LuaNow
        BY <1>2, <1>10, <2>2, <3>1 DEF Return, Go, LuaNow, ReturnLeft
      <3>3. CallOver(cstack, t, s, s2, cstack', doing')
        BY <1>2, <1>10, <2>2, <3>1, <3>2 DEF CallOver, IsCall
      <3> QED
        BY <1>1, <1>5, <1>10, <3>2, <3>3
    <2>3. CASE e.then = "pcall"
      <3>1. PICK s2 : s2 = ReturnEnded(ReturnLeft(s, e), Last(ReturnLeft(s, e).ci).oldErrfunc)
        OBVIOUS
      <3>2. th' = [th EXCEPT ![t] = s2] /\ cstack' = Front(cstack) /\ doing' = LuaNow
        BY <1>2, <1>10, <2>3, <3>1 DEF Return, Go, LuaNow, ReturnLeft, ReturnEnded
      <3>3. CallOver(cstack, t, s, s2, cstack', doing')
        BY <1>2, <1>10, <2>3, <3>1, <3>2 DEF CallOver, IsCall
      <3> QED
        BY <1>1, <1>5, <1>10, <3>2, <3>3
    <2>4. CASE e.then = "errormsg"
      <3>1. PICK s2 : s2 = ReturnLeft(s, e)
        OBVIOUS
      <3>2. th' = [th EXCEPT ![t] = s2] /\ cstack' = Front(cstack) /\ doing' = Failing
        BY <1>2, <1>10, <2>4, <3>1 DEF Return, Throw, Failing, ReturnLeft
      <3>3. CallOver(cstack, t, s, s2, cstack', doing')
        BY <1>2, <1>10, <2>4, <3>1, <3>2 DEF CallOver, IsCall
      <3> QED
        BY <1>1, <1>5, <1>10, <3>2, <3>3
    <2> QED
      BY <2>0, <2>1, <2>2, <2>3, <2>4
  <1> QED
    BY <1>4, <1>6, <1>7, <1>8, <1>9, <1>10

LEMMA CallOverSteps ==
    ASSUME NEW ths, NEW cs, NEW now, NEW at, Right(ths, cs, now, at), now.at = "lua",
           NEW t, NEW s, Turn(ths, cs, t, s), ~s.ci[Len(s.ci)].reentry,
           NEW s2, NEW cs2, NEW now2, CallOver(cs, t, s, s2, cs2, now2)
    PROVE  Steps(t, s2, cs2, now2, at) /\ Kept(t, cs, cs2)
  <1>1. /\ Runs(s, t, cs, at) /\ s.ci # << >> /\ s.ci[Len(s.ci)].f = "lua" /\ s.status = "OK"
        /\ Fits(Len(cs)) /\ LastFits(cs, t, Len(cs)) /\ StackRight(cs)
    BY ThreadInLua
  <1>2. s \in LuaStates /\ t = cs[Len(cs)].thread
    BY <1>1 DEF Runs
  <1>3. PICK h, e : h = Len(cs) /\ e = cs[h]
    OBVIOUS
  <1>4. cs \in Seq(Entries) /\ e \in Entries /\ e.nny \in {0, 1} /\ h \in Nat \ {0} /\ DOMAIN cs = 1 .. h
    BY <1>1, <1>3, StackSeq
  <1>5. PICK l : l = ReturnLeft(s, e)
    OBVIOUS
  <1>6. Returned(s, e, l) /\ l.ci = Front(s.ci) /\ l \in LuaStates
    BY <1>1, <1>2, <1>4, <1>5, LeftIs DEF Returned
  <1>7. /\ cs2 = Front(cs)
        /\ \/ IsCall(e, "operation") /\ now2 = LuaNow /\ s2 = l
           \/ IsCall(e, "errormsg") /\ now2 = Failing /\ s2 = l
           \/ IsCall(e, "function") /\ now2 = LuaNow /\ s2 = Pop(l)
           \/ IsCall(e, "pcall") /\ now2 = LuaNow /\ s2 = ReturnEnded(l, Last(l.ci).oldErrfunc)
           \/ e.f = "pcall" /\ h # 1 /\ now2 = LuaNow /\ s2 = ReturnEnded(l, e.errfunc)
    BY <1>3, <1>5 DEF CallOver
  <1>8. h > 1 /\ e.f # "resume"
    <2>1. h # 1
      <3>1. h = 1 => e.f = "pcall"
        BY <1>1, <1>3 DEF StackRight
      <3> QED
        BY <1>7, <3>1 DEF IsCall
    <2> QED
      BY <1>4, <1>7, <2>1 DEF IsCall
  <1>9. Ends(h, t, cs, cs2)
    <2>1. \A i \in DOMAIN cs : h <= i => i = h
      BY <1>4
    <2>2. cs2 = SubSeq(cs, 1, h - 1)
      BY <1>3, <1>7 DEF Front
    <2> QED
      BY <1>2, <1>3, <1>4, <1>8, <2>1, <2>2 DEF Ends
  <1>10. CASE (IsCall(e, "operation") /\ now2 = LuaNow /\ s2 = l)
              \/ (IsCall(e, "errormsg") /\ now2 = Failing /\ s2 = l)
    <2>1. CallIsOver(s, cs, t, h, cs2, s2) /\ s2.ci = Front(s.ci)
      BY <1>3, <1>6, <1>9, <1>10 DEF CallIsOver
    <2>2. \/ IsCall(cs[h], "operation") /\ now2 = LuaNow
          \/ IsCall(cs[h], "errormsg") /\ now2 = Failing
      BY <1>3, <1>10
    <2> QED
      BY <2>1, <2>2, OperationReturns
  <1>11. CASE \/ IsCall(e, "function") /\ now2 = LuaNow /\ s2 = Pop(l)
              \/ IsCall(e, "pcall") /\ now2 = LuaNow /\ s2 = ReturnEnded(l, Last(l.ci).oldErrfunc)
              \/ e.f = "pcall" /\ h # 1 /\ now2 = LuaNow /\ s2 = ReturnEnded(l, e.errfunc)
    <2>1. l.ci \in Seq(CallInfos) /\ l.ci # << >>
      <3>1. PICK ci : ci = s.ci
        OBVIOUS
      <3>2. ci \in Seq(CallInfos) /\ ci # << >> /\ Known(ci, cs, at, t) /\ LastFits(cs, t, h)
            /\ ci[Len(ci)].f = "lua" /\ ~ci[Len(ci)].reentry
        BY <1>1, <1>3, <3>1 DEF Runs, Known
      <3>3. at[h] + 1 = Len(ci)
        BY <1>3, <1>8, <3>2, LastIsBegun
      <3>4. at[h] \in Nat /\ at[h] # 0
        <4>1. at[h] \in Nat
          BY <3>2, KnownFacts DEF LastFits
        <4>2. cs[h].f = "resume" \/ h = 1 <=> at[h] = 0
          BY <3>2 DEF Known, Matched, Callers, LastFits
        <4> QED
          BY <1>3, <1>8, <4>1, <4>2
      <3>5. PICK c : c = Front(ci)
        OBVIOUS
      <3>6. c = SubSeq(ci, 1, Len(ci) - 1) /\ Len(ci) - 1 \in 0 .. Len(ci) /\ Len(ci) - 1 # 0
        BY <3>2, <3>3, <3>4, <3>5, FrontIsPrefix
      <3>7. c \in Seq(CallInfos) /\ Len(c) = Len(ci) - 1
        <4>1. PICK m \in 0 .. Len(ci) : m = Len(ci) - 1
          BY <3>6
        <4>2. c = SubSeq(ci, 1, m)
          BY <3>6, <4>1
        <4> QED
          BY <3>2, <4>1, <4>2, PrefixOf
      <3>8. c # << >>
        BY <3>6, <3>7, EmptySeq
      <3> QED
        BY <1>6, <3>1, <3>5, <3>7, <3>8
    <2>2. Last(l.ci).oldErrfunc \in Nat
      <3>1. PICK c : c = l.ci
        OBVIOUS
      <3>2. Last(c) = c[Len(c)] /\ Len(c) \in DOMAIN c
        BY <2>1, <3>1, EmptySeq DEF Last
      <3>3. c[Len(c)] \in CallInfos
        BY <2>1, <3>1, <3>2
      <3> QED
        BY <3>1, <3>2, <3>3 DEF CallInfos
    <2>3. SameBut(l, s2) /\ s2.ci = Front(l.ci) /\ s2.status = l.status
      <3>1. CASE s2 = Pop(l)
        <4>1. Reframes(l, Front(l.ci), s2)
          BY <1>6, <2>1, <3>1, PopIs
        <4> QED
          BY <4>1, ReframedState
      <3>2. CASE s2 = ReturnEnded(l, Last(l.ci).oldErrfunc)
        <4>1. PICK errfunc \in Nat : errfunc = Last(l.ci).oldErrfunc
          BY <2>2
        <4>2. s2 = ReturnEnded(l, errfunc)
          BY <3>2, <4>1
        <4> QED
          BY <1>6, <2>1, <4>2, EndedIs
      <3>3. CASE e.f = "pcall" /\ s2 = ReturnEnded(l, e.errfunc)
        <4>1. e.errfunc \in Nat
          BY <1>4, <3>3 DEF Entries
        <4>2. PICK errfunc \in Nat : errfunc = e.errfunc
          BY <4>1
        <4>3. s2 = ReturnEnded(l, errfunc)
          BY <3>3, <4>2
        <4> QED
          BY <1>6, <2>1, <4>3, EndedIs
      <3> QED
        BY <1>11, <3>1, <3>2, <3>3
    <2>4. Returned(s, cs[h], s2) /\ s2.ci = Front(Front(s.ci))
      BY <1>3, <1>6, <2>3 DEF Returned, SameBut
    <2>5. CallIsOver(s, cs, t, h, cs2, s2)
      BY <1>3, <1>9, <2>4 DEF CallIsOver
    <2>6. OfFunction(cs[h]) /\ now2 = LuaNow
      BY <1>3, <1>11 DEF OfFunction
    <2>7. Steps(t, s2, cs2, LuaNow, at) /\ Kept(t, cs, cs2)
      BY <2>4, <2>5, <2>6, FunctionReturns
    <2> QED
      BY <2>6, <2>7
  <1> QED
    BY <1>7, <1>10, <1>11

LEMMA ReturnStep ==
    ASSUME NEW at, Right(th, cstack, doing, at), Return
    PROVE  Right(th', cstack', doing', at)
  <1>1. PICK t, s : t = Thread /\ s = th[t]
    OBVIOUS
  <1>2. Turn(th, cstack, t, s) /\ s \in LuaStates
    BY <1>1, TheTurn
  <1>3. /\ doing.at = "lua"
        /\ \/ /\ s.ci[Len(s.ci)].reentry /\ cstack' = cstack /\ doing' = doing
              /\ th' = [th EXCEPT ![t] = Pop(s)]
           \/ /\ cstack[Len(cstack)].f = "resume" /\ cstack' = cstack /\ doing' = Unrolling
              /\ th' = [th EXCEPT ![t] = Pop(s)]
           \/ /\ cstack[Len(cstack)].f = "pcall" /\ Len(cstack) = 1 /\ cstack' = cstack /\ th' = th
              /\ doing' = [at |-> "over", status |-> "OK"]
           \/ /\ ~s.ci[Len(s.ci)].reentry
              /\ \E s2 : /\ CallOver(cstack, t, s, s2, cstack', doing')
                         /\ th' = [th EXCEPT ![t] = s2]
    BY <1>1, ReturnIs
  <1>4. doing.at = "lua"
    BY <1>3
  <1>5. s.ci # << >> /\ s.status = "OK" /\ Kept(t, cstack, cstack)
    BY <1>2, <1>4, ThreadInLua
  <1>6. PICK p : p = Pop(s)
    OBVIOUS
  <1>7. Reframes(s, Front(s.ci), p)
    BY <1>2, <1>5, <1>6, PopIs
  <1>8. CASE /\ s.ci[Len(s.ci)].reentry /\ cstack' = cstack /\ doing' = doing
             /\ th' = [th EXCEPT ![t] = Pop(s)]
    <2>1. Steps(t, p, cstack, doing, at)
      BY <1>2, <1>4, <1>7, <1>8, ReentryReturns
    <2>2. Becomes(th, t, p, th')
      BY <1>6, <1>8 DEF Becomes
    <2>3. Right(th', cstack, doing, at)
      BY <1>5, <2>1, <2>2, ThreadStep
    <2> QED
      BY <1>8, <2>3
  <1>9. CASE /\ cstack[Len(cstack)].f = "resume" /\ cstack' = cstack /\ doing' = Unrolling
             /\ th' = [th EXCEPT ![t] = Pop(s)]
    <2>1. Steps(t, p, cstack, Unrolling, at)
      BY <1>2, <1>4, <1>7, <1>9, ResumedReturns
    <2>2. Becomes(th, t, p, th')
      BY <1>6, <1>9 DEF Becomes
    <2>3. Right(th', cstack, Unrolling, at)
      BY <1>5, <2>1, <2>2, ThreadStep
    <2> QED
      BY <1>9, <2>3
  <1>10. CASE cstack' = cstack /\ th' = th /\ doing' = [at |-> "over", status |-> "OK"]
    <2>1. PICK now2 : now2 = [at |-> "over", status |-> "OK"]
      OBVIOUS
    <2>2. now2 \in Doings /\ ~Calm(now2) /\ Running(s, cstack, now2)
      BY <1>5, <2>1 DEF Doings, Calm, Running
    <2>3. Right(th, cstack, now2, at)
      BY <1>2, <1>5, <2>2, GoesOn
    <2> QED
      BY <1>10, <2>1, <2>3
  <1>11. CASE /\ ~s.ci[Len(s.ci)].reentry
              /\ \E s2 : /\ CallOver(cstack, t, s, s2, cstack', doing')
                         /\ th' = [th EXCEPT ![t] = s2]
    <2>1. PICK s2, cs2, now2 : /\ CallOver(cstack, t, s, s2, cs2, now2) /\ cs2 = cstack' /\ now2 = doing'
                               /\ th' = [th EXCEPT ![t] = s2]
      BY <1>11
    <2>2. Steps(t, s2, cs2, now2, at) /\ Kept(t, cstack, cs2)
      BY <1>2, <1>4, <1>11, <2>1, CallOverSteps
    <2>3. Becomes(th, t, s2, th')
      BY <2>1 DEF Becomes
    <2>4. Right(th', cs2, now2, at)
      BY <2>2, <2>3, ThreadStep
    <2> QED
      BY <2>1, <2>4
  <1> QED
    BY <1>3, <1>8, <1>9, <1>10, <1>11

LEMMA NnySame ==
    ASSUME NEW cs, StackRight(cs), NEW cs2, StackRight(cs2), NEW u, Mine(cs2, u) = Mine(cs, u),
           \A i \in Mine(cs, u) : cs2[i] = cs[i]
    PROVE  NnyUpTo(cs2, u, Len(cs2)) = NnyUpTo(cs, u, Len(cs))
  <1>1. DOMAIN cs = 1 .. Len(cs) /\ DOMAIN cs2 = 1 .. Len(cs2)
    BY StackSeq
  <1>2. Nnys(cs, u, Len(cs)) = {i \in Mine(cs, u) : cs[i].nny = 1}
    BY <1>1 DEF Nnys, Mine
  <1>3. Nnys(cs2, u, Len(cs2)) = {i \in Mine(cs2, u) : cs2[i].nny = 1}
    BY <1>1 DEF Nnys, Mine
  <1>4. {i \in Mine(cs2, u) : cs2[i].nny = 1} = {i \in Mine(cs, u) : cs[i].nny = 1}
    OBVIOUS
  <1> QED
    BY <1>2, <1>3, <1>4 DEF NnyUpTo

LEMMA MatchedSame ==
    ASSUME NEW ci, NEW cs, NEW cs2, NEW at, NEW at2, NEW mine, NEW loose, Matched(ci, cs, at, mine, loose),
           \A i \in mine : cs2[i] = cs[i] /\ at2[i] = at[i]
    PROVE  Matched(ci, cs2, at2, mine, loose)
  <1>1. Places(ci, cs2, at2, mine)
    BY DEF Matched, Places
  <1>2. Callers(ci, cs2, at2, mine)
    BY DEF Matched, Callers
  <1>3. Begun(ci, cs2, at2, mine)
    BY DEF Matched, Begun
  <1>4. Handled(ci, cs2, at2, mine, loose) /\ Continuable(ci, cs2, at2, mine, loose)
    BY DEF Matched, Handled, Continuable
  <1>5. Protecting(ci, cs2, at2, mine)
    BY DEF Matched, Protecting
  <1> QED
    BY <1>1, <1>2, <1>3, <1>4, <1>5 DEF Matched

----------------------------------------------------------------------------
(* unroll().                                                               *)

LEMMA ThreadUnrolls ==
    ASSUME NEW ths, NEW cs, NEW now, NEW at, Right(ths, cs, now, at), now.at = "unroll",
           NEW t, NEW s, Turn(ths, cs, t, s)
    PROVE  /\ Kept(t, cs, cs) /\ StackRight(cs) /\ s.status = "OK" /\ now = Unrolling
           /\ cs[Len(cs)].f = "resume" /\ LastFits(cs, t, Len(cs)) /\ Fits(Len(cs))
           /\ Matched(s.ci, cs, at, Mine(cs, t), FALSE)
           /\ s.ci # << >> => Runs(s, t, cs, at)
  <1>1. Running(s, cs, now) /\ StackRight(cs) /\ Kept(t, cs, cs) /\ now \in Doings
        /\ (Calm(now) => Matched(s.ci, cs, at, Mine(cs, t), FALSE)) /\ (s.ci # << >> => Runs(s, t, cs, at))
    BY ThreadRuns
  <1>2. now = Unrolling
    BY <1>1 DEF Doings, Unrolling
  <1>3. Matched(s.ci, cs, at, Mine(cs, t), FALSE)
    BY <1>1 DEF Calm
  <1>4. s.status = "OK" /\ cs[Len(cs)].f = "resume"
    BY <1>1, <1>2 DEF Running, Unrolling
  <1>5. t = cs[Len(cs)].thread /\ Len(cs) \in DOMAIN cs /\ DOMAIN cs = 1 .. Len(cs) /\ Len(cs) \in Nat \ {0}
    BY <1>1, StackSeq DEF Turn
  <1>6. Len(cs) < MaxCCalls
    BY <1>1, <1>4, <1>5 DEF StackRight, EntryRight
  <1>7. Fits(Len(cs))
    BY <1>6 DEF Fits
  <1>8. Len(cs) \in Mine(cs, t) /\ \A i \in Mine(cs, t) : i <= Len(cs)
    BY <1>5 DEF Mine
  <1> QED
    BY <1>1, <1>2, <1>3, <1>4, <1>7, <1>8 DEF LastFits

\* A C function that is continued returns to unroll() again.
LEMMA ContinuedReturns ==
    ASSUME NEW ths, NEW cs, NEW now, NEW at, Right(ths, cs, now, at), now.at = "unroll",
           NEW t, NEW s, Turn(ths, cs, t, s), s.ci # << >>, s.ci[Len(s.ci)].f # "lua",
           NEW s2, Reframes(s, Front(s.ci), s2)
    PROVE  Steps(t, s2, cs, now, at)
  <1>1. /\ Runs(s, t, cs, at) /\ s.status = "OK" /\ now = Unrolling
        /\ cs[Len(cs)].f = "resume" /\ LastFits(cs, t, Len(cs))
    <2>1. Runs(s, t, cs, at)
      BY ThreadUnrolls
    <2>2. s.status = "OK" /\ cs[Len(cs)].f = "resume" /\ LastFits(cs, t, Len(cs))
      BY ThreadUnrolls
    <2>3. now = Unrolling
      <3>1. now \in Doings
        BY DEF Right
      <3> QED
        BY <3>1 DEF Doings, Unrolling
    <2> QED
      BY <2>1, <2>2, <2>3
  <1>2. PICK ci, ci2 : ci = s.ci /\ ci2 = s2.ci
    OBVIOUS
  <1>3. SameBut(s, s2) /\ ci2 = Front(ci) /\ s2.status = "OK"
    BY <1>1, <1>2, ReframedState
  <1>4. Known(ci, cs, at, t)
    BY <1>1, <1>2 DEF Runs
  <1>5. ~ci[Len(ci)].hooked
    <2>1. InfosRight(ci) /\ Len(ci) \in DOMAIN ci
      BY <1>4, KnownFacts DEF Known, Matched
    <2> QED
      BY <1>2, <2>1 DEF InfosRight
  <1>6. Matched(ci2, cs, at, Mine(cs, t), FALSE) /\ (Unhooked(ci2, Len(ci2)) <=> Unhooked(ci, Len(ci)))
    <2>1. PICK m : m = Len(cs) /\ LastFits(cs, t, m) /\ cs[m].f = "resume"
      BY <1>1
    <2> QED
      BY <1>3, <1>4, <1>5, <2>1, FirstReturns
  <1>7. Running(s2, cs, Unrolling) /\ Unrolling \in Doings
    BY <1>1, <1>3 DEF Running, Doings, Unrolling
  <1>8. Matched(ci2, cs, at, Mine(cs, t), TRUE)
    BY <1>6, Loosened
  <1> QED
    BY <1>1, <1>2, <1>3, <1>6, <1>7, <1>8, ReframedSteps

\* A Lua function is gone on with.
LEMMA LuaGoesOn ==
    ASSUME NEW ths, NEW cs, NEW now, NEW at, Right(ths, cs, now, at), now.at = "unroll",
           NEW t, NEW s, Turn(ths, cs, t, s)
    PROVE  s.ci # << >> /\ s.ci[Len(s.ci)].f = "lua" => Steps(t, s, cs, LuaNow, at)
  <1>1. /\ s.ci # << >> => Runs(s, t, cs, at)
        /\ s.status = "OK" /\ Fits(Len(cs))
    BY ThreadUnrolls
  <1>2. Matched(s.ci, cs, at, Mine(cs, t), FALSE)
    BY ThreadUnrolls
  <1> SUFFICES ASSUME s.ci # << >>, s.ci[Len(s.ci)].f = "lua"
               PROVE  Steps(t, s, cs, LuaNow, at)
    OBVIOUS
  <1>3. Runs(s, t, cs, at)
    BY <1>1
  <1>4. SameBut(s, s) /\ Matched(s.ci, cs, at, Mine(cs, t), TRUE)
    BY <1>3 DEF SameBut, Runs, Known
  <1>5. Running(s, cs, LuaNow) /\ LuaNow \in Doings
    BY <1>1 DEF Running, Doings, LuaNow
  <1> QED
    BY <1>2, <1>3, <1>4, <1>5, ReframedSteps

----------------------------------------------------------------------------
(* lua_resume() returns: the coroutine t is not on the C stack any longer, *)
(* and the thread that has resumed it goes on.                             *)

\* What they become: h is the C call of lua_resume().
Resumer(ths, cs, t, h, from, f) ==
    /\ h \in DOMAIN cs /\ cs[h].thread = t /\ cs[h].f = "resume"
    /\ \A i \in DOMAIN cs : h < i => cs[i].f = "call" /\ cs[i].thread = t
    /\ from = cs[h - 1].thread /\ f = ths[from]

GoesOnAs(f, f2, now2) ==
    \/ f2 = Pop(f) /\ now2 = LuaNow
    \/ f2 = f /\ now2 = [at |-> "errormsg", status |-> "OK"]

CutBelow(cs, h, cs2) == cs2 = SubSeq(cs, 1, h - 1)

OnlyAbove(cs, t, k) == \A i \in DOMAIN cs : k < i => cs[i].thread = t

LEMMA CutMine ==
    ASSUME NEW cs, StackRight(cs), NEW k, k \in 1 .. Len(cs), NEW t, OnlyAbove(cs, t, k),
           NEW cs2, DOMAIN cs2 = 1 .. k, \A i \in 1 .. k : cs2[i] = cs[i]
    PROVE  \A u : /\ Mine(cs2, u) = {i \in Mine(cs, u) : i <= k}
                  /\ u # t => Mine(cs2, u) = Mine(cs, u)
  <1>1. \A u : u # t => \A i \in DOMAIN cs : k < i => cs[i].thread # u
    BY DEF OnlyAbove
  <1> QED
    BY <1>1, MineCut

LEMMA ResumerIs ==
    ASSUME NEW ths, NEW cs, NEW now, NEW at, Right(ths, cs, now, at), NEW t, NEW h, NEW from, NEW f,
           Resumer(ths, cs, t, h, from, f), NEW cs2, CutBelow(cs, h, cs2)
    PROVE  /\ from # t /\ from \in Threads /\ t \in Threads /\ f \in LuaStates
           /\ StackRight(cs2) /\ Len(cs2) = h - 1 /\ h - 1 \in Nat \ {0}
           /\ Mine(cs2, t) = {} /\ t # MainThread /\ t = cs[Len(cs)].thread
           /\ \A u : u # t => Mine(cs2, u) = Mine(cs, u) /\ \A i \in Mine(cs, u) : cs2[i] = cs[i]
           /\ from = cs2[Len(cs2)].thread
           /\ Runs(f, from, cs2, at) /\ Waiting(f) /\ LastFits(cs2, from, Len(cs2))
  <1>0. StackRight(cs) /\ States(ths) /\ Depths(at) /\ \A u \in Threads : ThreadRight(u, ths[u], cs, now, at)
    BY DEF Right
  <1>1. /\ h \in DOMAIN cs /\ cs[h].thread = t /\ cs[h].f = "resume"
        /\ \A i \in DOMAIN cs : h < i => cs[i].f = "call" /\ cs[i].thread = t
        /\ from = cs[h - 1].thread /\ f = ths[from]
    BY DEF Resumer
  <1>2. DOMAIN cs = 1 .. Len(cs) /\ Len(cs) \in Nat \ {0} /\ \A i \in DOMAIN cs : cs[i].thread \in Threads
    BY <1>0, StackSeq
  <1>3. t # MainThread /\ h > 1 /\ \A k \in DOMAIN cs : k < h => cs[k].thread # t
    BY <1>0, <1>1, ResumeIsFirst
  <1>4. h \in Nat /\ h - 1 \in DOMAIN cs /\ h - 1 < h /\ h - 1 \in Nat \ {0} /\ h - 1 \in 1 .. Len(cs)
    BY <1>1, <1>2, <1>3
  <1>5. from # t /\ from \in Threads /\ t \in Threads /\ f \in LuaStates
    BY <1>0, <1>1, <1>2, <1>3, <1>4 DEF States
  <1>6. t = cs[Len(cs)].thread
    BY <1>1, <1>2
  <1>7. PICK k \in 1 .. Len(cs) : k = h - 1
    BY <1>4
  <1>8. cs2 = SubSeq(cs, 1, k)
    BY <1>7 DEF CutBelow
  <1>9. StackRight(cs2) /\ Len(cs2) = k /\ DOMAIN cs2 = 1 .. k /\ \A i \in 1 .. k : cs2[i] = cs[i]
    BY <1>0, <1>8, StackCut
  <1>10. \A i \in DOMAIN cs : k < i => cs[i].thread = t
    BY <1>1, <1>2, <1>4, <1>7
  <1>11. \A u : /\ Mine(cs2, u) = {i \in Mine(cs, u) : i <= k}
                /\ u # t => Mine(cs2, u) = Mine(cs, u)
    <2>1. OnlyAbove(cs, t, k)
      BY <1>10 DEF OnlyAbove
    <2>2. StackRight(cs) /\ k \in 1 .. Len(cs)
      BY <1>0, <1>7
    <2>3. DOMAIN cs2 = 1 .. k /\ \A i \in 1 .. k : cs2[i] = cs[i]
      BY <1>9
    <2> QED
      BY <2>1, <2>2, <2>3, CutMine
  <1>12. \A u : u # t => Mine(cs2, u) = Mine(cs, u)
    BY <1>11
  <1>13. \A u : u # t => \A i \in Mine(cs, u) : cs2[i] = cs[i]
    <2> TAKE u
    <2> HAVE u # t
    <2>1. \A i \in Mine(cs, u) : i \in 1 .. k
      BY <1>9, <1>12 DEF Mine
    <2> QED
      BY <1>9, <2>1
  <1>14. Mine(cs2, t) = {}
    <2>1. \A i \in Mine(cs, t) : ~(i <= k)
      BY <1>2, <1>3, <1>4, <1>7 DEF Mine
    <2> QED
      BY <1>11, <2>1
  <1>15. from = cs2[Len(cs2)].thread
    <2>1. k \in 1 .. k /\ cs[k].thread = from
      BY <1>1, <1>7
    <2> QED
      BY <1>9, <2>1
  <1>16. /\ Len(cs2) \in Mine(cs2, from) /\ Mine(cs2, from) # {} /\ Mine(cs2, from) \subseteq 1 .. Len(cs2)
         /\ Counted(f, from, cs2) => f.nCcalls = Len(cs2)
    BY <1>9, <1>15, TopIsMine
  <1>17. Mine(cs2, from) = Mine(cs, from) /\ \A i \in Mine(cs, from) : cs2[i] = cs[i]
    BY <1>5, <1>12, <1>13
  <1>18. /\ Counted(f, from, cs) /\ Waiting(f)
         /\ Matched(f.ci, cs, at, Mine(cs, from), TRUE)
    <2>1. ThreadRight(from, f, cs, now, at) /\ from # cs[Len(cs)].thread
      BY <1>0, <1>1, <1>5, <1>6
    <2> QED
      BY <1>16, <1>17, <2>1 DEF ThreadRight
  <1>19. Counted(f, from, cs2)
    <2>1. NnyUpTo(cs2, from, Len(cs2)) = NnyUpTo(cs, from, Len(cs))
      BY <1>0, <1>9, <1>17, NnySame
    <2> QED
      BY <1>17, <1>18, <2>1 DEF Counted
  <1>20. Matched(f.ci, cs2, at, Mine(cs2, from), TRUE)
    BY <1>17, <1>18, MatchedSame
  <1>21. f.nCcalls = Len(cs2) /\ f.ci \in Seq(CallInfos) /\ f.ci # << >>
    BY <1>5, <1>16, <1>18, <1>19 DEF Waiting, LuaStates
  <1>22. Known(f.ci, cs2, at, from)
    BY <1>0, <1>9, <1>20, <1>21 DEF Known
  <1>23. \A i \in Mine(cs2, from) : i <= Len(cs2)
    <2>1. k \in Nat /\ Mine(cs2, from) \subseteq 1 .. k
      BY <1>7, <1>9, <1>16
    <2>2. \A i \in Mine(cs2, from) : i <= k
      BY <2>1
    <2> QED
      BY <1>9, <2>2
  <1>24. Runs(f, from, cs2, at)
    BY <1>5, <1>15, <1>16, <1>19, <1>21, <1>22, <1>23 DEF Runs, Counted
  <1>25. LastFits(cs2, from, Len(cs2))
    BY <1>16, <1>18, <1>21, <1>23 DEF LastFits, Waiting
  <1>26. Len(cs2) = h - 1
    BY <1>7, <1>9
  <1> QED
    BY <1>3, <1>4, <1>5, <1>6, <1>9, <1>12, <1>13, <1>14, <1>15, <1>18, <1>24, <1>25, <1>26

LEMMA ResumerSteps ==
    ASSUME NEW f, NEW u, NEW cs, NEW at, Runs(f, u, cs, at), Waiting(f), LastFits(cs, u, Len(cs)),
           NEW f2, NEW now2, GoesOnAs(f, f2, now2)
    PROVE  Steps(u, f2, cs, now2, at)
  <1>1. /\ f.status = "OK" /\ f.ci # << >> /\ f.ci[Len(f.ci)].f \in {"resume", "wrap"}
    BY DEF Waiting
  <1>2. PICK ci : ci = f.ci
    OBVIOUS
  <1>3. Known(ci, cs, at, u) /\ ci \in Seq(CallInfos) /\ ci # << >> /\ f \in LuaStates
    BY <1>2 DEF Runs, Known
  <1>4. Fits(Len(cs)) /\ ci[Len(ci)].f # "lua"
    BY <1>1, <1>2 DEF LastFits
  <1>5. CASE f2 = Pop(f) /\ now2 = LuaNow
    <2>1. Reframes(f, Front(f.ci), f2)
      BY <1>1, <1>3, <1>5, PopIs
    <2>2. PICK ci2 : ci2 = f2.ci
      OBVIOUS
    <2>3. SameBut(f, f2) /\ ci2 = Front(ci) /\ f2.status = "OK"
      BY <1>1, <1>2, <2>1, <2>2, ReframedState
    <2>4. PICK k : k = Len(ci) - 1
      OBVIOUS
    <2>5. ci2 = SubSeq(ci, 1, k) /\ Len(ci) \in Nat \ {0}
      BY <1>3, <2>3, <2>4, FrontIsPrefix
    <2>6. /\ Matched(ci2, cs, at, Mine(cs, u), FALSE)
          /\ Shorter(ci, ci2, k) /\ ci2 # << >> /\ ci2[Len(ci2)].f = "lua"
      BY <1>3, <1>4, <2>4, <2>5, FramePopped
    <2>7. ~ci[Len(ci)].hooked
      <3>1. InfosRight(ci) /\ Len(ci) \in DOMAIN ci
        BY <1>3, KnownFacts DEF Known, Matched
      <3> QED
        BY <1>4, <3>1 DEF InfosRight
    <2>8. Unhooked(ci2, Len(ci2)) <=> Unhooked(f.ci, Len(f.ci))
      <3>1. \A d \in DOMAIN ci : k < d => d = Len(ci)
        BY <2>4, <2>5, <2>6 DEF Shorter
      <3>2. \A d \in DOMAIN ci : k < d => ~ci[d].hooked
        BY <2>7, <3>1
      <3>3. Unhooked(ci2, Len(ci2)) <=> Unhooked(ci, Len(ci))
        BY <2>6, <3>2, SameUnhooked
      <3> QED
        BY <1>2, <3>3
    <2>9. Running(f2, cs, LuaNow) /\ LuaNow \in Doings
      BY <1>4, <2>2, <2>3, <2>6 DEF Running, Doings, LuaNow
    <2>10. Matched(ci2, cs, at, Mine(cs, u), TRUE)
      BY <2>6, Loosened
    <2>11. Steps(u, f2, cs, LuaNow, at)
      BY <2>2, <2>3, <2>6, <2>8, <2>9, <2>10, ReframedSteps
    <2> QED
      BY <1>5, <2>11
  <1>6. CASE f2 = f /\ now2 = [at |-> "errormsg", status |-> "OK"]
    <2>1. now2 \in Doings /\ ~Calm(now2) /\ Running(f, cs, now2)
      BY <1>1, <1>4, <1>6 DEF Doings, Calm, Running
    <2>2. SameBut(f, f)
      BY DEF SameBut, Runs
    <2>3. Matched(f.ci, cs, at, Mine(cs, u), TRUE)
      BY DEF Runs, Known
    <2>4. Steps(u, f, cs, now2, at)
      BY <2>1, <2>2, <2>3, ReframedSteps
    <2> QED
      BY <1>6, <2>4
  <1> QED
    BY <1>5, <1>6 DEF GoesOnAs

BothBecome(ths, t, s2, u, f2, ths2) == ths2 = [[ths EXCEPT ![t] = s2] EXCEPT ![u] = f2]

LEMMA StepsRight ==
    ASSUME NEW t, NEW s2, NEW cs2, NEW now2, NEW at, Steps(t, s2, cs2, now2, at), StackRight(cs2),
           t = cs2[Len(cs2)].thread
    PROVE  ThreadRight(t, s2, cs2, now2, at)
  <1>1. t \in Threads /\ Len(cs2) \in Mine(cs2, t) /\ Mine(cs2, t) \subseteq 1 .. Len(cs2)
        /\ Mine(cs2, t) # {}
    BY TopIsMine
  <1>2. Counted(s2, t, cs2)
    <2>1. Len(cs2) \in Nat
      BY StackSeq
    <2>2. \A i \in Mine(cs2, t) : i <= Len(cs2)
      BY <1>1, <2>1
    <2> QED
      BY <1>1, <2>2 DEF Counted, Steps
  <1>3. /\ Running(s2, cs2, now2) /\ Matched(s2.ci, cs2, at, Mine(cs2, t), TRUE)
        /\ Calm(now2) => Matched(s2.ci, cs2, at, Mine(cs2, t), FALSE)
    BY DEF Steps
  <1> QED
    BY <1>1, <1>2, <1>3, RunningRight

\* The coroutine is away then.
LEMMA ResumeEnds ==
    ASSUME NEW ths, NEW cs, NEW now, NEW at, Right(ths, cs, now, at), NEW t, NEW h, NEW from, NEW f,
           Resumer(ths, cs, t, h, from, f), NEW cs2, CutBelow(cs, h, cs2),
           NEW s2, s2 \in LuaStates, Away(s2), NEW f2, NEW now2, GoesOnAs(f, f2, now2),
           NEW ths2, BothBecome(ths, t, s2, from, f2, ths2)
    PROVE  Right(ths2, cs2, now2, at)
  <1>1. /\ from # t /\ from \in Threads /\ t \in Threads
        /\ StackRight(cs2) /\ Mine(cs2, t) = {} /\ t = cs[Len(cs)].thread
    BY ResumerIs
  <1>2. \A u : u # t => Mine(cs2, u) = Mine(cs, u) /\ \A i \in Mine(cs, u) : cs2[i] = cs[i]
    BY ResumerIs
  <1>3. from = cs2[Len(cs2)].thread
    BY ResumerIs
  <1>4. Runs(f, from, cs2, at) /\ Waiting(f) /\ LastFits(cs2, from, Len(cs2))
    BY ResumerIs
  <1>5. Steps(from, f2, cs2, now2, at)
    BY <1>4, ResumerSteps
  <1>6. ThreadRight(from, f2, cs2, now2, at)
    BY <1>1, <1>3, <1>5, StepsRight
  <1>7. ThreadRight(t, s2, cs2, now2, at)
    BY <1>1 DEF ThreadRight
  <1>8. States(ths) /\ Depths(at)
    BY DEF Right
  <1>9. f2 \in LuaStates /\ now2 \in Doings
    BY <1>5 DEF Steps
  <1>10. States(ths2) /\ ths2[t] = s2 /\ ths2[from] = f2 /\ \A u \in Threads \ {t, from} : ths2[u] = ths[u]
    BY <1>1, <1>8, <1>9 DEF States, BothBecome
  <1>11. OnlyFor({t, from}, ths, ths2, cs, cs2, at, at)
    <2>1. cs[Len(cs)].thread \in {t, from} /\ cs2[Len(cs2)].thread \in {t, from}
      BY <1>1, <1>3
    <2> QED
      BY <1>2, <1>10, <2>1 DEF OnlyFor
  <1>12. \A u \in {t, from} : ThreadRight(u, ths2[u], cs2, now2, at)
    BY <1>6, <1>7, <1>10
  <1> QED
    BY <1>1, <1>8, <1>9, <1>10, <1>11, <1>12, StepRight

LEMMA EndedAs ==
    ASSUME NEW t, NEW u, t \in Threads, u \in Threads, u # t, States(th), NEW s2,
           NEW after, after = [th EXCEPT ![t] = s2], NEW failed, Ended(after, u, failed)
    PROVE  \E f2 : GoesOnAs(th[u], f2, doing') /\ BothBecome(th, t, s2, u, f2, th')
  <1>1. after[u] = th[u]
    OBVIOUS
  <1>2. CASE failed /\ Last(after[u].ci).f = "wrap"
    <2>1. th' = after /\ doing' = [at |-> "errormsg", status |-> "OK"]
      BY <1>2 DEF Ended, Go
    <2>2. after = [after EXCEPT ![u] = th[u]]
      BY <1>1 DEF States
    <2> QED
      BY <2>1, <2>2 DEF GoesOnAs, BothBecome
  <1>3. CASE ~(failed /\ Last(after[u].ci).f = "wrap")
    <2>1. th' = [after EXCEPT ![u] = Pop(@)] /\ doing' = LuaNow
      BY <1>3 DEF Ended, Go, LuaNow
    <2>2. th' = [after EXCEPT ![u] = Pop(th[u])]
      BY <1>1, <2>1 DEF States
    <2> QED
      BY <2>1, <2>2 DEF GoesOnAs, BothBecome
  <1> QED
    BY <1>2, <1>3

\* What lua_resume() leaves of the coroutine's counters.
LeftAs(s, s2) == s2 = [s EXCEPT !.nny = 1, !.nCcalls = @ - 1]

LEMMA LeftFields ==
    ASSUME NEW s, s \in LuaStates, NEW s2, LeftAs(s, s2)
    PROVE  /\ s2 \in LuaStates /\ s2.nny = 1 /\ s2.ci = s.ci /\ s2.status = s.status
           /\ s2.hasFunction = s.hasFunction /\ s2.allowhook = s.allowhook
  <1>1. PICK a \in Int : a = s.nCcalls - 1
    BY DEF LuaStates
  <1>2. s2 = [s EXCEPT !.nny = 1, !.nCcalls = a]
    BY <1>1 DEF LeftAs
  <1>3. /\ s2.nny = 1 /\ s2.ci = s.ci /\ s2.status = s.status
        /\ s2.hasFunction = s.hasFunction /\ s2.allowhook = s.allowhook
    BY <1>2 DEF LuaStates
  <1>4. s2 \in LuaStates
    <2>1. PICK b \in Int : b = 1
      OBVIOUS
    <2>2. s2 = [s EXCEPT !.nny = b, !.nCcalls = a]
      BY <1>2, <2>1
    <2> QED
      BY <1>1, <2>1, <2>2 DEF LuaStates
  <1> QED
    BY <1>3, <1>4

LEMMA UnrollStep ==
    ASSUME NEW at, Right(th, cstack, doing, at), Unroll
    PROVE  Right(th', cstack', doing', at)
  <1>1. PICK t, s : t = Thread /\ s = th[t]
    OBVIOUS
  <1>2. Turn(th, cstack, t, s) /\ s \in LuaStates /\ States(th) /\ t \in Threads
    BY <1>1, TheTurn
  <1>3. doing.at = "unroll"
    BY DEF Unroll, In
  <1>4. /\ Kept(t, cstack, cstack) /\ StackRight(cstack) /\ cstack[Len(cstack)].f = "resume"
        /\ s.status = "OK"
    BY <1>2, <1>3, ThreadUnrolls
  <1>5. Top(t) = s.ci[Len(s.ci)]
    BY <1>1, TheTurn
  <1>6. CASE s.ci = << >>
    <2>1. LeaveResume(th, FALSE)
      BY <1>1, <1>6 DEF Unroll
    <2>2. PICK h, cs2, from, f : /\ h = Len(cstack) /\ cs2 = Front(cstack)
                                 /\ from = cstack[h - 1].thread /\ f = th[from]
      OBVIOUS
    <2>3. h \in DOMAIN cstack /\ DOMAIN cstack = 1 .. h /\ h \in Nat \ {0}
      BY <1>4, <2>2, StackSeq
    <2>4. Resumer(th, cstack, t, h, from, f)
      BY <1>2, <1>4, <2>2, <2>3 DEF Resumer, Turn
    <2>5. CutBelow(cstack, h, cs2)
      BY <2>2 DEF CutBelow, Front
    <2>6. from # t /\ from \in Threads
      BY <2>4, <2>5, ResumerIs
    <2>7. PICK s2 : LeftAs(s, s2)
      BY DEF LeftAs
    <2>8. PICK after : after = [th EXCEPT ![t] = s2]
      OBVIOUS
    <2>9. Ended(after, from, FALSE) /\ cstack' = cs2
      <3>1. [th EXCEPT ![t].nny = 1, ![t].nCcalls = @ - 1] = after
        BY <1>1, <1>2, <2>7, <2>8 DEF LeftAs, States, LuaStates
      <3> QED
        BY <1>1, <2>1, <2>2, <3>1 DEF LeaveResume
    <2>10. PICK f2 : GoesOnAs(f, f2, doing') /\ BothBecome(th, t, s2, from, f2, th')
      BY <1>2, <2>2, <2>6, <2>8, <2>9, EndedAs
    <2>11. s2 \in LuaStates /\ Away(s2)
      <3>1. /\ s2 \in LuaStates /\ s2.nny = 1 /\ s2.ci = s.ci /\ s2.status = s.status
            /\ s2.hasFunction = s.hasFunction
        BY <1>2, <2>7, LeftFields
      <3>2. ~s.hasFunction
        <4>1. Counted(s, t, cstack)
          BY <1>2, RunningThread DEF Turn
        <4> QED
          BY <4>1 DEF Counted
      <3>3. InfosRight(<< >>)
        BY DEF InfosRight
      <3> QED
        BY <1>4, <1>6, <3>1, <3>2, <3>3 DEF Away
    <2>12. PICK now2 : now2 = doing'
      OBVIOUS
    <2>13. Right(th', cs2, now2, at)
      BY <2>4, <2>5, <2>10, <2>11, <2>12, ResumeEnds
    <2> QED
      BY <2>9, <2>12, <2>13
  <1>7. CASE s.ci # << >> /\ s.ci[Len(s.ci)].f # "lua"
    <2>1. PICK p : p = Pop(s)
      OBVIOUS
    <2>2. th' = [th EXCEPT ![t] = p] /\ cstack' = cstack /\ doing' = doing
      <3>1. ~IsLua(Top(t))
        BY <1>5, <1>7 DEF IsLua
      <3> QED
        BY <1>1, <1>2, <1>7, <2>1, <3>1 DEF Unroll, FinishCCall, States
    <2>3. Reframes(s, Front(s.ci), p)
      BY <1>2, <1>7, <2>1, PopIs
    <2>4. Steps(t, p, cstack, doing, at)
      BY <1>2, <1>3, <1>7, <2>3, ContinuedReturns
    <2>5. Becomes(th, t, p, th')
      BY <2>2 DEF Becomes
    <2>6. Right(th', cstack, doing, at)
      BY <1>4, <2>4, <2>5, ThreadStep
    <2> QED
      BY <2>2, <2>6
  <1>8. CASE s.ci # << >> /\ s.ci[Len(s.ci)].f = "lua"
    <2>1. th' = th /\ cstack' = cstack /\ doing' = LuaNow
      <3>1. IsLua(Top(t))
        BY <1>5, <1>8 DEF IsLua
      <3> QED
        BY <1>1, <1>8, <3>1 DEF Unroll, Go, LuaNow
    <2>2. Steps(t, s, cstack, LuaNow, at)
      BY <1>2, <1>3, <1>8, LuaGoesOn
    <2>3. Becomes(th, t, s, th)
      BY <1>1, <1>2 DEF Becomes, States
    <2>4. Right(th, cstack, LuaNow, at)
      BY <1>4, <2>2, <2>3, ThreadStep
    <2> QED
      BY <2>1, <2>4
  <1> QED
    BY <1>6, <1>7, <1>8

----------------------------------------------------------------------------
(* Calls of Lua functions by C: what Enter() needs.                        *)

LEMMA CallingIs ==
    ASSUME NEW t \in Threads, NEW nny \in {0, 1},
           NEW then \in {"operation", "function", "pcall", "errormsg"}, NEW e, e = Calling(t, nny, then)
    PROVE  /\ e \in Entries /\ e.f = "call" /\ e.thread = t /\ e.nny = nny
           /\ \A what : IsCall(e, what) <=> what = then
           /\ OfFunction(e) <=> then \in {"function", "pcall"}
  BY DEF Calling, Entries, IsCall, OfFunction

\* The thread t, whose state is s, calls in the way of luaD_call().
ToCall(t, s, e, ths, cs, at) ==
    /\ Runs(s, t, cs, at) /\ s.status = "OK"
    /\ s.nCcalls = ths[t].nCcalls /\ s.nny = ths[t].nny
    /\ e \in Entries /\ e.f = "call" /\ e.thread = t
    /\ e.nny = 1 <=> IsCall(e, "function") \/ IsCall(e, "errormsg")
    /\ Fits(Len(cs)) \/ IsCall(e, "errormsg")
    /\ \A i \in Mine(cs, t) : at[i] < Len(s.ci) \/ (~Fits(i) /\ IsCall(e, "errormsg"))

\* From which CallInfo it does.
From(e, n, c) ==
    /\ IsCall(e, "operation") => c.f = "lua"
    /\ OfFunction(e) => c.f # "lua"
    /\ c.hooked => IsCall(e, "errormsg")
    /\ c.f # "lua" => c.k \/ e.nny = 1 \/ ~Fits(n)

LEMMA CallReady ==
    ASSUME NEW t, NEW s, NEW e, NEW ths, NEW cs, NEW at, ToCall(t, s, e, ths, cs, at),
           NEW n, n = s.nCcalls + 1, From(e, n, s.ci[Len(s.ci)])
    PROVE  ReadyToEnter(t, s, e, n, ths, cs, at)
  <1>1. Runs(s, t, cs, at) /\ Known(s.ci, cs, at, t) /\ s.nCcalls = Len(cs) /\ Len(cs) \in Nat
    BY StackSeq DEF ToCall, Runs, Known
  <1>2. e \in Entries /\ e.f = "call" /\ e.thread = t
    BY DEF ToCall
  <1>3. Matched(s.ci, cs, at, Mine(cs, t), TRUE)
    BY <1>1 DEF Known
  <1>4. n - 1 = Len(cs)
    BY <1>1
  <1>5. MayEnter(e, n, s.ci, cs, at, Mine(cs, t))
    <2>1. /\ InfosRight(s.ci) /\ Places(s.ci, cs, at, Mine(cs, t)) /\ Callers(s.ci, cs, at, Mine(cs, t))
          /\ Begun(s.ci, cs, at, Mine(cs, t)) /\ Handled(s.ci, cs, at, Mine(cs, t), TRUE)
          /\ Continuable(s.ci, cs, at, Mine(cs, t), TRUE)
          /\ Protecting(s.ci, cs, at, Mine(cs, t))
      BY <1>3 DEF Matched
    <2>2. \A i \in Mine(cs, t) : at[i] < Len(s.ci) \/ (~Fits(i) /\ IsCall(e, "errormsg"))
      BY DEF ToCall
    <2>3. e.f # "pcall"
      BY <1>2
    <2>4. \A d \in DOMAIN s.ci : s.ci[d].f \in Protected =>
            \/ s.ci[d].ypcall /\ \A i \in Mine(cs, t) : cs[i].nny = 1 \/ cs[i].f = "pcall" => d <= at[i]
            \/ ~s.ci[d].ypcall /\ \E i \in Mine(cs, t) : cs[i].f = "pcall" /\ at[i] = d
      BY <2>1 DEF Protecting
    <2> QED
      BY <2>1, <2>2, <2>3, <2>4 DEF MayEnter, From
  <1> QED
    BY <1>1, <1>2, <1>4, <1>5 DEF ReadyToEnter, ToCall, Runs, Known

LEMMA EnterStep ==
    ASSUME NEW at, Right(th, cstack, doing, at),
           NEW t, NEW s, NEW e, NEW n, ReadyToEnter(t, s, e, n, th, cstack, at), Enter(t, s, e)
    PROVE  \E at2 : Right(th', cstack', doing', at2)
  <1>1. n = s.nCcalls + 1 /\ s.nCcalls \in Int /\ MaxCCalls \in Nat
    BY CallsAssumption DEF ReadyToEnter, LuaStates
  <1>2. th' = [th EXCEPT ![t] = StateEntered(s, n, e.nny, LuaFunction(FALSE))]
    BY <1>1 DEF Enter, StateEntered
  <1>3. cstack' = Append(cstack, IF Fits(n) THEN e ELSE [e EXCEPT !.nny = 0])
    BY <1>1 DEF Enter
  <1>4. doing' = CASE Fits(n) -> [at |-> "lua", status |-> "OK"]
                   [] n = MaxCCalls -> [at |-> "errormsg", status |-> "OK"]
                   [] OTHER -> [at |-> "throw", status |-> "ERRERR"]
    <2>1. ~(Fits(n) /\ n = MaxCCalls)
      BY <1>1 DEF Fits
    <2> QED
      BY <1>1, <2>1 DEF Enter, Go, Throw
  <1>5. Entered(t, s, e, n, th, cstack, th', cstack', doing')
    BY <1>2, <1>3, <1>4 DEF Entered
  <1> QED
    BY <1>5, EnterRight

\* For a Lua instruction.
LEMMA MetamethodStep ==
    ASSUME NEW at, Right(th, cstack, doing, at), Metamethod
    PROVE  \E at2 : Right(th', cstack', doing', at2)
  <1>1. PICK t, s : t = Thread /\ s = th[t]
    OBVIOUS
  <1>2. Turn(th, cstack, t, s) /\ t \in Threads
    BY <1>1, TheTurn
  <1>3. PICK e : e = Calling(t, 0, "operation")
    OBVIOUS
  <1>4. doing.at = "lua" /\ Enter(t, s, e)
    BY <1>1, <1>3 DEF Metamethod, InLua, In
  <1>5. /\ Runs(s, t, cstack, at) /\ s.status = "OK" /\ s.ci[Len(s.ci)].f = "lua"
        /\ ~s.ci[Len(s.ci)].hooked /\ Fits(Len(cstack)) /\ LastFits(cstack, t, Len(cstack))
    BY <1>2, <1>4, ThreadInLua
  <1>6. PICK z \in {0, 1} : z = 0
    OBVIOUS
  <1>7. /\ e \in Entries /\ e.f = "call" /\ e.thread = t /\ e.nny = 0
        /\ \A what : IsCall(e, what) <=> what = "operation"
        /\ ~OfFunction(e)
    BY <1>2, <1>3, <1>6, CallingIs
  <1>8. \A i \in Mine(cstack, t) : at[i] < Len(s.ci)
    BY <1>5, KnownBegun DEF Runs
  <1>9. s.nCcalls = th[t].nCcalls /\ s.nny = th[t].nny
    BY <1>1
  <1>10. ToCall(t, s, e, th, cstack, at)
    BY <1>5, <1>7, <1>8, <1>9 DEF ToCall
  <1>11. From(e, s.nCcalls + 1, s.ci[Len(s.ci)])
    BY <1>5, <1>7 DEF From
  <1> QED
    BY <1>4, <1>10, <1>11, CallReady, EnterStep

ErrorNow == [at |-> "errormsg", status |-> "OK"]

LEMMA StepsRun ==
    ASSUME NEW s, NEW t, NEW cs, NEW at, Runs(s, t, cs, at),
           NEW s2, NEW now2, Steps(t, s2, cs, now2, at), s2.ci # << >>
    PROVE  Runs(s2, t, cs, at)
  <1>1. s2.ci \in Seq(CallInfos)
    BY DEF Steps, LuaStates
  <1> QED
    BY <1>1 DEF Runs, Steps, Known

\* A thread that has called a C function runs on.
LEMMA PushRuns ==
    ASSUME NEW ths, NEW cs, NEW now, NEW at, Right(ths, cs, now, at), now.at = "lua",
           NEW t, NEW s, Turn(ths, cs, t, s), NEW c, NEW s2, PushedAs(s, c, s2)
    PROVE  /\ Runs(s2, t, cs, at) /\ s2.status = "OK" /\ s2.ci # << >> /\ s2.ci[Len(s2.ci)] = c
           /\ s2.nCcalls = s.nCcalls /\ s2.nny = s.nny /\ Fits(Len(cs)) /\ LastFits(cs, t, Len(cs))
           /\ Kept(t, cs, cs)
           /\ Steps(t, s2, cs, ErrorNow, at)
  <1>1. /\ Pushes(s, c, s2.ci, s2) /\ s2.status = s.status
        /\ s2.ci # << >> /\ s2.ci[Len(s2.ci)] = c
    BY PushedIs
  <1>2. /\ Runs(s, t, cs, at) /\ s.status = "OK" /\ Fits(Len(cs)) /\ LastFits(cs, t, Len(cs))
        /\ Kept(t, cs, cs)
    BY ThreadInLua
  <1>3. PICK now2 : now2 = ErrorNow
    OBVIOUS
  <1>4. now2 \in Doings /\ ~Calm(now2) /\ Running(s2, cs, now2)
    BY <1>1, <1>2, <1>3 DEF Doings, Calm, Running, ErrorNow
  <1>5. Steps(t, s2, cs, now2, at)
    BY <1>1, <1>4, PushSteps
  <1>6. Runs(s2, t, cs, at)
    BY <1>1, <1>2, <1>5, StepsRun
  <1>7. s2.nCcalls = s.nCcalls /\ s2.nny = s.nny
    BY <1>1 DEF Pushes, SameBut
  <1> QED
    BY <1>1, <1>2, <1>3, <1>5, <1>6, <1>7

\* By a C function without continuation.
LEMMA CallbackStep ==
    ASSUME NEW at, Right(th, cstack, doing, at), Callback
    PROVE  \E at2 : Right(th', cstack', doing', at2)
  <1>1. PICK t, s : t = Thread /\ s = th[t]
    OBVIOUS
  <1>2. Turn(th, cstack, t, s) /\ t \in Threads /\ s \in LuaStates
    BY <1>1, TheTurn
  <1>3. PICK e : e = Calling(t, 1, "function")
    OBVIOUS
  <1>4. PICK c : c = CFunction("c") /\ Plain(c) /\ c.f = "c"
    BY PlainFrames
  <1>5. PICK s2 : s2 = [s EXCEPT !.ci = Append(s.ci, c)]
    OBVIOUS
  <1>6. doing.at = "lua" /\ Enter(t, s2, e)
    BY <1>1, <1>3, <1>4, <1>5 DEF Callback, InLua, In, Pushed
  <1>7. PushedAs(s, c, s2)
    BY <1>2, <1>4, <1>5 DEF PushedAs
  <1>8. /\ Runs(s2, t, cstack, at) /\ s2.status = "OK" /\ s2.ci[Len(s2.ci)] = c
        /\ Fits(Len(cstack)) /\ LastFits(cstack, t, Len(cstack))
        /\ s2.nCcalls = s.nCcalls /\ s2.nny = s.nny
    BY <1>2, <1>6, <1>7, PushRuns
  <1>9. PICK z \in {0, 1} : z = 1
    OBVIOUS
  <1>10. /\ e \in Entries /\ e.f = "call" /\ e.thread = t /\ e.nny = 1
         /\ \A what : IsCall(e, what) <=> what = "function"
    BY <1>2, <1>3, <1>9, CallingIs
  <1>11. \A i \in Mine(cstack, t) : at[i] < Len(s2.ci)
    BY <1>8, KnownBegun DEF Runs
  <1>12. s2.nCcalls = th[t].nCcalls /\ s2.nny = th[t].nny
    BY <1>1, <1>8
  <1>13. ToCall(t, s2, e, th, cstack, at)
    BY <1>8, <1>10, <1>11, <1>12 DEF ToCall
  <1>14. From(e, s2.nCcalls + 1, s2.ci[Len(s2.ci)])
    BY <1>4, <1>8, <1>10 DEF From, Plain
  <1> QED
    BY <1>6, <1>13, <1>14, CallReady, EnterStep

\* luaG_errormsg(): there is nothing to call, or the call of the error handler.
LEMMA ErrorMsgStep ==
    ASSUME NEW at, Right(th, cstack, doing, at), ErrorMsg
    PROVE  \E at2 : Right(th', cstack', doing', at2)
  <1>1. PICK t, s : t = Thread /\ s = th[t]
    OBVIOUS
  <1>2. Turn(th, cstack, t, s) /\ t \in Threads /\ s \in LuaStates
    BY <1>1, TheTurn
  <1>3. PICK e : e = Calling(t, 1, "errormsg")
    OBVIOUS
  <1>4. /\ doing.at = "errormsg"
        /\ \/ /\ doing' \in [at : {"throw"}, status : {"ERRRUN", "ERRERR"}]
              /\ th' = th /\ cstack' = cstack
           \/ Enter(t, s, e)
    BY <1>1, <1>3 DEF ErrorMsg, In, Throw
  <1>5. Running(s, cstack, doing) /\ doing \in Doings /\ StackRight(cstack)
        /\ (s.ci # << >> => Runs(s, t, cstack, at))
    BY <1>2, ThreadRuns
  <1>6. s.status = "OK" /\ s.ci # << >>
    <2>1. doing # [at |-> "throw", status |-> "YIELD"]
      BY <1>4
    <2> QED
      BY <1>4, <1>5, <2>1 DEF Running
  <1>7. Runs(s, t, cstack, at)
    BY <1>5, <1>6
  <1>8. CASE doing' \in [at : {"throw"}, status : {"ERRRUN", "ERRERR"}] /\ th' = th /\ cstack' = cstack
    <2>1. PICK now2 : now2 = doing'
      OBVIOUS
    <2>2. now2 \in [at : {"throw"}, status : {"ERRRUN", "ERRERR"}]
      BY <1>8, <2>1
    <2>3. now2 \in Doings /\ ~Calm(now2) /\ now2.at = "throw" /\ now2.status # "YIELD"
      BY <2>2 DEF Doings, Calm
    <2>4. Running(s, cstack, now2)
      BY <1>6, <2>3 DEF Running
    <2>5. Right(th, cstack, now2, at)
      BY <1>2, <1>6, <2>3, <2>4, GoesOn
    <2> QED
      BY <1>8, <2>1, <2>5
  <1>9. CASE Enter(t, s, e)
    <2>1. PICK z \in {0, 1} : z = 1
      OBVIOUS
    <2>2. /\ e \in Entries /\ e.f = "call" /\ e.thread = t /\ e.nny = 1
          /\ \A what : IsCall(e, what) <=> what = "errormsg"
          /\ ~OfFunction(e)
      BY <1>2, <1>3, <2>1, CallingIs
    <2>3. Known(s.ci, cstack, at, t) /\ Matched(s.ci, cstack, at, Mine(cstack, t), TRUE)
      BY <1>7 DEF Runs, Known
    <2>4. ASSUME NEW i \in Mine(cstack, t) PROVE at[i] < Len(s.ci) \/ ~Fits(i)
      <3>1. Places(s.ci, cstack, at, Mine(cstack, t)) /\ Callers(s.ci, cstack, at, Mine(cstack, t))
        BY <2>3 DEF Matched
      <3>2. Len(s.ci) \in Nat \ {0} /\ at[i] \in Nat
        BY <2>3, KnownFacts
      <3>3. CASE cstack[i].f = "resume"
        BY <3>1, <3>2, <3>3 DEF Callers
      <3>4. CASE cstack[i].f # "resume"
        BY <3>1, <3>4 DEF Places
      <3> QED
        BY <3>3, <3>4
    <2>5. s.nCcalls = th[t].nCcalls /\ s.nny = th[t].nny
      BY <1>1
    <2>6. ToCall(t, s, e, th, cstack, at)
      BY <1>6, <1>7, <2>2, <2>4, <2>5 DEF ToCall
    <2>7. From(e, s.nCcalls + 1, s.ci[Len(s.ci)])
      BY <2>2 DEF From
    <2> QED
      BY <1>9, <2>6, <2>7, CallReady, EnterStep
  <1> QED
    BY <1>4, <1>8, <1>9

----------------------------------------------------------------------------
(* lua_pcallk().                                                           *)

Adds(ci, c, ci2) == ci2 = Append(ci, c)

\* By luaD_pcall(): the function is protected by the C call that it makes.
LEMMA ConventionalMatched ==
    ASSUME NEW ci, NEW cs, NEW at, NEW t, Known(ci, cs, at, t), Matched(ci, cs, at, Mine(cs, t), FALSE),
           LastFits(cs, t, Len(cs)),
           NEW c, c \in CallInfos, c.f \in Protected, ~c.hooked, ~c.ypcall, ~c.reentry,
           ci[Len(ci)].f = "lua", NEW ci2, Adds(ci, c, ci2),
           NEW e, e.f = "pcall", e.nny = 1, e.ci = Len(ci2), e.allowhook <=> Unhooked(ci, Len(ci)), NEW n
    PROVE  /\ MayEnter(e, n, ci2, cs, at, Mine(cs, t))
           /\ ci2 \in Seq(CallInfos) /\ ci2 # << >>
           /\ Unhooked(ci2, Len(ci2)) <=> Unhooked(ci, Len(ci))
  <1>1. ci \in Seq(CallInfos) /\ ci # << >> /\ c.f # "lua" /\ InfosRight(ci)
    BY DEF Known, Matched, Protected
  <1>2. /\ Longer(ci, ci2, c) /\ ci2 \in Seq(CallInfos) /\ ci2 # << >> /\ InfosRight(ci2)
        /\ Unhooked(ci2, Len(ci2)) <=> Unhooked(ci, Len(ci))
    BY <1>1, PushIsLonger DEF Adds
  <1>3. /\ Places(ci2, cs, at, Mine(cs, t)) /\ Callers(ci2, cs, at, Mine(cs, t))
        /\ Begun(ci2, cs, at, Mine(cs, t)) /\ Handled(ci2, cs, at, Mine(cs, t), TRUE)
        /\ Continuable(ci2, cs, at, Mine(cs, t), TRUE)
    BY <1>2, FrameFits
  <1>4. /\ ProtectingTo(ci2, cs, at, Mine(cs, t), Len(ci))
        /\ DOMAIN ci2 = 1 .. Len(ci) + 1 /\ Len(ci) \in Nat \ {0} /\ ci2[Len(ci) + 1] = c
        /\ Len(ci2) = Len(ci) + 1
    BY <1>2, FrameProtects
  <1>5. \A d \in DOMAIN ci2 : d \in 1 .. Len(ci) \/ d = Len(ci2)
    BY <1>4
  <1>6. ci2[Len(ci2)] = c
    BY <1>4
  <1>7. \A d \in DOMAIN ci2 : ci2[d].f \in Protected =>
          \/ ci2[d].ypcall /\ \A i \in Mine(cs, t) : cs[i].nny = 1 \/ cs[i].f = "pcall" => d <= at[i]
          \/ ~ci2[d].ypcall /\ \E i \in Mine(cs, t) : cs[i].f = "pcall" /\ at[i] = d
          \/ ~ci2[d].ypcall /\ e.f = "pcall" /\ d = Len(ci2)
    BY <1>4, <1>5, <1>6 DEF ProtectingTo
  <1>8. \A i \in Mine(cs, t) : at[i] < Len(ci2)
    <2>1. \A i \in Mine(cs, t) : at[i] < Len(ci) /\ at[i] \in Nat
      BY KnownBegun, KnownFacts
    <2> QED
      BY <1>4, <2>1
  <1>9. ~IsCall(e, "operation") /\ ~IsCall(e, "errormsg")
    BY DEF IsCall
  <1>10. (e.allowhook <=> Unhooked(ci2, Len(ci2))) /\ e.ci = Len(ci2)
    BY <1>2
  <1> HIDE DEF MayEnter
  <1>11. MayEnter(e, n, ci2, cs, at, Mine(cs, t))
    BY <1>1, <1>2, <1>3, <1>6, <1>7, <1>8, <1>9, <1>10 DEF MayEnter
  <1> QED
    BY <1>2, <1>11

NoneInTheWay(cs, t) == \A i \in Mine(cs, t) : cs[i].nny # 1 /\ cs[i].f # "pcall"
ResumeProtects(c, ci) ==
    /\ c \in CallInfos /\ c.f \in Protected /\ ~c.hooked /\ ~c.reentry /\ c.ypcall /\ c.k
    /\ c.oldAllowhook <=> Unhooked(ci, Len(ci))
    /\ ci[Len(ci)].f = "lua"

\* By lua_resume(): the thread can yield, so that no C call is in the way.
LEMMA YieldableMatched ==
    ASSUME NEW ci, NEW cs, NEW at, NEW t, Known(ci, cs, at, t), Matched(ci, cs, at, Mine(cs, t), FALSE),
           NoneInTheWay(cs, t),
           NEW c, ResumeProtects(c, ci), NEW ci2, Adds(ci, c, ci2)
    PROVE  /\ Matched(ci2, cs, at, Mine(cs, t), TRUE)
           /\ ci2 \in Seq(CallInfos) /\ ci2 # << >> /\ ci2[Len(ci2)] = c
           /\ Unhooked(ci2, Len(ci2)) <=> Unhooked(ci, Len(ci))
  <1>5. /\ c \in CallInfos /\ c.f \in Protected /\ ~c.hooked /\ ~c.reentry /\ c.ypcall /\ c.k
        /\ c.oldAllowhook <=> Unhooked(ci, Len(ci))
        /\ ci[Len(ci)].f = "lua"
    BY DEF ResumeProtects
  <1>1. ci \in Seq(CallInfos) /\ ci # << >> /\ c.f # "lua" /\ InfosRight(ci)
    BY <1>5 DEF Known, Matched, Protected
  <1>2. /\ Longer(ci, ci2, c) /\ ci2 \in Seq(CallInfos) /\ ci2 # << >> /\ InfosRight(ci2)
        /\ Unhooked(ci2, Len(ci2)) <=> Unhooked(ci, Len(ci))
    BY <1>1, <1>5, PushIsLonger DEF Adds
  <1>3. Matched(ci2, cs, at, Mine(cs, t), TRUE)
    BY <1>2, <1>5, FramePushed DEF NoneInTheWay
  <1>4. ci2[Len(ci2)] = c
    BY <1>2, FrameProtects
  <1> QED
    BY <1>2, <1>3, <1>4

Noted(c, s) == [c EXCEPT !.k = TRUE, !.ypcall = TRUE, !.oldErrfunc = s.errfunc,
                         !.oldAllowhook = s.allowhook]
PushedFor(s, c, errfunc, s2) == s2 = [s EXCEPT !.errfunc = errfunc, !.ci = Append(s.ci, c)]

LEMMA NotedFields ==
    ASSUME NEW s, s \in LuaStates, NEW c, c \in CallInfos, NEW c2, c2 = Noted(c, s)
    PROVE  /\ c2 \in CallInfos /\ c2.f = c.f /\ c2.hooked = c.hooked /\ c2.reentry = c.reentry
           /\ c2.k /\ c2.ypcall /\ c2.oldAllowhook = s.allowhook
  BY DEF Noted, CallInfos, LuaStates

Replaces(ci, c, c2, ci1, d) ==
    /\ ci \in Seq(CallInfos) /\ c \in CallInfos /\ c2 \in CallInfos
    /\ ci1 = Append(ci, c) /\ d = Len(ci1)

LastIs(ci, c, c2, ci1, d) == [ci1 EXCEPT ![d] = c2] = Append(ci, c2) /\ ci1[d] = c

LEMMA LastReplaced ==
    ASSUME NEW ci, NEW c, NEW c2, NEW ci1, NEW d, Replaces(ci, c, c2, ci1, d)
    PROVE  LastIs(ci, c, c2, ci1, d)
  <1>1. /\ ci1 \in Seq(CallInfos) /\ Len(ci1) = Len(ci) + 1 /\ ci1[Len(ci) + 1] = c
        /\ Len(ci) \in Nat
        /\ \A i \in 1 .. Len(ci) : ci1[i] = ci[i]
    BY AppendProperties DEF Replaces
  <1>2. PICK ci2 : ci2 = [ci1 EXCEPT ![d] = c2]
    OBVIOUS
  <1>3. PICK ci3 : ci3 = Append(ci, c2)
    OBVIOUS
  <1>4. OneSet(ci1, d, c2, ci2)
    BY <1>1, <1>2 DEF OneSet, Replaces
  <1>9. ci2 \in Seq(CallInfos) /\ Len(ci2) = Len(ci1) /\ ci2[d] = c2
    BY <1>4, OneChanged
  <1>10. \A i \in 1 .. Len(ci1) : i # d => ci2[i] = ci1[i]
    BY <1>4, OneChanged
  <1>5. /\ ci2 \in Seq(CallInfos) /\ Len(ci2) = Len(ci1)
        /\ ci2[d] = c2 /\ \A i \in 1 .. Len(ci1) : i # d => ci2[i] = ci1[i]
    BY <1>9, <1>10
  <1>6. /\ ci3 \in Seq(CallInfos) /\ Len(ci3) = Len(ci) + 1 /\ ci3[Len(ci) + 1] = c2
        /\ \A i \in 1 .. Len(ci) : ci3[i] = ci[i]
    BY <1>3, AppendProperties DEF Replaces
  <1>7. \A i \in 1 .. Len(ci2) : ci2[i] = ci3[i]
    <2> SUFFICES ASSUME NEW i \in 1 .. Len(ci2) PROVE ci2[i] = ci3[i]
      OBVIOUS
    <2>1. CASE i = Len(ci) + 1
      BY <1>1, <1>5, <1>6, <2>1 DEF Replaces
    <2>2. CASE i # Len(ci) + 1
      <3>1. i \in 1 .. Len(ci) /\ i # d /\ i \in 1 .. Len(ci1)
        BY <1>1, <1>5, <2>2 DEF Replaces
      <3> QED
        BY <1>1, <1>5, <1>6, <3>1
    <2> QED
      BY <2>1, <2>2
  <1>8. ci2 = ci3
    BY <1>1, <1>5, <1>6, <1>7, SeqEqual
  <1>11. ci1[d] = c
    BY <1>1 DEF Replaces
  <1>12. [ci1 EXCEPT ![d] = c2] = Append(ci, c2)
    BY <1>2, <1>3, <1>8
  <1> QED
    BY <1>11, <1>12 DEF LastIs

NotedFor(s, c, func, s1, d, w) ==
    /\ s \in LuaStates /\ c \in CallInfos
    /\ s1 = [s EXCEPT !.ci = Append(@, c)] /\ d = Len(s1.ci)
    /\ w = [s1 EXCEPT !.errfunc = func,
                      !.ci[d].k = TRUE, !.ci[d].ypcall = TRUE,
                      !.ci[d].oldErrfunc = s1.errfunc, !.ci[d].oldAllowhook = s1.allowhook]

LEMMA NotedIs ==
    ASSUME NEW s, NEW c, NEW func, NEW s1, NEW d, NEW w, NotedFor(s, c, func, s1, d, w),
           NEW c2, c2 = Noted(c, s)
    PROVE  PushedFor(s, c2, func, w)
  <1>1. s.ci \in Seq(CallInfos) /\ c2 \in CallInfos
    BY NotedFields DEF LuaStates, NotedFor
  <1>2. PICK ci1 : ci1 = Append(s.ci, c)
    OBVIOUS
  <1>3. s1.ci = ci1 /\ s1.errfunc = s.errfunc /\ s1.allowhook = s.allowhook /\ d = Len(ci1)
    BY <1>2 DEF LuaStates, NotedFor
  <1>4. [ci1 EXCEPT ![d] = c2] = Append(s.ci, c2) /\ ci1[d] = c
    <2>1. Replaces(s.ci, c, c2, ci1, d)
      BY <1>1, <1>2, <1>3 DEF Replaces, NotedFor
    <2>2. LastIs(s.ci, c, c2, ci1, d)
      BY <2>1, LastReplaced
    <2> QED
      BY <2>2 DEF LastIs
  <1>5. d \in DOMAIN ci1
    <2>1. Len(ci1) \in 1 .. Len(ci1) /\ ci1 \in Seq(CallInfos)
      BY <1>1, <1>2, AppendProperties DEF NotedFor
    <2> QED
      BY <1>3, <2>1
  <1>6. w = [s EXCEPT !.errfunc = func, !.ci = [ci1 EXCEPT ![d] = c2]]
    <2>1. [ci1 EXCEPT ![d].k = TRUE, ![d].ypcall = TRUE, ![d].oldErrfunc = s.errfunc,
                      ![d].oldAllowhook = s.allowhook] = [ci1 EXCEPT ![d] = c2]
      BY <1>4, <1>5 DEF Noted, NotedFor, CallInfos
    <2> QED
      BY <1>3, <2>1 DEF LuaStates, NotedFor
  <1> QED
    BY <1>4, <1>6 DEF PushedFor

LEMMA PushedForIs ==
    ASSUME NEW s, s \in LuaStates, NEW c, c \in CallInfos, NEW func, func \in Nat,
           NEW s2, PushedFor(s, c, func, s2)
    PROVE  /\ s2 \in LuaStates /\ Adds(s.ci, c, s2.ci) /\ s2.nny = s.nny /\ s2.nCcalls = s.nCcalls
           /\ s2.status = s.status /\ s2.hasFunction = s.hasFunction /\ s2.allowhook = s.allowhook
  <1>1. Append(s.ci, c) \in Seq(CallInfos)
    BY AppendProperties DEF LuaStates
  <1> QED
    BY <1>1 DEF PushedFor, LuaStates, Adds

\* The two ways of lua_pcallk().
ByJumpBuffer(t, s, c, s2, e) ==
    /\ \E func \in Nat : PushedFor(s, c, func, s2)
    /\ e = PCalling(t, [s EXCEPT !.ci = Append(@, c)])
ByResume(t, s, c, s2, e) ==
    /\ \E func \in Nat : PushedFor(s, Noted(c, s), func, s2)
    /\ e = Calling(t, 0, "pcall")

LEMMA PCallIs ==
    ASSUME NEW f \in Protected, PCall(f), NEW t, t = Thread, NEW s, s = th[t], s \in LuaStates,
           NEW c, c = CFunction(f), c \in CallInfos
    PROVE  /\ doing.at = "lua"
           /\ \E s2, e : /\ Enter(t, s2, e)
                         /\ \/ s.nny > 0 /\ ByJumpBuffer(t, s, c, s2, e)
                            \/ ~(s.nny > 0) /\ ByResume(t, s, c, s2, e)
  <1>1. PICK s1 : s1 = [s EXCEPT !.ci = Append(@, c)]
    OBVIOUS
  <1>2. s1.nny = s.nny /\ s1.ci = Append(s.ci, c)
    BY <1>1 DEF LuaStates
  <1>3. PICK d : d = Len(s1.ci)
    OBVIOUS
  <1>4. d \in Nat
    BY <1>2, <1>3, AppendProperties DEF LuaStates
  <1>5. PICK func \in Nat : func = IF f = "xpcall" THEN d ELSE 0
    BY <1>4
  <1>6. PICK w : w = [s1 EXCEPT !.errfunc = func,
                          !.ci[d].k = TRUE, !.ci[d].ypcall = TRUE,
                          !.ci[d].oldErrfunc = s1.errfunc, !.ci[d].oldAllowhook = s1.allowhook]
    OBVIOUS
  <1>7. /\ doing.at = "lua"
        /\ IF s1.nny > 0 THEN Enter(t, [s1 EXCEPT !.errfunc = func], PCalling(t, s1))
                         ELSE Enter(t, w, Calling(t, 0, "pcall"))
    BY <1>1, <1>3, <1>5, <1>6 DEF PCall, InLua, In, Pushed, Conventional
  <1>8. CASE s.nny > 0
    <2>1. PICK s2, e : s2 = [s1 EXCEPT !.errfunc = func] /\ e = PCalling(t, s1)
      OBVIOUS
    <2>2. PushedFor(s, c, func, s2)
      BY <1>1, <2>1 DEF PushedFor, LuaStates
    <2>3. Enter(t, s2, e)
      BY <1>2, <1>7, <1>8, <2>1
    <2>4. ByJumpBuffer(t, s, c, s2, e)
      BY <1>1, <1>5, <2>1, <2>2 DEF ByJumpBuffer
    <2> QED
      BY <1>7, <1>8, <2>3, <2>4
  <1>9. CASE ~(s.nny > 0)
    <2>1. PICK e : e = Calling(t, 0, "pcall")
      OBVIOUS
    <2>2. NotedFor(s, c, func, s1, d, w)
      BY <1>1, <1>3, <1>6 DEF NotedFor
    <2>3. PushedFor(s, Noted(c, s), func, w)
      BY <2>2, NotedIs
    <2>4. Enter(t, w, e)
      BY <1>2, <1>7, <1>9, <2>1
    <2>5. ByResume(t, s, c, w, e)
      BY <1>5, <2>1, <2>3 DEF ByResume
    <2> QED
      BY <1>7, <1>9, <2>4, <2>5
  <1> QED
    BY <1>8, <1>9

LEMMA PCallingIs ==
    ASSUME NEW t, t \in Threads, NEW s, s \in LuaStates, NEW c, c \in CallInfos,
           NEW s2, NEW e, ByJumpBuffer(t, s, c, s2, e)
    PROVE  /\ e \in Entries /\ e.f = "pcall" /\ e.thread = t /\ e.nny = 1
           /\ e.nCcalls = s.nCcalls /\ e.ci = Len(s2.ci)
           /\ e.allowhook = s.allowhook /\ e.oldNny = s.nny
  <1>1. PICK func \in Nat : PushedFor(s, c, func, s2)
    BY DEF ByJumpBuffer
  <1>2. Adds(s.ci, c, s2.ci)
    BY <1>1, PushedForIs
  <1>3. PICK ci2 : ci2 = Append(s.ci, c)
    OBVIOUS
  <1>4. Len(ci2) \in Nat /\ s2.ci = ci2
    BY <1>2, <1>3, AppendProperties DEF LuaStates, Adds
  <1>5. PICK s1 : s1 = [s EXCEPT !.ci = ci2]
    OBVIOUS
  <1>6. s1.ci = ci2 /\ s1.nCcalls = s.nCcalls /\ s1.allowhook = s.allowhook /\ s1.nny = s.nny
        /\ s1.errfunc = s.errfunc
    BY <1>5 DEF LuaStates
  <1>7. e = PCalling(t, s1)
    BY <1>3, <1>5 DEF ByJumpBuffer
  <1>8. s.nCcalls \in Int /\ s.allowhook \in BOOLEAN /\ s.nny \in Int /\ s.errfunc \in Nat
    BY DEF LuaStates
  <1> QED
    BY <1>4, <1>6, <1>7, <1>8 DEF PCalling, Entries

LEMMA ProtectedFrames ==
    ASSUME NEW f \in Protected, NEW c, c = CFunction(f)
    PROVE  c \in CallInfos /\ c.f = f /\ ~c.hooked /\ ~c.ypcall /\ ~c.reentry
  BY FramesAreCallInfos

LEMMA JumpBufferReady ==
    ASSUME NEW ths, NEW cs, NEW now, NEW at, Right(ths, cs, now, at), now.at = "lua",
           NEW t, NEW s, Turn(ths, cs, t, s), NEW f \in Protected, NEW c, c = CFunction(f),
           NEW s2, NEW e, ByJumpBuffer(t, s, c, s2, e), NEW n, n = s.nCcalls + 1
    PROVE  ReadyToEnter(t, s2, e, n, ths, cs, at)
  <1>1. /\ Runs(s, t, cs, at) /\ s.status = "OK" /\ s.ci # << >> /\ s.ci[Len(s.ci)].f = "lua"
        /\ Fits(Len(cs)) /\ LastFits(cs, t, Len(cs)) /\ Matched(s.ci, cs, at, Mine(cs, t), FALSE)
    BY ThreadInLua
  <1>2. /\ Known(s.ci, cs, at, t) /\ s \in LuaStates /\ t \in Threads /\ ~s.hasFunction
        /\ s.nCcalls = Len(cs) /\ (s.allowhook <=> Unhooked(s.ci, Len(s.ci)))
        /\ t = cs[Len(cs)].thread
    BY <1>1 DEF Runs
  <1>3. c \in CallInfos /\ c.f = f /\ ~c.hooked /\ ~c.ypcall /\ ~c.reentry
    BY ProtectedFrames
  <1>4. PICK func \in Nat : PushedFor(s, c, func, s2)
    BY DEF ByJumpBuffer
  <1>5. PICK ci2 : ci2 = s2.ci
    OBVIOUS
  <1>6. /\ s2 \in LuaStates /\ Adds(s.ci, c, s2.ci) /\ s2.nny = s.nny /\ s2.nCcalls = s.nCcalls
        /\ s2.status = s.status /\ s2.hasFunction = s.hasFunction /\ s2.allowhook = s.allowhook
    BY <1>2, <1>3, <1>4, PushedForIs
  <1>7. /\ e \in Entries /\ e.f = "pcall" /\ e.thread = t /\ e.nny = 1
        /\ e.nCcalls = s.nCcalls /\ e.ci = Len(ci2) /\ e.allowhook = s.allowhook /\ e.oldNny = s.nny
    BY <1>2, <1>3, <1>5, PCallingIs
  <1>8. /\ MayEnter(e, n, ci2, cs, at, Mine(cs, t)) /\ ci2 # << >>
        /\ Unhooked(ci2, Len(ci2)) <=> Unhooked(s.ci, Len(s.ci))
    <2>1. Adds(s.ci, c, ci2)
      BY <1>5, <1>6
    <2>2. e.allowhook <=> Unhooked(s.ci, Len(s.ci))
      BY <1>2, <1>7
    <2> QED
      BY <1>1, <1>2, <1>3, <1>7, <2>1, <2>2, ConventionalMatched
  <1>9. n - 1 = Len(cs) /\ n - 1 = s.nCcalls
    <2>1. Len(cs) \in Nat
      BY <1>2, StackSeq DEF Known
    <2> QED
      BY <1>2, <2>1
  <1>10. s2.nCcalls = ths[t].nCcalls /\ s2.nny = ths[t].nny
    BY <1>6 DEF Turn
  <1>11. ~IsCall(e, "function") /\ ~IsCall(e, "errormsg")
    BY <1>7 DEF IsCall
  <1>12. MayEnter(e, n, s2.ci, cs, at, Mine(cs, t)) /\ s2.ci # << >>
         /\ (s2.allowhook <=> Unhooked(s2.ci, Len(s2.ci)))
    BY <1>2, <1>5, <1>6, <1>8
  <1> QED
    BY <1>1, <1>2, <1>6, <1>7, <1>9, <1>10, <1>11, <1>12 DEF ReadyToEnter

LEMMA ResumeReady ==
    ASSUME NEW ths, NEW cs, NEW now, NEW at, Right(ths, cs, now, at), now.at = "lua",
           NEW t, NEW s, Turn(ths, cs, t, s), ~(s.nny > 0), NEW f \in Protected, NEW c, c = CFunction(f),
           NEW s2, NEW e, ByResume(t, s, c, s2, e), NEW n, n = s.nCcalls + 1
    PROVE  ReadyToEnter(t, s2, e, n, ths, cs, at)
  <1>1. /\ Runs(s, t, cs, at) /\ s.status = "OK" /\ s.ci # << >> /\ s.ci[Len(s.ci)].f = "lua"
        /\ Fits(Len(cs)) /\ LastFits(cs, t, Len(cs)) /\ Matched(s.ci, cs, at, Mine(cs, t), FALSE)
    BY ThreadInLua
  <1>2. /\ Known(s.ci, cs, at, t) /\ s \in LuaStates /\ t \in Threads /\ ~s.hasFunction
        /\ s.nCcalls = Len(cs) /\ (s.allowhook <=> Unhooked(s.ci, Len(s.ci)))
        /\ t = cs[Len(cs)].thread /\ s.nny = NnyUpTo(cs, t, Len(cs)) /\ StackRight(cs)
    BY <1>1 DEF Runs, Known
  <1>3. c \in CallInfos /\ c.f = f /\ ~c.hooked /\ ~c.ypcall /\ ~c.reentry
    BY ProtectedFrames
  <1>4. PICK c2 : c2 = Noted(c, s)
    OBVIOUS
  <1>5. /\ c2 \in CallInfos /\ c2.f = f /\ ~c2.hooked /\ ~c2.reentry /\ c2.k /\ c2.ypcall
        /\ c2.oldAllowhook <=> Unhooked(s.ci, Len(s.ci))
    BY <1>2, <1>3, <1>4, NotedFields
  <1>6. PICK func \in Nat : PushedFor(s, c2, func, s2)
    BY <1>4 DEF ByResume
  <1>7. PICK ci2 : ci2 = s2.ci
    OBVIOUS
  <1>8. /\ s2 \in LuaStates /\ Adds(s.ci, c2, s2.ci) /\ s2.nny = s.nny /\ s2.nCcalls = s.nCcalls
        /\ s2.status = s.status /\ s2.hasFunction = s.hasFunction /\ s2.allowhook = s.allowhook
    BY <1>2, <1>5, <1>6, PushedForIs
  <1>9. \A i \in Mine(cs, t) : cs[i].nny # 1 /\ cs[i].f # "pcall"
    <2>1. NnyUpTo(cs, t, Len(cs)) = 0
      <3>1. cs \in Seq(Entries) /\ Len(cs) \in Int
        BY <1>2, StackSeq
      <3>2. Cardinality(Nnys(cs, t, Len(cs))) \in Nat
        BY <3>1, NnysFinite
      <3> QED
        BY <1>2, <3>2 DEF NnyUpTo, Base
    <2> QED
      BY <1>1, <1>2, <2>1, NoneCounted
  <1>10. /\ Matched(ci2, cs, at, Mine(cs, t), TRUE)
         /\ ci2 \in Seq(CallInfos) /\ ci2 # << >> /\ ci2[Len(ci2)] = c2
         /\ Unhooked(ci2, Len(ci2)) <=> Unhooked(s.ci, Len(s.ci))
    <2>1. Adds(s.ci, c2, ci2)
      BY <1>7, <1>8
    <2>2. c2.f \in Protected
      BY <1>5
    <2>3. s.ci[Len(s.ci)].f = "lua" /\ Known(s.ci, cs, at, t) /\ Matched(s.ci, cs, at, Mine(cs, t), FALSE)
      BY <1>1, <1>2
    <2>4. ResumeProtects(c2, s.ci)
      BY <1>5, <2>2, <2>3 DEF ResumeProtects
    <2>5. NoneInTheWay(cs, t)
      BY <1>9 DEF NoneInTheWay
    <2> QED
      BY <2>1, <2>3, <2>4, <2>5, YieldableMatched
  <1>11. Runs(s2, t, cs, at) /\ s2.status = "OK"
    <2>1. Known(s2.ci, cs, at, t)
      BY <1>2, <1>7, <1>8, <1>10 DEF Known
    <2>2. s2.allowhook <=> Unhooked(s2.ci, Len(s2.ci))
      BY <1>2, <1>7, <1>8, <1>10
    <2> QED
      BY <1>1, <1>8, <2>1, <2>2 DEF Runs
  <1>12. PICK z \in {0, 1} : z = 0
    OBVIOUS
  <1>13. /\ e \in Entries /\ e.f = "call" /\ e.thread = t /\ e.nny = 0
         /\ \A what : IsCall(e, what) <=> what = "pcall"
    <2>1. e = Calling(t, z, "pcall")
      BY <1>12 DEF ByResume
    <2> QED
      BY <1>2, <1>12, <2>1, CallingIs
  <1>14. \A i \in Mine(cs, t) : at[i] < Len(s2.ci)
    <2>1. Known(s2.ci, cs, at, t)
      BY <1>11 DEF Runs
    <2> QED
      BY <1>1, <2>1, KnownBegun
  <1>15. s2.nCcalls = ths[t].nCcalls /\ s2.nny = ths[t].nny
    BY <1>8 DEF Turn
  <1>16. ToCall(t, s2, e, ths, cs, at)
    BY <1>1, <1>11, <1>13, <1>14, <1>15 DEF ToCall
  <1>17. From(e, n, s2.ci[Len(s2.ci)])
    BY <1>5, <1>7, <1>10, <1>13 DEF From, Protected
  <1>18. n = s2.nCcalls + 1
    BY <1>8
  <1> QED
    BY <1>16, <1>17, <1>18, CallReady

\* pcall() and xpcall().
LEMMA PCallStep ==
    ASSUME NEW at, Right(th, cstack, doing, at), NEW f \in Protected, PCall(f)
    PROVE  \E at2 : Right(th', cstack', doing', at2)
  <1>1. PICK t, s : t = Thread /\ s = th[t]
    OBVIOUS
  <1>2. Turn(th, cstack, t, s) /\ t \in Threads /\ s \in LuaStates
    BY <1>1, TheTurn
  <1>3. PICK c : c = CFunction(f)
    OBVIOUS
  <1>4. c \in CallInfos
    BY <1>3, ProtectedFrames
  <1>5. doing.at = "lua"
    BY <1>1, <1>2, <1>3, <1>4, PCallIs
  <1>6. PICK s2, e : /\ Enter(t, s2, e)
                     /\ \/ s.nny > 0 /\ ByJumpBuffer(t, s, c, s2, e)
                        \/ ~(s.nny > 0) /\ ByResume(t, s, c, s2, e)
    BY <1>1, <1>2, <1>3, <1>4, PCallIs
  <1>7. PICK n : n = s.nCcalls + 1
    OBVIOUS
  <1>8. ReadyToEnter(t, s2, e, n, th, cstack, at)
    <2>1. CASE ByJumpBuffer(t, s, c, s2, e)
      BY <1>2, <1>3, <1>5, <1>7, <2>1, JumpBufferReady
    <2>2. CASE ~(s.nny > 0) /\ ByResume(t, s, c, s2, e)
      BY <1>2, <1>3, <1>5, <1>7, <2>2, ResumeReady
    <2> QED
      BY <1>6, <2>1, <2>2
  <1> QED
    BY <1>6, <1>8, EnterStep

----------------------------------------------------------------------------
(* lua_resume().                                                           *)

\* A thread that is not active in the way that luaB_costatus() finds is away.
LEMMA NotUnderWay ==
    ASSUME NEW ths, NEW cs, NEW now, NEW at, Right(ths, cs, now, at), now.at = "lua",
           NEW u, u \in Threads, NEW s, s = ths[u], s.status # "OK" \/ s.ci = << >>
    PROVE  /\ Mine(cs, u) = {} /\ Away(s) /\ u # cs[Len(cs)].thread /\ s \in LuaStates
           /\ u # MainThread
  <1>1. ThreadRight(u, s, cs, now, at) /\ StackRight(cs) /\ States(ths) /\ now \in Doings
    BY DEF Right
  <1>2. now = LuaNow
    BY <1>1 DEF Doings, LuaNow
  <1>3. Mine(cs, u) = {}
    <2> SUFFICES ASSUME Mine(cs, u) # {} PROVE FALSE
      OBVIOUS
    <2>1. IF u = cs[Len(cs)].thread THEN Running(s, cs, now) ELSE Waiting(s)
      BY <1>1 DEF ThreadRight
    <2>2. s.status = "OK" /\ s.ci # << >>
      BY <1>2, <2>1 DEF Running, Waiting, LuaNow
    <2> QED
      BY <2>2
  <1>4. Away(s)
    BY <1>1, <1>3 DEF ThreadRight
  <1>5. u # cs[Len(cs)].thread
    BY <1>1, <1>3, TopIsMine
  <1>6. s \in LuaStates
    BY <1>1 DEF States
  <1>7. u # MainThread
    BY <1>1, <1>3 DEF StackRight, Mine
  <1> QED
    BY <1>3, <1>4, <1>5, <1>6, <1>7

\* What it does to one that is away is not noticed by the others.
LEMMA AwayChanges ==
    ASSUME NEW ths, NEW cs, NEW now, NEW at, Right(ths, cs, now, at),
           NEW u, u \in Threads, Mine(cs, u) = {}, NEW s2, s2 \in LuaStates, Away(s2),
           NEW ths2, Becomes(ths, u, s2, ths2)
    PROVE  Right(ths2, cs, now, at)
  <1>1. States(ths) /\ StackRight(cs) /\ now \in Doings /\ Depths(at)
    BY DEF Right
  <1>2. PICK t : t = cs[Len(cs)].thread
    OBVIOUS
  <1>3. t \in Threads /\ u # t
    BY <1>1, <1>2, TopIsMine
  <1>4. States(ths2) /\ ths2[u] = s2 /\ \A v \in Threads : v # u => ths2[v] = ths[v]
    BY <1>1 DEF States, Becomes
  <1>9. PICK cs2, at2, now2 : cs2 = cs /\ at2 = at /\ now2 = now
    OBVIOUS
  <1>5. OnlyFor({t, u}, ths, ths2, cs, cs2, at, at2)
    BY <1>2, <1>4, <1>9 DEF OnlyFor
  <1>6. ThreadRight(u, s2, cs, now, at)
    BY DEF ThreadRight
  <1>7. ThreadRight(t, ths[t], cs, now, at)
    BY <1>3 DEF Right
  <1>8. \A v \in {t, u} : ThreadRight(v, ths2[v], cs2, now2, at2)
    BY <1>3, <1>4, <1>6, <1>7, <1>9
  <1>10. StackRight(cs2) /\ now2 \in Doings /\ Depths(at2) /\ States(ths2)
    BY <1>1, <1>4, <1>9
  <1>11. Right(ths2, cs2, now2, at2)
    BY <1>5, <1>8, <1>10, StepRight
  <1> QED
    BY <1>9, <1>11

\* It sets these fields of a thread that it refuses to go on with.
RefusedAs(s, n, s2) == s2 = [s EXCEPT !.nny = 1, !.nCcalls = n]

LEMMA RefusedIs ==
    ASSUME NEW s, s \in LuaStates, Away(s), NEW n, n \in Int, NEW s2, RefusedAs(s, n, s2)
    PROVE  s2 \in LuaStates /\ Away(s2)
  <1>1. PICK b \in Int : b = 1
    OBVIOUS
  <1>2. s2 = [s EXCEPT !.nny = b, !.nCcalls = n]
    BY <1>1 DEF RefusedAs
  <1>3. /\ s2 \in LuaStates /\ s2.nny = b /\ s2.ci = s.ci /\ s2.status = s.status
        /\ s2.hasFunction = s.hasFunction /\ s2.allowhook = s.allowhook
    BY <1>2 DEF LuaStates
  <1> QED
    BY <1>1, <1>3 DEF Away

\* What the C stack does not tell of the coroutine's CallInfos.
Suspended(ci) ==
    /\ ci \in Seq(CallInfos) /\ InfosRight(ci) /\ Unhooked(ci, Len(ci))
    /\ \A d \in DOMAIN ci : ci[d].f # "lua" => ci[d].k
    /\ \A d \in DOMAIN ci : ci[d].f \in Protected => ci[d].ypcall

LEMMA ResumedMatched ==
    ASSUME NEW ci, Suspended(ci), NEW n, n \in Nat \ {0}, NEW cs, cs[n].f = "resume", cs[n].nny = 0,
           NEW at, at[n] = 0
    PROVE  Matched(ci, cs, at, {n}, FALSE)
  <1>1. Len(ci) \in Nat /\ DOMAIN ci = 1 .. Len(ci)
    BY DEF Suspended
  <1>2. Places(ci, cs, at, {n})
    BY <1>1 DEF Places
  <1>3. Callers(ci, cs, at, {n})
    BY DEF Callers, IsCall, OfFunction
  <1>4. Begun(ci, cs, at, {n})
    BY DEF Begun
  <1>5. Handled(ci, cs, at, {n}, FALSE)
    BY <1>1 DEF Suspended, Unhooked, Handled
  <1>6. Continuable(ci, cs, at, {n}, FALSE)
    BY DEF Suspended, Continuable
  <1>7. Protecting(ci, cs, at, {n})
    BY DEF Suspended, Protecting
  <1>8. InfosRight(ci)
    BY DEF Suspended
  <1> QED
    BY <1>2, <1>3, <1>4, <1>5, <1>6, <1>7, <1>8 DEF Matched

\* The thread that calls lua_resume() waits.
Extends(cs, cs2, at, at2, t) ==
    /\ Mine(cs2, t) = Mine(cs, t) /\ \A i \in Mine(cs, t) : cs2[i] = cs[i] /\ at2[i] = at[i]
    /\ t # cs2[Len(cs2)].thread

LEMMA ResumerWaits ==
    ASSUME NEW ths, NEW cs, NEW now, NEW at, Right(ths, cs, now, at), now.at = "lua",
           NEW t, NEW s, Turn(ths, cs, t, s), NEW c, NEW s2, PushedAs(s, c, s2), c.f \in {"resume", "wrap"},
           NEW cs2, StackRight(cs2), NEW at2, Extends(cs, cs2, at, at2, t), NEW now2
    PROVE  ThreadRight(t, s2, cs2, now2, at2)
  <1>1. /\ Runs(s2, t, cs, at) /\ s2.status = "OK" /\ s2.ci # << >> /\ s2.ci[Len(s2.ci)] = c
        /\ Fits(Len(cs))
    BY PushRuns
  <1>2. /\ Known(s2.ci, cs, at, t) /\ StackRight(cs) /\ Matched(s2.ci, cs, at, Mine(cs, t), TRUE)
        /\ s2.nny = NnyUpTo(cs, t, Len(cs)) /\ s2.nCcalls = Len(cs) /\ ~s2.hasFunction
        /\ s2.allowhook <=> Unhooked(s2.ci, Len(s2.ci))
        /\ Len(cs) \in Mine(cs, t) /\ \A i \in Mine(cs, t) : i <= Len(cs)
    BY <1>1 DEF Runs, Known
  <1>3. /\ Mine(cs2, t) = Mine(cs, t) /\ \A i \in Mine(cs, t) : cs2[i] = cs[i] /\ at2[i] = at[i]
        /\ t # cs2[Len(cs2)].thread
    BY DEF Extends
  <1>4. Matched(s2.ci, cs2, at2, Mine(cs, t), TRUE)
    BY <1>2, <1>3, MatchedSame
  <1>5. NnyUpTo(cs2, t, Len(cs2)) = NnyUpTo(cs, t, Len(cs))
    BY <1>2, <1>3, NnySame
  <1>6. Counted(s2, t, cs2)
    BY <1>2, <1>3, <1>5 DEF Counted
  <1>7. Waiting(s2)
    BY <1>1, <1>2 DEF Waiting
  <1>8. Matched(s2.ci, cs2, at2, Mine(cs2, t), t # cs2[Len(cs2)].thread \/ ~Calm(now2))
    <2>1. (t # cs2[Len(cs2)].thread \/ ~Calm(now2)) = TRUE
      BY <1>3
    <2> QED
      BY <1>3, <1>4, <2>1
  <1> QED
    BY <1>2, <1>3, <1>6, <1>7, <1>8 DEF ThreadRight

\* The coroutine begins or goes on.
Resumes(s, n, cs, u, at) ==
    /\ n = Len(cs) /\ n \in Nat \ {0} /\ cs[n].f = "resume" /\ cs[n].thread = u /\ cs[n].nny = 0
    /\ Mine(cs, u) = {n} /\ u # MainThread /\ at[n] = 0
    /\ s.nny = 0 /\ s.nCcalls = n /\ s.status = "OK" /\ ~s.hasFunction /\ s.allowhook
    /\ Suspended(s.ci)

LEMMA ResumedRight ==
    ASSUME NEW cs, StackRight(cs), NEW u, NEW s, NEW n, NEW at, Resumes(s, n, cs, u, at),
           NEW now, \/ now = Unrolling
                    \/ now = LuaNow /\ Fits(n) /\ s.ci # << >> /\ s.ci[Len(s.ci)].f = "lua"
    PROVE  ThreadRight(u, s, cs, now, at)
  <1>1. /\ n = Len(cs) /\ n \in Nat \ {0} /\ cs[n].f = "resume" /\ cs[n].thread = u /\ cs[n].nny = 0
        /\ Mine(cs, u) = {n} /\ u # MainThread /\ at[n] = 0
    BY DEF Resumes
  <1>2. /\ s.nny = 0 /\ s.nCcalls = n /\ s.status = "OK" /\ ~s.hasFunction /\ s.allowhook
        /\ Suspended(s.ci)
    BY DEF Resumes
  <1>3. Matched(s.ci, cs, at, {n}, FALSE)
    BY <1>1, <1>2, ResumedMatched
  <1>4. NnyUpTo(cs, u, n) = 0
    <2>1. cs \in Seq(Entries) /\ n \in Int
      BY <1>1, StackSeq
    <2>2. Nnys(cs, u, n) = {}
      <3>1. \A i \in DOMAIN cs : cs[i].thread = u => i = n
        BY <1>1 DEF Mine
      <3>2. cs[n].nny # 1
        BY <1>1
      <3> QED
        BY <3>1, <3>2 DEF Nnys
    <2> QED
      BY <1>1, <2>1, <2>2, NnysFinite
  <1>5. Counted(s, u, cs)
    <2>1. Unhooked(s.ci, Len(s.ci))
      BY <1>2 DEF Suspended
    <2>2. s.allowhook <=> Unhooked(s.ci, Len(s.ci))
      BY <1>2, <2>1
    <2>3. s.nny = NnyUpTo(cs, u, Len(cs))
      BY <1>1, <1>2, <1>4
    <2>4. s.nCcalls \in Mine(cs, u) /\ \A i \in Mine(cs, u) : i <= s.nCcalls
      BY <1>1, <1>2
    <2> QED
      BY <1>2, <2>2, <2>3, <2>4 DEF Counted
  <1>6. Running(s, cs, now)
    BY <1>1, <1>2 DEF Running, LuaNow, Unrolling
  <1>7. Calm(now)
    BY DEF Calm, LuaNow, Unrolling
  <1>8. Matched(s.ci, cs, at, Mine(cs, u), u # cs[Len(cs)].thread \/ ~Calm(now))
    <2>1. (u # cs[Len(cs)].thread \/ ~Calm(now)) = FALSE
      BY <1>1, <1>7
    <2> QED
      BY <1>1, <1>3, <2>1
  <1> QED
    BY <1>1, <1>5, <1>6, <1>8 DEF ThreadRight

BegunAs(s, n, s2)   == s2 = [Resumed(s, n) EXCEPT !.hasFunction = FALSE, !.ci = <<LuaFunction(FALSE)>>]
GoneOnAs(s, n, s2)  == s2 = Pop(Resumed(s, n))
Started(s, n, s2, now) ==
    \/ s.status = "OK" /\ s.ci = << >> /\ s.hasFunction /\ BegunAs(s, n, s2) /\ now = LuaNow
    \/ s.status = "YIELD" /\ GoneOnAs(s, n, s2) /\ now = Unrolling
Ready(s, n, s2) ==
    /\ s2 \in LuaStates /\ s2.nny = 0 /\ s2.nCcalls = n /\ s2.status = "OK"
    /\ ~s2.hasFunction /\ s2.allowhook /\ Suspended(s2.ci)

LEMMA OneInfo ==
    ASSUME NEW c, c \in CallInfos, NEW ci, ci = <<c>>
    PROVE  /\ ci \in Seq(CallInfos) /\ Len(ci) = 1 /\ ci[1] = c /\ ci # << >>
           /\ \A d \in DOMAIN ci : d = 1
  <1>1. ci \in Seq(CallInfos)
    OBVIOUS
  <1>2. Len(ci) = 1 /\ ci[1] = c
    OBVIOUS
  <1>3. DOMAIN ci = 1 .. 1
    BY <1>1, <1>2
  <1> QED
    BY <1>1, <1>2, <1>3

OneLua(ci) == ci = <<LuaFunction(FALSE)>>

LEMMA OneIsSuspended ==
    ASSUME NEW ci, OneLua(ci)
    PROVE  Suspended(ci) /\ ci # << >> /\ ci[Len(ci)].f = "lua" /\ ci \in Seq(CallInfos)
  <1>1. PICK c : c = LuaFunction(FALSE)
    OBVIOUS
  <1>2. c \in CallInfos /\ c.f = "lua" /\ ~c.hooked /\ ~c.ypcall /\ ~c.reentry
    BY <1>1, FramesAreCallInfos
  <1>3. ci = <<c>>
    BY <1>1 DEF OneLua
  <1>4. /\ ci \in Seq(CallInfos) /\ Len(ci) = 1 /\ ci[1] = c /\ ci # << >>
        /\ \A d \in DOMAIN ci : d = 1
    BY <1>2, <1>3, OneInfo
  <1>5. InfosRight(ci) /\ Unhooked(ci, Len(ci))
    BY <1>2, <1>4 DEF InfosRight, Unhooked
  <1>6. Suspended(ci)
    BY <1>2, <1>4, <1>5 DEF Suspended, Protected
  <1> QED
    BY <1>2, <1>4, <1>6

LEMMA BegunIs ==
    ASSUME NEW s, s \in LuaStates, Away(s), s.status = "OK", s.hasFunction,
           NEW n, n \in Int, NEW s2, BegunAs(s, n, s2)
    PROVE  Ready(s, n, s2) /\ s2.ci # << >> /\ s2.ci[Len(s2.ci)].f = "lua"
  <1>1. PICK ci : OneLua(ci)
    BY DEF OneLua
  <1>2. Suspended(ci) /\ ci # << >> /\ ci[Len(ci)].f = "lua" /\ ci \in Seq(CallInfos)
    BY <1>1, OneIsSuspended
  <1>3. PICK z \in Int : z = 0
    OBVIOUS
  <1>4. s2 = [s EXCEPT !.nCcalls = n, !.nny = z, !.status = "OK", !.hasFunction = FALSE, !.ci = ci]
    BY <1>1, <1>3 DEF BegunAs, Resumed, LuaStates, OneLua
  <1>5. s2 \in LuaStates /\ s2.nny = z /\ s2.nCcalls = n /\ s2.status = "OK"
    BY <1>2, <1>3, <1>4 DEF LuaStates, Statuses
  <1>6. ~s2.hasFunction /\ s2.ci = ci /\ s2.allowhook = s.allowhook
    BY <1>4 DEF LuaStates
  <1>7. s.allowhook
    BY DEF Away
  <1> QED
    BY <1>2, <1>3, <1>5, <1>6, <1>7 DEF Ready

LEMMA FrontSuspended ==
    ASSUME NEW s, s \in LuaStates, Away(s), s.status = "YIELD", NEW ci2, ci2 = Front(s.ci)
    PROVE  Suspended(ci2) /\ s.allowhook /\ ~s.hasFunction /\ s.ci # << >> /\ s.ci \in Seq(CallInfos)
  <1>1. /\ s.ci # << >> /\ s.allowhook /\ Unhooked(s.ci, Len(s.ci)) /\ InfosRight(s.ci) /\ ~s.hasFunction
        /\ \A d \in DOMAIN s.ci : s.ci[d].f # "lua" => s.ci[d].k \/ d = Len(s.ci)
        /\ \A d \in DOMAIN s.ci : s.ci[d].f \in Protected => s.ci[d].ypcall
    BY DEF Away
  <1>2. PICK ci : ci = s.ci /\ ci \in Seq(CallInfos)
    BY DEF LuaStates
  <1>3. ci2 = SubSeq(ci, 1, Len(ci) - 1) /\ Len(ci) - 1 \in Nat /\ Len(ci) \in Nat \ {0}
    BY <1>1, <1>2, FrontIsPrefix
  <1>4. PICK k \in 0 .. Len(ci) : k = Len(ci) - 1
    BY <1>3
  <1>5. /\ ci2 \in Seq(CallInfos) /\ Len(ci2) = k /\ DOMAIN ci2 = 1 .. k
        /\ \A d \in 1 .. k : ci2[d] = ci[d]
    BY <1>2, <1>3, <1>4, PrefixOf
  <1>6. InfosRight(ci2)
    BY <1>1, <1>2, <1>3, <1>4, PrefixOf
  <1>7. DOMAIN ci = 1 .. Len(ci) /\ \A d \in 1 .. k : d \in DOMAIN ci /\ d # Len(ci)
    BY <1>2, <1>3, <1>4
  <1>8. Unhooked(ci2, Len(ci2))
    BY <1>1, <1>2, <1>5, <1>7 DEF Unhooked
  <1>9. Suspended(ci2)
    BY <1>1, <1>2, <1>5, <1>6, <1>7, <1>8 DEF Suspended
  <1> QED
    BY <1>1, <1>2, <1>9

LEMMA GoneOnIs ==
    ASSUME NEW s, s \in LuaStates, Away(s), s.status = "YIELD",
           NEW n, n \in Int, NEW s2, GoneOnAs(s, n, s2)
    PROVE  Ready(s, n, s2)
  <1>1. PICK ci : ci = Front(s.ci)
    OBVIOUS
  <1>2. Suspended(ci) /\ s.allowhook /\ ~s.hasFunction
    BY <1>1, FrontSuspended
  <1>3. PICK z \in Int : z = 0
    OBVIOUS
  <1>4. ci \in Seq(CallInfos)
    BY <1>2 DEF Suspended
  <1>5. s2 = [s EXCEPT !.nCcalls = n, !.nny = z, !.status = "OK", !.ci = ci]
    BY <1>1, <1>3 DEF GoneOnAs, Resumed, Pop, LuaStates
  <1>6. s2 \in LuaStates /\ s2.nny = z /\ s2.nCcalls = n /\ s2.status = "OK"
    BY <1>3, <1>4, <1>5 DEF LuaStates, Statuses
  <1>7. s2.hasFunction = s.hasFunction /\ s2.ci = ci /\ s2.allowhook = s.allowhook
    BY <1>5 DEF LuaStates
  <1> QED
    BY <1>2, <1>3, <1>6, <1>7 DEF Ready

LEMMA StartedIs ==
    ASSUME NEW s, s \in LuaStates, Away(s), NEW n, n \in Int, NEW s2, NEW now, Started(s, n, s2, now)
    PROVE  /\ Ready(s, n, s2)
           /\ \/ now = Unrolling
              \/ now = LuaNow /\ s2.ci # << >> /\ s2.ci[Len(s2.ci)].f = "lua"
  BY BegunIs, GoneOnIs DEF Started

LEMMA PopOfPushed ==
    ASSUME NEW s, NEW c, NEW s2, PushedAs(s, c, s2)
    PROVE  Pop(s2) = s
  <1>1. s \in LuaStates /\ c \in CallInfos /\ s2 = [s EXCEPT !.ci = Append(s.ci, c)]
    BY DEF PushedAs, Plain
  <1>2. PICK ci, ci2 : ci = s.ci /\ ci2 = Append(s.ci, c)
    OBVIOUS
  <1>3. Front(ci2) = ci
    BY <1>1, <1>2, AppendThenFront DEF LuaStates
  <1>4. s2 = [s EXCEPT !.ci = ci2] /\ s2.ci = ci2
    BY <1>1, <1>2 DEF LuaStates
  <1>5. Pop(s2) = [s2 EXCEPT !.ci = ci]
    BY <1>3, <1>4 DEF Pop
  <1>6. [s2 EXCEPT !.ci = ci] = s
    BY <1>1, <1>2, <1>4 DEF LuaStates
  <1> QED
    BY <1>5, <1>6

\* luaB_coresume() and luaB_auxwrap() when nothing has been resumed.
NotResumed(ths, t, s2, ths2, now2) ==
    \/ ths2 = ths /\ now2 = LuaNow
    \/ Becomes(ths, t, s2, ths2) /\ now2 = ErrorNow

LEMMA EndedFor ==
    ASSUME NEW ths, States(ths), NEW t, t \in Threads, NEW s, s = ths[t],
           NEW c, NEW s2, PushedAs(s, c, s2), NEW called, Becomes(ths, t, s2, called), Ended(called, t, TRUE)
    PROVE  NotResumed(ths, t, s2, th', doing')
  <1>1. Pop(s2) = s
    BY PopOfPushed
  <1>2. called[t] = s2 /\ called = [ths EXCEPT ![t] = s2]
    BY DEF Becomes, States
  <1>3. \/ th' = called /\ doing' = ErrorNow
        \/ th' = [called EXCEPT ![t] = Pop(called[t])] /\ doing' = LuaNow
    BY DEF Ended, Go, ErrorNow, LuaNow
  <1>4. [called EXCEPT ![t] = s] = ths
    BY <1>2 DEF States
  <1> QED
    BY <1>1, <1>2, <1>3, <1>4 DEF NotResumed, Becomes

Refused(ths, u, n, ths2) ==
    \/ ths2 = ths
    \/ \E r : RefusedAs(ths[u], n, r) /\ Becomes(ths, u, r, ths2)
Activated(ths, cs, t, s2, u, n, ths2, cs2, now2) ==
    /\ n < MaxCCalls /\ cs2 = Append(cs, Resuming(u, n))
    /\ \E r : Started(ths[u], n, r, now2) /\ BothBecome(ths, t, s2, u, r, ths2)

LEMMA ResumeIs ==
    ASSUME States(th), NEW u, u \in Threads, NEW f, Resume(u, f),
           NEW t, t = Thread, t \in Threads, u # t, NEW s, s = th[t], NEW n, n = s.nCcalls + 1,
           NEW c, c = CFunction(f), NEW s2, PushedAs(s, c, s2)
    PROVE  \/ Activated(th, cstack, t, s2, u, n, th', cstack', doing')
           \/ /\ cstack' = cstack
              /\ \E ths : Refused(th, u, n - 1, ths) /\ NotResumed(ths, t, s2, th', doing')
  <1> DEFINE isDead == th[u].status = "OK" /\ th[u].ci = << >> /\ ~th[u].hasFunction
  <1>1. PICK called : called = [th EXCEPT ![t] = s2]
    OBVIOUS
  <1>2. called = [th EXCEPT ![t] = Pushed(t, c)] /\ called[u] = th[u]
    BY <1>1 DEF Pushed, PushedAs, States
  <1>3. PICK refused : refused = [called EXCEPT ![u].nny = 1, ![u].nCcalls = n - 1]
    OBVIOUS
  <1>4. PICK active : active = Resumed(called[u], n)
    OBVIOUS
  <1>5. /\ \/ isDead /\ Ended(called, t, TRUE) /\ UNCHANGED cstack
           \/ ~isDead /\ ~CanResume(u, n) /\ Ended(refused, t, TRUE) /\ UNCHANGED cstack
           \/ /\ ~isDead /\ CanResume(u, n)
              /\ cstack' = Append(cstack, Resuming(u, n))
              /\ IF th[u].status = "OK"
                 THEN /\ th' = [called EXCEPT ![u] = [active EXCEPT
                                   !.hasFunction = FALSE, !.ci = <<LuaFunction(FALSE)>>]]
                      /\ Go("lua")
                 ELSE /\ th' = [called EXCEPT ![u] = Pop(active)]
                      /\ Go("unroll")
    BY <1>2, <1>3, <1>4 DEF Resume
  <1>6. Becomes(th, t, s2, called)
    BY <1>1 DEF Becomes
  <1>7. CASE isDead /\ Ended(called, t, TRUE) /\ UNCHANGED cstack
    <2>1. NotResumed(th, t, s2, th', doing')
      BY <1>6, <1>7, EndedFor
    <2> QED
      BY <1>7, <2>1 DEF Refused
  <1>8. CASE Ended(refused, t, TRUE) /\ UNCHANGED cstack
    <2>1. PICK r : r = [th[u] EXCEPT !.nny = 1, !.nCcalls = n - 1]
      OBVIOUS
    <2>2. PICK ths : ths = [th EXCEPT ![u] = r]
      OBVIOUS
    <2>3. Refused(th, u, n - 1, ths)
      BY <2>1, <2>2 DEF Refused, RefusedAs, Becomes
    <2>4. r \in LuaStates
      <3>1. s.nCcalls \in Int /\ th[u] \in LuaStates
        BY DEF States, LuaStates
      <3>2. PICK k \in Int, one \in Int : k = n - 1 /\ one = 1
        BY <3>1
      <3>3. r = [th[u] EXCEPT !.nny = one, !.nCcalls = k]
        BY <2>1, <3>2
      <3> QED
        BY <3>1, <3>2, <3>3 DEF LuaStates
    <2>5. States(ths) /\ ths[t] = s
      BY <2>2, <2>4 DEF States
    <2>6. Becomes(ths, t, s2, refused)
      <3>1. refused = [called EXCEPT ![u] = [called[u] EXCEPT !.nny = 1, !.nCcalls = n - 1]]
        BY <1>3
      <3>2. refused = [called EXCEPT ![u] = r]
        BY <1>2, <2>1, <3>1
      <3>3. [[th EXCEPT ![t] = s2] EXCEPT ![u] = r] = [[th EXCEPT ![u] = r] EXCEPT ![t] = s2]
        OBVIOUS
      <3> QED
        BY <1>1, <2>2, <3>2, <3>3 DEF Becomes
    <2>7. NotResumed(ths, t, s2, th', doing')
      BY <1>8, <2>5, <2>6, EndedFor
    <2> QED
      BY <1>8, <2>3, <2>7
  <1>9. CASE /\ ~isDead /\ CanResume(u, n)
             /\ cstack' = Append(cstack, Resuming(u, n))
             /\ IF th[u].status = "OK"
                THEN /\ th' = [called EXCEPT ![u] = [active EXCEPT
                                  !.hasFunction = FALSE, !.ci = <<LuaFunction(FALSE)>>]]
                     /\ Go("lua")
                ELSE /\ th' = [called EXCEPT ![u] = Pop(active)]
                     /\ Go("unroll")
    <2>1. n < MaxCCalls /\ \/ th[u].status = "OK" /\ th[u].ci = << >>
                           \/ th[u].status = "YIELD"
      BY <1>9 DEF CanResume
    <2>2. CASE th[u].status = "OK"
      <3>1. th[u].hasFunction /\ th[u].ci = << >>
        BY <1>9, <2>1, <2>2
      <3>2. PICK r : r = [active EXCEPT !.hasFunction = FALSE, !.ci = <<LuaFunction(FALSE)>>]
        OBVIOUS
      <3>3. Started(th[u], n, r, LuaNow)
        BY <1>2, <1>4, <2>2, <3>1, <3>2 DEF Started, BegunAs
      <3>4. BothBecome(th, t, s2, u, r, th') /\ doing' = LuaNow
        BY <1>1, <1>9, <2>2, <3>2 DEF BothBecome, Go, LuaNow
      <3> QED
        BY <1>9, <2>1, <3>3, <3>4 DEF Activated
    <2>3. CASE th[u].status = "YIELD"
      <3>1. PICK r : r = Pop(active)
        OBVIOUS
      <3>2. Started(th[u], n, r, Unrolling)
        BY <1>2, <1>4, <2>3, <3>1 DEF Started, GoneOnAs
      <3>3. BothBecome(th, t, s2, u, r, th') /\ doing' = Unrolling
        BY <1>1, <1>9, <2>3, <3>1 DEF BothBecome, Go, Unrolling
      <3> QED
        BY <1>9, <2>1, <3>2, <3>3 DEF Activated
    <2> QED
      BY <2>1, <2>2, <2>3
  <1> QED
    BY <1>5, <1>7, <1>8, <1>9

LEMMA ResumingIs ==
    ASSUME NEW cs, StackRight(cs), Fits(Len(cs)), NEW u, u \in Threads, Mine(cs, u) = {},
           NEW n, n = Len(cs) + 1, n < MaxCCalls, NEW e, e = Resuming(u, n)
    PROVE  MayPush(e, n, cs) /\ e.f = "resume" /\ e.thread = u /\ e.nny = 0
  <1>1. Len(cs) \in Nat
    BY StackSeq
  <1>2. e \in Entries /\ e.f = "resume" /\ e.thread = u /\ e.nny = 0 /\ e.nCcalls = n
    BY <1>1 DEF Entries, Resuming
  <1>3. \A i \in DOMAIN cs : cs[i].thread # u
    BY DEF Mine
  <1>4. ~IsCall(e, "function") /\ ~IsCall(e, "errormsg")
    BY <1>2 DEF IsCall
  <1>5. n - 1 = Len(cs)
    BY <1>1
  <1> QED
    BY <1>2, <1>3, <1>4, <1>5 DEF MayPush

\* The coroutine runs.
LEMMA ActivatedRight ==
    ASSUME NEW ths, NEW cs, NEW now, NEW at, Right(ths, cs, now, at), now.at = "lua",
           NEW t, NEW s, Turn(ths, cs, t, s), NEW c, NEW s2, PushedAs(s, c, s2), c.f \in {"resume", "wrap"},
           NEW u, u \in Threads, Mine(cs, u) = {}, Away(ths[u]), NEW n, n = s.nCcalls + 1,
           NEW ths2, NEW cs2, NEW now2, Activated(ths, cs, t, s2, u, n, ths2, cs2, now2)
    PROVE  \E at2 : Right(ths2, cs2, now2, at2)
  <1>1. /\ Runs(s, t, cs, at) /\ Fits(Len(cs)) /\ StackRight(cs)
    BY ThreadInLua
  <1>2. s.nCcalls = Len(cs) /\ t \in Threads /\ t = cs[Len(cs)].thread /\ Len(cs) \in Mine(cs, t)
    BY <1>1 DEF Runs
  <1>3. n = Len(cs) + 1 /\ Len(cs) \in Nat \ {0} /\ n \in Nat \ {0} /\ DOMAIN cs = 1 .. Len(cs)
    BY <1>1, <1>2, StackSeq
  <1>4. t # u /\ States(ths) /\ Depths(at) /\ u # MainThread
    <2>1. Mine(cs, MainThread) # {}
      BY <1>1 DEF StackRight, Mine
    <2> QED
      BY <1>2, <2>1 DEF Right
  <1>5. PICK e : e = Resuming(u, n)
    OBVIOUS
  <1>6. n < MaxCCalls /\ cs2 = Append(cs, e)
    BY <1>5 DEF Activated
  <1>7. MayPush(e, n, cs) /\ e.f = "resume" /\ e.thread = u /\ e.nny = 0
    BY <1>1, <1>3, <1>5, <1>6, ResumingIs
  <1>8. OnTop(e, n, cs, cs2)
    BY <1>1, <1>6, <1>7, StackPush
  <1>9. /\ StackRight(cs2) /\ Len(cs2) = n /\ DOMAIN cs2 = 1 .. n /\ cs2[n] = e
        /\ \A i \in DOMAIN cs : cs2[i] = cs[i]
    BY <1>8 DEF OnTop
  <1>10. \A v : Mine(cs2, v) = IF v = u THEN Mine(cs, v) \union {n} ELSE Mine(cs, v)
    <2>1. \A v : Mine(cs2, v) = IF v = cs2[n].thread THEN Mine(cs, v) \union {n} ELSE Mine(cs, v)
      BY <1>1, <1>3, <1>9, MinePush
    <2> QED
      BY <1>7, <1>9, <2>1
  <1>11. PICK z \in Nat : z = 0
    OBVIOUS
  <1>12. PICK at2 : Deeper(n, z, at, at2) /\ Depths(at2)
    BY <1>3, <1>4, DeeperIs
  <1>13. at2[n] = 0 /\ \A i \in DOMAIN cs : at2[i] = at[i]
    <2>1. at2 = [at EXCEPT ![n] = z] /\ at \in [Nat -> Nat]
      BY <1>12 DEF Deeper, Depths
    <2>2. \A i \in DOMAIN cs : i \in Nat /\ i # n
      BY <1>3
    <2> QED
      BY <1>3, <1>11, <2>1, <2>2
  <1>14. \A v : Mine(cs, v) \subseteq DOMAIN cs
    BY DEF Mine
  <1>15. PICK r : Started(ths[u], n, r, now2) /\ BothBecome(ths, t, s2, u, r, ths2)
    BY DEF Activated
  <1>16. /\ Ready(ths[u], n, r)
         /\ \/ now2 = Unrolling
            \/ now2 = LuaNow /\ r.ci # << >> /\ r.ci[Len(r.ci)].f = "lua"
    <2>1. ths[u] \in LuaStates /\ n \in Int
      BY <1>3, <1>4 DEF States
    <2> QED
      BY <1>15, <2>1, StartedIs
  <1>17. s2 \in LuaStates
    <2>1. Pushes(s, c, s2.ci, s2)
      BY PushedIs
    <2> QED
      BY <2>1 DEF Pushes, SameBut
  <1>18. /\ States(ths2) /\ ths2[t] = s2 /\ ths2[u] = r
         /\ \A v \in Threads \ {t, u} : ths2[v] = ths[v]
    <2>1. r \in LuaStates
      BY <1>16 DEF Ready
    <2> QED
      BY <1>2, <1>4, <1>15, <1>17, <2>1 DEF States, BothBecome
  <1>19. ThreadRight(t, s2, cs2, now2, at2)
    <2>1. Extends(cs, cs2, at, at2, t)
      BY <1>4, <1>7, <1>9, <1>10, <1>13, <1>14 DEF Extends
    <2> QED
      BY <1>9, <2>1, ResumerWaits
  <1>20. ThreadRight(u, r, cs2, now2, at2)
    <2>1. Mine(cs2, u) = {n}
      BY <1>10
    <2>2. Resumes(r, n, cs2, u, at2)
      BY <1>3, <1>4, <1>7, <1>9, <1>13, <1>16, <2>1 DEF Resumes, Ready
    <2>3. Fits(n)
      BY <1>6 DEF Fits
    <2> QED
      BY <1>9, <1>16, <2>2, <2>3, ResumedRight
  <1>21. now2 \in Doings
    BY <1>16 DEF Doings, LuaNow, Unrolling
  <1>22. OnlyFor({t, u}, ths, ths2, cs, cs2, at, at2)
    BY <1>2, <1>7, <1>9, <1>10, <1>13, <1>14, <1>18 DEF OnlyFor
  <1>23. \A v \in {t, u} : ThreadRight(v, ths2[v], cs2, now2, at2)
    BY <1>18, <1>19, <1>20
  <1>24. Right(ths2, cs2, now2, at2)
    BY <1>9, <1>12, <1>18, <1>21, <1>22, <1>23, StepRight
  <1> QED
    BY <1>24

LEMMA NotResumedRight ==
    ASSUME NEW ths, NEW cs, NEW now, NEW at, Right(ths, cs, now, at), now.at = "lua",
           NEW t, NEW s, Turn(ths, cs, t, s), NEW c, NEW s2, PushedAs(s, c, s2),
           NEW ths2, NEW now2, NotResumed(ths, t, s2, ths2, now2)
    PROVE  Right(ths2, cs, now2, at)
  <1>1. CASE ths2 = ths /\ now2 = LuaNow
    <2>1. now = LuaNow
      BY DEF Right, Doings, LuaNow
    <2> QED
      BY <1>1, <2>1
  <1>2. CASE Becomes(ths, t, s2, ths2) /\ now2 = ErrorNow
    <2>1. Steps(t, s2, cs, ErrorNow, at) /\ Kept(t, cs, cs)
      BY PushRuns
    <2>2. Steps(t, s2, cs, now2, at)
      BY <1>2, <2>1
    <2> QED
      BY <1>2, <2>1, <2>2, ThreadStep
  <1> QED
    BY <1>1, <1>2 DEF NotResumed

\* coroutine.resume(), and the function that coroutine.wrap() makes.
LEMMA ResumeStep ==
    ASSUME ~AnyThread, NEW at, Right(th, cstack, doing, at), NEW u, u \in Threads,
           NEW f, f \in {"resume", "wrap"}, Resume(u, f)
    PROVE  \E at2 : Right(th', cstack', doing', at2)
  <1>1. PICK t, s : t = Thread /\ s = th[t]
    OBVIOUS
  <1>2. /\ Turn(th, cstack, t, s) /\ t \in Threads /\ s \in LuaStates /\ States(th)
        /\ t = cstack[Len(cstack)].thread
    BY <1>1, TheTurn
  <1>3. doing.at = "lua" /\ (th[u].status # "OK" \/ th[u].ci = << >>)
    BY DEF Resume, InLua, In
  <1>4. Mine(cstack, u) = {} /\ Away(th[u]) /\ u # t /\ th[u] \in LuaStates
    BY <1>2, <1>3, NotUnderWay
  <1>5. PICK c : c = CFunction(f) /\ Plain(c) /\ c.f = f
    BY PlainFrames
  <1>6. PICK s2 : s2 = [s EXCEPT !.ci = Append(s.ci, c)]
    OBVIOUS
  <1>7. PushedAs(s, c, s2)
    BY <1>2, <1>5, <1>6 DEF PushedAs
  <1>8. PICK n : n = s.nCcalls + 1
    OBVIOUS
  <1>9. \/ Activated(th, cstack, t, s2, u, n, th', cstack', doing')
        \/ /\ cstack' = cstack
           /\ \E ths : Refused(th, u, n - 1, ths) /\ NotResumed(ths, t, s2, th', doing')
    BY <1>1, <1>2, <1>4, <1>5, <1>7, <1>8, ResumeIs
  <1>10. CASE Activated(th, cstack, t, s2, u, n, th', cstack', doing')
    <2>1. c.f \in {"resume", "wrap"} /\ doing.at = "lua"
      BY <1>3, <1>5
    <2> QED
      BY <1>2, <1>4, <1>7, <1>8, <1>10, <2>1, ActivatedRight
  <1>11. CASE /\ cstack' = cstack
              /\ \E ths : Refused(th, u, n - 1, ths) /\ NotResumed(ths, t, s2, th', doing')
    <2>1. PICK ths : Refused(th, u, n - 1, ths) /\ NotResumed(ths, t, s2, th', doing')
      BY <1>11
    <2>2. Right(ths, cstack, doing, at) /\ ths[t] = s
      <3>1. CASE ths = th
        BY <1>1, <3>1
      <3>2. CASE \E r : RefusedAs(th[u], n - 1, r) /\ Becomes(th, u, r, ths)
        <4>1. PICK r : RefusedAs(th[u], n - 1, r) /\ Becomes(th, u, r, ths)
          BY <3>2
        <4>2. PICK k \in Int : k = n - 1
          BY <1>2, <1>8 DEF LuaStates
        <4>3. r \in LuaStates /\ Away(r)
          BY <1>4, <4>1, <4>2, RefusedIs
        <4>4. Right(ths, cstack, doing, at)
          BY <1>4, <4>1, <4>3, AwayChanges
        <4>5. ths[t] = s
          BY <1>1, <1>2, <1>4, <4>1 DEF Becomes, States
        <4> QED
          BY <4>4, <4>5
      <3> QED
        BY <2>1, <3>1, <3>2 DEF Refused
    <2>3. Turn(ths, cstack, t, s)
      BY <1>2, <2>2 DEF Turn
    <2>4. Right(th', cstack, doing', at)
      BY <1>3, <1>7, <2>1, <2>2, <2>3, NotResumedRight
    <2> QED
      BY <1>11, <2>4
  <1> QED
    BY <1>9, <1>10, <1>11

----------------------------------------------------------------------------
(* longjmp().                                                              *)

YieldNow == [at |-> "throw", status |-> "YIELD"]

LEMMA ThreadThrown ==
    ASSUME NEW ths, NEW cs, NEW now, NEW at, Right(ths, cs, now, at), now.at = "throw",
           NEW t, NEW s, Turn(ths, cs, t, s)
    PROVE  /\ Runs(s, t, cs, at) /\ s.ci # << >> /\ StackRight(cs) /\ States(ths)
           /\ IF now.status = "YIELD"
                THEN s.status = "YIELD" /\ s.nny = 0 /\ Fits(Len(cs)) /\ s.ci[Len(s.ci)].f = "yield"
                ELSE s.status = "OK" /\ now.status \in {"ERRRUN", "ERRERR"}
  <1>1. Running(s, cs, now) /\ now \in Doings /\ StackRight(cs) /\ (s.ci # << >> => Runs(s, t, cs, at))
    BY ThreadRuns
  <1>2. now.status = "YIELD" <=> now = YieldNow
    BY <1>1 DEF Doings, YieldNow
  <1>3. ~(now.status = "YIELD") => now.status \in {"ERRRUN", "ERRERR"}
    BY <1>1 DEF Doings
  <1>4. s.ci # << >>
    BY <1>1 DEF Running
  <1>5. CASE now.status = "YIELD"
    <2>1. now = YieldNow
      BY <1>2, <1>5
    <2>2. s.status = "YIELD" /\ s.nny = 0 /\ Fits(Len(cs)) /\ s.ci[Len(s.ci)].f = "yield"
      BY <1>1, <2>1 DEF Running, YieldNow
    <2> QED
      BY <1>1, <1>4, <1>5, <2>2 DEF Right
  <1>6. CASE now.status # "YIELD"
    <2>1. now # YieldNow
      BY <1>2, <1>6
    <2>2. s.status = "OK"
      BY <1>1, <2>1 DEF Running, YieldNow
    <2> QED
      BY <1>1, <1>3, <1>4, <1>6, <2>2 DEF Right
  <1> QED
    BY <1>5, <1>6

\* A thread that may yield has not called luaD_pcall().
LEMMA YieldFindsNone ==
    ASSUME NEW ths, NEW cs, NEW now, NEW at, Right(ths, cs, now, at), now.at = "throw",
           now.status = "YIELD", NEW t, NEW s, Turn(ths, cs, t, s)
    PROVE  /\ t # MainThread
           /\ \A i \in Mine(cs, t) : /\ Fits(i) /\ cs[i].nny # 1 /\ cs[i].f # "pcall"
                                     /\ ~IsCall(cs[i], "function") /\ ~IsCall(cs[i], "errormsg")
  <1>1. Runs(s, t, cs, at) /\ StackRight(cs) /\ s.nny = 0 /\ Fits(Len(cs))
    BY ThreadThrown
  <1>2. NnyUpTo(cs, t, Len(cs)) = 0
    BY <1>1 DEF Runs
  <1> QED
    BY <1>1, <1>2, NoneCounted

\* luaD_pcall() restores the thread from its local variables.
CutTo(s, e, s2) ==
    s2 = Pop([s EXCEPT !.ci = SubSeq(@, 1, e.ci), !.allowhook = e.allowhook,
                       !.nny = e.oldNny, !.errfunc = e.errfunc, !.nCcalls = e.nCcalls])
CutFields(s, e, ci2, s2) ==
    /\ s2 \in LuaStates /\ s2.ci = ci2 /\ s2.status = s.status /\ s2.hasFunction = s.hasFunction
    /\ s2.allowhook = e.allowhook /\ s2.nny = e.oldNny /\ s2.errfunc = e.errfunc
    /\ s2.nCcalls = e.nCcalls

LEMMA FrontOfPrefix ==
    ASSUME NEW ci, ci \in Seq(CallInfos), NEW k, k \in Nat \ {0}, k <= Len(ci),
           NEW ci2, ci2 = SubSeq(ci, 1, k - 1)
    PROVE  Front(SubSeq(ci, 1, k)) = ci2 /\ ci2 \in Seq(CallInfos)
  <1>1. PICK n \in 0 .. Len(ci) : n = k
    OBVIOUS
  <1>2. PICK m \in 0 .. Len(ci) : m = k - 1
    OBVIOUS
  <1>3. PICK c : c = SubSeq(ci, 1, n)
    OBVIOUS
  <1>4. c \in Seq(CallInfos) /\ Len(c) = n /\ \A d \in 1 .. n : c[d] = ci[d]
    BY <1>3, PrefixOf
  <1>5. PICK ci3 : ci3 = SubSeq(ci, 1, m)
    OBVIOUS
  <1>6. ci3 \in Seq(CallInfos) /\ Len(ci3) = m /\ \A d \in 1 .. m : ci3[d] = ci[d]
    BY <1>5, PrefixOf
  <1>7. PICK ci4 : ci4 = Front(c)
    OBVIOUS
  <1>8. c # << >>
    BY <1>1, <1>4
  <1>9. ci4 = SubSeq(c, 1, n - 1) /\ n - 1 \in Nat
    BY <1>4, <1>7, <1>8, FrontIsPrefix
  <1>10. PICK r \in 0 .. Len(c) : r = n - 1
    BY <1>4, <1>9
  <1>11. ci4 = SubSeq(c, 1, r)
    BY <1>9, <1>10
  <1>12. ci4 \in Seq(CallInfos) /\ Len(ci4) = r /\ \A d \in 1 .. r : ci4[d] = c[d]
    BY <1>4, <1>10, <1>11, PrefixOf
  <1>13. r = m
    BY <1>1, <1>2, <1>10
  <1>14. \A d \in 1 .. Len(ci4) : ci4[d] = ci3[d]
    BY <1>1, <1>2, <1>4, <1>6, <1>12, <1>13
  <1>15. ci4 = ci3
    BY <1>6, <1>12, <1>13, <1>14, SeqEqual
  <1>16. ci3 = ci2
    BY <1>2, <1>5
  <1> QED
    BY <1>1, <1>3, <1>6, <1>7, <1>15, <1>16

LEMMA CutIs ==
    ASSUME NEW s, s \in LuaStates, NEW e, e \in Entries, e.f = "pcall",
           e.ci \in Nat \ {0}, e.ci <= Len(s.ci),
           NEW ci2, ci2 = SubSeq(s.ci, 1, e.ci - 1), NEW s2, CutTo(s, e, s2)
    PROVE  CutFields(s, e, ci2, s2)
  <1>1. /\ e.allowhook \in BOOLEAN /\ e.oldNny \in Int /\ e.errfunc \in Nat /\ e.nCcalls \in Int
    BY DEF Entries
  <1>2. PICK ci : ci = s.ci /\ ci \in Seq(CallInfos)
    BY DEF LuaStates
  <1>3. Front(SubSeq(ci, 1, e.ci)) = ci2 /\ ci2 \in Seq(CallInfos)
    BY <1>2, FrontOfPrefix
  <1>4. PICK c : c = SubSeq(ci, 1, e.ci)
    OBVIOUS
  <1>5. PICK s1 : s1 = [s EXCEPT !.ci = c, !.allowhook = e.allowhook,
                                 !.nny = e.oldNny, !.errfunc = e.errfunc, !.nCcalls = e.nCcalls]
    OBVIOUS
  <1>6. s2 = [s1 EXCEPT !.ci = ci2]
    <2>1. s2 = Pop(s1)
      BY <1>2, <1>4, <1>5 DEF CutTo
    <2>2. s1.ci = c
      BY <1>5 DEF LuaStates
    <2> QED
      BY <1>3, <1>4, <2>1, <2>2 DEF Pop
  <1>7. s2 = [s EXCEPT !.ci = ci2, !.allowhook = e.allowhook,
                       !.nny = e.oldNny, !.errfunc = e.errfunc, !.nCcalls = e.nCcalls]
    BY <1>5, <1>6 DEF LuaStates
  <1> QED
    BY <1>1, <1>3, <1>7 DEF CutFields, LuaStates

\* Where the error lands.
Lands(cs, t, h) == /\ h \in DOMAIN cs /\ cs[h].thread = t
                   /\ \A i \in DOMAIN cs : h < i => cs[i].f = "call" /\ cs[i].thread = t

LEMMA LandsInPCall ==
    ASSUME NEW ths, NEW cs, NEW now, NEW at, Right(ths, cs, now, at), now.at = "throw",
           NEW t, NEW s, Turn(ths, cs, t, s), NEW h, Lands(cs, t, h), cs[h].f = "pcall", h # 1,
           NEW cs2, CutBelow(cs, h, cs2), NEW s2, CutTo(s, cs[h], s2)
    PROVE  Steps(t, s2, cs2, LuaNow, at) /\ Kept(t, cs, cs2)
  <1>1. /\ Runs(s, t, cs, at) /\ s.ci # << >> /\ StackRight(cs)
    BY ThreadThrown
  <1>2. /\ s \in LuaStates /\ Known(s.ci, cs, at, t) /\ ~s.hasFunction /\ t \in Threads
    BY <1>1 DEF Runs
  <1>3. PICK ci : ci = s.ci
    OBVIOUS
  <1>4. Known(ci, cs, at, t) /\ ci \in Seq(CallInfos) /\ Matched(ci, cs, at, Mine(cs, t), TRUE)
    BY <1>2, <1>3 DEF Known
  <1>5. h \in Mine(cs, t) /\ h \in DOMAIN cs
    BY DEF Lands, Mine
  <1>6. s.status = "OK"
    <2>1. now.status # "YIELD"
      BY <1>5, YieldFindsNone
    <2> QED
      BY <2>1, ThreadThrown
  <1>7. PICK e : e = cs[h]
    OBVIOUS
  <1>8. e \in Entries /\ e.f = "pcall" /\ OfFunction(e) /\ DOMAIN cs = 1 .. Len(cs) /\ Len(cs) \in Nat
    BY <1>1, <1>5, <1>7, StackSeq DEF OfFunction
  <1>9. Ends(h, t, cs, cs2)
    <2>1. h > 1
      BY <1>5, <1>8
    <2>2. \A i \in DOMAIN cs : h <= i => cs[i].thread = t
      BY <1>5, <1>8 DEF Lands
    <2> QED
      BY <1>5, <2>1, <2>2 DEF Ends, CutBelow
  <1>10. PICK k : Below(k, at[h])
    BY DEF Below
  <1>11. PICK ci2 : ci2 = SubSeq(ci, 1, k)
    OBVIOUS
  <1>12. /\ Matched(ci2, cs2, at, Mine(cs2, t), FALSE) /\ ci2[Len(ci2)].f = "lua"
         /\ Shorter(ci, ci2, k) /\ ci2 \in Seq(CallInfos) /\ ci2 # << >>
         /\ at[h] \in Nat \ {0} /\ at[h] <= Len(ci) /\ ~ci[at[h]].hooked
         /\ Fits(h - 1)
    BY <1>4, <1>7, <1>8, <1>9, <1>10, <1>11, FunctionEnds
  <1>13. e.ci = at[h] /\ (e.allowhook <=> Unhooked(ci, at[h]))
    BY <1>4, <1>5, <1>7, <1>8 DEF Matched, Callers
  <1>14. CutFields(s, e, ci2, s2)
    <2>1. CutTo(s, e, s2)
      BY <1>7
    <2>2. k = e.ci - 1
      BY <1>10, <1>13 DEF Below
    <2>3. ci2 = SubSeq(s.ci, 1, e.ci - 1)
      BY <1>3, <1>11, <2>2
    <2>4. e.ci \in Nat \ {0} /\ e.ci <= Len(s.ci)
      BY <1>3, <1>12, <1>13
    <2> QED
      BY <1>2, <1>8, <2>1, <2>3, <2>4, CutIs
  <1>15. /\ Kept(t, cs, cs2) /\ Len(cs2) = h - 1 /\ h - 1 \in Nat \ {0}
         /\ NnyUpTo(cs2, t, h - 1) = NnyUpTo(cs, t, h - 1)
    BY <1>1, <1>9, CallEnds
  <1>16. e.nCcalls = h - 1 /\ e.oldNny = NnyUpTo(cs, t, h - 1)
    <2>1. EntryRight(cs, h) /\ e.thread = t
      BY <1>1, <1>5, <1>7 DEF StackRight, Lands
    <2> QED
      BY <1>7, <1>8, <2>1 DEF EntryRight
  <1>17. s2.nny = NnyUpTo(cs2, t, Len(cs2)) /\ s2.nCcalls = Len(cs2)
    BY <1>14, <1>15, <1>16 DEF CutFields
  <1>18. s2.ci = ci2 /\ s2 \in LuaStates /\ s2.status = "OK" /\ ~s2.hasFunction
         /\ s2.allowhook = e.allowhook
    BY <1>2, <1>6, <1>14 DEF CutFields
  <1>19. s2.allowhook <=> Unhooked(s2.ci, Len(s2.ci))
    <2>1. Unhooked(ci, at[h]) <=> Unhooked(ci, k)
      <3>1. \A d \in DOMAIN ci : d <= at[h] <=> d <= k \/ d = at[h]
        BY <1>4, <1>10, <1>12 DEF Below
      <3> QED
        BY <1>12, <3>1 DEF Unhooked
    <2>2. Unhooked(ci2, Len(ci2)) <=> Unhooked(ci, k)
      <3>1. Len(ci2) = k /\ k \in 0 .. k /\ \A n \in 0 .. k : Unhooked(ci2, n) <=> Unhooked(ci, n)
        BY <1>12 DEF Shorter
      <3> QED
        BY <3>1
    <2> QED
      BY <1>13, <1>18, <2>1, <2>2
  <1>20. Running(s2, cs2, LuaNow) /\ LuaNow \in Doings
    BY <1>12, <1>15, <1>18 DEF Running, LuaNow, Doings
  <1>21. Matched(s2.ci, cs2, at, Mine(cs2, t), FALSE)
    BY <1>12, <1>18
  <1>22. Matched(s2.ci, cs2, at, Mine(cs2, t), TRUE)
    BY <1>21, Loosened
  <1>23. Steps(t, s2, cs2, LuaNow, at)
    BY <1>17, <1>18, <1>19, <1>20, <1>21, <1>22 DEF Steps
  <1> QED
    BY <1>15, <1>23

----------------------------------------------------------------------------
(* recover().                                                              *)

LEMMA GreatestExists ==
    ASSUME NEW n \in Nat, NEW S, S \subseteq 1 .. n, S # {}
    PROVE  \E d \in S : \A c \in S : c <= d
  <1>1. PICK R : R = OpToRel(<, Nat) /\ IsWellFoundedOn(R, Nat)
    BY NatLessThanWellFounded
  <1>2. \A a, b \in Nat : a < b => <<a, b>> \in R
    BY <1>1 DEF OpToRel
  <1>3. PICK T : T = {n - d : d \in S}
    OBVIOUS
  <1>4. T \subseteq Nat /\ T # {}
    <2>1. PICK d : d \in S
      OBVIOUS
    <2>2. n - d \in T
      BY <1>3, <2>1
    <2>3. \A c \in S : n - c \in Nat
      OBVIOUS
    <2>4. T \subseteq Nat
      BY <1>3, <2>3
    <2> QED
      BY <2>2, <2>4
  <1>5. PICK x \in T : \A y \in T : ~(<<y, x>> \in R)
    BY <1>1, <1>4, WFMin
  <1>6. PICK d \in S : x = n - d
    BY <1>3
  <1>7. ASSUME NEW c \in S PROVE c <= d
    <2>1. n - c \in T /\ n - c \in Nat /\ x \in Nat
      BY <1>3, <1>4
    <2>2. ~(n - c < x)
      BY <1>2, <1>5, <2>1
    <2> QED
      BY <1>6, <2>1, <2>2
  <1> QED
    BY <1>7

LEMMA FindIsLast ==
    ASSUME NEW s, s.ci \in Seq(CallInfos), PCalls(s) # {}
    PROVE  /\ FindPCall(s) \in DOMAIN s.ci /\ s.ci[FindPCall(s)].ypcall
           /\ \A c \in PCalls(s) : c <= FindPCall(s)
  <1>1. PCalls(s) \subseteq 1 .. Len(s.ci) /\ Len(s.ci) \in Nat
    BY DEF PCalls
  <1>2. \E d \in PCalls(s) : \A c \in PCalls(s) : c <= d
    BY <1>1, GreatestExists
  <1>3. FindPCall(s) \in PCalls(s) /\ \A c \in PCalls(s) : c <= FindPCall(s)
    BY <1>2 DEF FindPCall
  <1> QED
    BY <1>3 DEF PCalls

RecoverAs(s, n, s2) == s2 = Recover([s EXCEPT !.nCcalls = n])
RecoverFields(s, n, k, ci2, s2) ==
    /\ k \in DOMAIN s.ci /\ s.ci[k].ypcall /\ Recovered(s.ci, k, ci2)
    /\ s2 \in LuaStates /\ s2.ci = ci2 /\ s2.status = s.status /\ s2.hasFunction = s.hasFunction
    /\ s2.nny = 0 /\ s2.nCcalls = n /\ s2.allowhook = s.ci[k].oldAllowhook

LEMMA RecoverIs ==
    ASSUME NEW s, s \in LuaStates, PCalls(s) # {}, NEW n, n \in Int, NEW s2, RecoverAs(s, n, s2)
    PROVE  \E ci2 : RecoverFields(s, n, FindPCall(s), ci2, s2)
  <1>1. PICK k : k = FindPCall(s)
    OBVIOUS
  <1>2. s.ci \in Seq(CallInfos)
    BY DEF LuaStates
  <1>3. k \in DOMAIN s.ci /\ s.ci[k].ypcall
    BY <1>1, <1>2, FindIsLast
  <1>4. PICK s1 : s1 = [s EXCEPT !.nCcalls = n]
    OBVIOUS
  <1>5. s1.ci = s.ci /\ FindPCall(s1) = k
    <2>1. s1.ci = s.ci
      BY <1>4 DEF LuaStates
    <2>2. PCalls(s1) = PCalls(s)
      BY <2>1 DEF PCalls
    <2> QED
      BY <1>1, <2>1, <2>2 DEF FindPCall
  <1>6. PICK ci2 : ci2 = [SubSeq(s.ci, 1, k) EXCEPT ![k].stat = TRUE]
    OBVIOUS
  <1>7. Recovered(s.ci, k, ci2)
    BY <1>2, <1>3, <1>6 DEF Recovered
  <1>8. ci2 \in Seq(CallInfos)
    BY <1>2, <1>3, <1>7, RecoverRecovers
  <1>9. s.ci[k].oldAllowhook \in BOOLEAN /\ s.ci[k].oldErrfunc \in Nat
    <2>1. s.ci[k] \in CallInfos
      BY <1>2, <1>3
    <2> QED
      BY <2>1 DEF CallInfos
  <1>10. PICK b \in BOOLEAN, g \in Nat, z \in Int : b = s.ci[k].oldAllowhook /\ g = s.ci[k].oldErrfunc /\ z = 0
    BY <1>9
  <1>11. s2 = [s1 EXCEPT !.ci = ci2, !.allowhook = b, !.nny = z, !.errfunc = g]
    BY <1>4, <1>5, <1>6, <1>10 DEF RecoverAs, Recover
  <1>12. s2 = [s EXCEPT !.nCcalls = n, !.ci = ci2, !.allowhook = b, !.nny = z, !.errfunc = g]
    BY <1>4, <1>11 DEF LuaStates
  <1>13. /\ s2 \in LuaStates /\ s2.ci = ci2 /\ s2.status = s.status /\ s2.hasFunction = s.hasFunction
         /\ s2.nny = z /\ s2.nCcalls = n /\ s2.allowhook = b
    BY <1>8, <1>10, <1>12 DEF LuaStates
  <1>14. RecoverFields(s, n, k, ci2, s2)
    BY <1>3, <1>7, <1>10, <1>13 DEF RecoverFields
  <1> QED
    BY <1>1, <1>14

CutAt(cs, h, cs2) == cs2 = SubSeq(cs, 1, h)

LEMMA LandsInResume ==
    ASSUME NEW cs, StackRight(cs), NEW t, NEW h, Lands(cs, t, h), cs[h].f = "resume"
    PROVE  /\ h \in 1 .. Len(cs) /\ h - 1 \in 1 .. Len(cs) /\ Len(cs) \in Nat /\ h \in Mine(cs, t)
           /\ t # MainThread /\ cs[h].nny = 0 /\ cs[h].nCcalls = h /\ OnlyAbove(cs, t, h - 1)
           /\ t = cs[Len(cs)].thread /\ Fits(h) /\ \A i \in Mine(cs, t) : h <= i
  <1>1. h \in DOMAIN cs /\ cs[h].thread = t /\ \A i \in DOMAIN cs : h < i => cs[i].f = "call" /\ cs[i].thread = t
    BY DEF Lands
  <1>2. DOMAIN cs = 1 .. Len(cs) /\ Len(cs) \in Nat \ {0}
    BY StackSeq
  <1>3. /\ cs[h].thread # MainThread /\ h > 1
        /\ \A k \in DOMAIN cs : k < h => cs[k].thread # cs[h].thread
        /\ h < MaxCCalls /\ cs[h].nCcalls = h /\ cs[h].nny = 0
    BY <1>1, ResumeIsFirst
  <1>4. h \in 1 .. Len(cs) /\ h - 1 \in 1 .. Len(cs)
    BY <1>1, <1>2, <1>3
  <1>5. OnlyAbove(cs, t, h - 1)
    <2>1. \A i \in DOMAIN cs : h - 1 < i => i = h \/ h < i
      BY <1>2, <1>4
    <2> QED
      BY <1>1, <2>1 DEF OnlyAbove
  <1>6. t = cs[Len(cs)].thread
    <2>1. Len(cs) \in DOMAIN cs /\ (h < Len(cs) \/ h = Len(cs))
      BY <1>2, <1>4
    <2> QED
      BY <1>1, <2>1
  <1>7. \A i \in Mine(cs, t) : h <= i
    <2>1. \A i \in Mine(cs, t) : i \in DOMAIN cs /\ cs[i].thread = cs[h].thread
      BY <1>1 DEF Mine
    <2> QED
      BY <1>2, <1>3, <1>4, <2>1
  <1>8. h \in Mine(cs, t)
    BY <1>1 DEF Mine
  <1> QED
    BY <1>1, <1>2, <1>3, <1>4, <1>5, <1>6, <1>7, <1>8 DEF Fits

LEMMA ResumeKept ==
    ASSUME NEW cs, StackRight(cs), NEW t, NEW h, Lands(cs, t, h), cs[h].f = "resume",
           NEW cs2, CutAt(cs, h, cs2)
    PROVE  /\ Kept(t, cs, cs2) /\ Len(cs2) = h /\ Mine(cs2, t) = {h} /\ cs2[h] = cs[h]
           /\ NnyUpTo(cs2, t, h) = 0
  <1>1. /\ h \in 1 .. Len(cs) /\ Len(cs) \in Nat /\ h \in Mine(cs, t)
        /\ t # MainThread /\ cs[h].nny = 0 /\ t = cs[Len(cs)].thread /\ \A i \in Mine(cs, t) : h <= i
    BY LandsInResume
  <1>2. cs2 = SubSeq(cs, 1, h)
    BY DEF CutAt
  <1>3. StackRight(cs2) /\ Len(cs2) = h /\ DOMAIN cs2 = 1 .. h /\ \A i \in 1 .. h : cs2[i] = cs[i]
    <2>1. PICK k \in 1 .. Len(cs) : k = h
      BY <1>1
    <2>2. PICK c : c = SubSeq(cs, 1, k)
      OBVIOUS
    <2>3. StackRight(c) /\ Len(c) = k /\ DOMAIN c = 1 .. k /\ \A i \in 1 .. k : c[i] = cs[i]
      BY <2>2, StackCut
    <2> QED
      BY <1>2, <2>1, <2>2, <2>3
  <1>4. OnlyAbove(cs, t, h)
    BY DEF Lands, OnlyAbove
  <1>5. \A u : /\ Mine(cs2, u) = {i \in Mine(cs, u) : i <= h}
               /\ u # t => Mine(cs2, u) = Mine(cs, u)
    BY <1>1, <1>3, <1>4, CutMine
  <1>6. Mine(cs, t) \subseteq 1 .. Len(cs)
    BY <1>1, TopIsMine
  <1>7. Mine(cs2, t) = {h}
    BY <1>1, <1>5, <1>6
  <1>8. cs2[h] = cs[h] /\ cs[h].thread = t
    BY <1>1, <1>3 DEF Mine
  <1>9. \A u : u # t => \A i \in Mine(cs, u) : cs2[i] = cs[i]
    <2>1. \A u : u # t => \A i \in Mine(cs, u) : i \in DOMAIN cs2
      BY <1>5 DEF Mine
    <2> QED
      BY <1>3, <2>1
  <1>10. Kept(t, cs, cs2)
    BY <1>1, <1>3, <1>5, <1>8, <1>9 DEF Kept
  <1>11. NnyUpTo(cs2, t, h) = 0
    <2>1. cs2 \in Seq(Entries) /\ h \in Int
      BY <1>1, <1>3, StackSeq
    <2>2. Nnys(cs2, t, h) = {}
      <3>1. \A i \in DOMAIN cs2 : cs2[i].thread = t => i = h
        BY <1>7 DEF Mine
      <3>2. cs2[h].nny # 1
        BY <1>1, <1>8
      <3> QED
        BY <3>1, <3>2 DEF Nnys
    <2> QED
      BY <1>1, <2>1, <2>2, NnysFinite
  <1> QED
    BY <1>3, <1>7, <1>8, <1>10, <1>11

LEMMA LandsInRecover ==
    ASSUME NEW ths, NEW cs, NEW now, NEW at, Right(ths, cs, now, at), now.at = "throw",
           now.status # "YIELD", NEW t, NEW s, Turn(ths, cs, t, s),
           NEW h, Lands(cs, t, h), cs[h].f = "resume", PCalls(s) # {},
           NEW cs2, CutAt(cs, h, cs2), NEW s2, RecoverAs(s, h, s2)
    PROVE  Steps(t, s2, cs2, Unrolling, at) /\ Kept(t, cs, cs2)
  <1>1. Runs(s, t, cs, at) /\ StackRight(cs) /\ s.status = "OK"
    BY ThreadThrown
  <1>2. s \in LuaStates /\ Known(s.ci, cs, at, t) /\ ~s.hasFunction
    BY <1>1 DEF Runs
  <1>3. h \in 1 .. Len(cs) /\ h \in Mine(cs, t)
    BY <1>1, LandsInResume
  <1>4. /\ Kept(t, cs, cs2) /\ Len(cs2) = h /\ Mine(cs2, t) = {h} /\ cs2[h] = cs[h]
        /\ NnyUpTo(cs2, t, h) = 0
    BY <1>1, ResumeKept
  <1>5. h \in Int
    BY <1>3
  <1>6. PICK k : k = FindPCall(s)
    OBVIOUS
  <1>7. PICK ci2 : RecoverFields(s, h, k, ci2, s2)
    BY <1>2, <1>5, <1>6, RecoverIs
  <1>8. /\ k \in DOMAIN s.ci /\ s.ci[k].ypcall /\ Recovered(s.ci, k, ci2)
        /\ s2 \in LuaStates /\ s2.ci = ci2 /\ s2.status = s.status /\ s2.hasFunction = s.hasFunction
        /\ s2.nny = 0 /\ s2.nCcalls = h /\ s2.allowhook = s.ci[k].oldAllowhook
    BY <1>7 DEF RecoverFields
  <1>9. Recovers(s.ci, ci2, k)
    BY <1>8, RecoverRecovers
  <1>10. PICK ci : ci = s.ci
    OBVIOUS
  <1>11. Matched(ci2, cs2, at, {h}, FALSE) /\ (ci[k].oldAllowhook <=> Unhooked(ci2, Len(ci2)))
    <2>1. Known(ci, cs, at, t) /\ Recovers(ci, ci2, k) /\ ci[k].ypcall
      BY <1>2, <1>8, <1>9, <1>10
    <2> QED
      BY <1>3, <1>4, <2>1, RecoverMatched
  <1>12. Matched(s2.ci, cs2, at, Mine(cs2, t), FALSE)
    BY <1>4, <1>8, <1>11
  <1>13. Matched(s2.ci, cs2, at, Mine(cs2, t), TRUE)
    BY <1>12, Loosened
  <1>14. s2.allowhook <=> Unhooked(s2.ci, Len(s2.ci))
    BY <1>8, <1>10, <1>11
  <1>15. Running(s2, cs2, Unrolling) /\ Unrolling \in Doings
    <2>1. Unrolling \in Doings
      BY DEF Unrolling, Doings
    <2>2. cs2[Len(cs2)].f = "resume"
      BY <1>4
    <2>3. s2.status = "OK"
      BY <1>1, <1>8
    <2> QED
      BY <2>1, <2>2, <2>3 DEF Running, Unrolling
  <1>16. s2.nny = NnyUpTo(cs2, t, Len(cs2)) /\ s2.nCcalls = Len(cs2) /\ ~s2.hasFunction
    BY <1>2, <1>4, <1>8
  <1>17. Steps(t, s2, cs2, Unrolling, at)
    BY <1>8, <1>12, <1>13, <1>14, <1>15, <1>16 DEF Steps
  <1> QED
    BY <1>4, <1>17

\* What is left of a coroutine that yields or fails.
LEMMA ThreadIsLeft ==
    ASSUME NEW ths, NEW cs, NEW now, NEW at, Right(ths, cs, now, at), now.at = "throw",
           NEW t, NEW s, Turn(ths, cs, t, s), NEW s2, s2 \in LuaStates, s2.nny = 1,
           s2.ci = s.ci, ~s2.hasFunction, s2.allowhook = s.allowhook, s2.status = now.status
    PROVE  Away(s2)
  <1>1. /\ Runs(s, t, cs, at) /\ s.ci # << >>
        /\ now.status # "YIELD" => now.status \in {"ERRRUN", "ERRERR"}
    BY ThreadThrown
  <1>2. PICK ci : ci = s.ci
    OBVIOUS
  <1>3. Known(ci, cs, at, t) /\ (s.allowhook <=> Unhooked(ci, Len(ci)))
    BY <1>1, <1>2 DEF Runs
  <1>4. Matched(ci, cs, at, Mine(cs, t), TRUE) /\ ci \in Seq(CallInfos) /\ ci # << >>
    BY <1>3 DEF Known
  <1>5. InfosRight(ci) /\ Handled(ci, cs, at, Mine(cs, t), TRUE)
        /\ Continuable(ci, cs, at, Mine(cs, t), TRUE) /\ Protecting(ci, cs, at, Mine(cs, t))
    BY <1>4 DEF Matched
  <1>6. CASE now.status # "YIELD"
    <2>1. s2.status # "OK" /\ s2.status # "YIELD" /\ InfosRight(s2.ci)
      BY <1>1, <1>2, <1>5, <1>6
    <2> QED
      BY <2>1 DEF Away
  <1>7. CASE now.status = "YIELD"
    <2>1. ci[Len(ci)].f = "yield"
      BY <1>2, <1>7, ThreadThrown
    <2>2. \A i \in Mine(cs, t) : /\ cs[i].nny # 1 /\ cs[i].f # "pcall" /\ ~IsCall(cs[i], "errormsg")
      BY <1>7, YieldFindsNone
    <2>3. Unhooked(ci, Len(ci))
      <3>1. Len(ci) \in DOMAIN ci
        BY <1>4
      <3>2. ~ci[Len(ci)].hooked
        BY <1>5, <2>1, <3>1 DEF InfosRight
      <3>3. \A d \in DOMAIN ci : ~ci[d].hooked
        BY <1>5, <2>2, <3>2 DEF Handled
      <3> QED
        BY <3>3 DEF Unhooked
    <2>4. \A d \in DOMAIN ci : ci[d].f # "lua" => ci[d].k \/ d = Len(ci)
      BY <1>5, <2>2 DEF Continuable
    <2>5. \A d \in DOMAIN ci : ci[d].f \in Protected => ci[d].ypcall
      BY <1>5, <2>2 DEF Protecting
    <2>6. s2.ci = ci /\ s2.allowhook /\ s2.status = "YIELD"
      BY <1>2, <1>3, <1>7, <2>3
    <2> QED
      BY <1>4, <1>5, <2>1, <2>3, <2>4, <2>5, <2>6 DEF Away
  <1> QED
    BY <1>6, <1>7

Inner(cs, h) == h \in 1 .. Len(cs) /\ h - 1 \in 1 .. Len(cs)

LEMMA FrontOfCut ==
    ASSUME NEW cs, StackRight(cs), NEW h, Inner(cs, h),
           NEW cs2, CutBelow(cs, h, cs2)
    PROVE  Front(SubSeq(cs, 1, h)) = cs2
  <1>1. PICK k \in 1 .. Len(cs) : k = h
    BY DEF Inner
  <1>2. PICK m \in 1 .. Len(cs) : m = h - 1
    BY DEF Inner
  <1>3. PICK c : c = SubSeq(cs, 1, k)
    OBVIOUS
  <1>4. StackRight(c) /\ Len(c) = k /\ \A i \in 1 .. k : c[i] = cs[i]
    BY <1>3, StackCut
  <1>5. PICK d : d = SubSeq(cs, 1, m)
    OBVIOUS
  <1>6. StackRight(d) /\ Len(d) = m /\ \A i \in 1 .. m : d[i] = cs[i]
    BY <1>5, StackCut
  <1>7. PICK n \in 1 .. Len(c) : n = m
    BY <1>1, <1>2, <1>4
  <1>8. PICK e : e = SubSeq(c, 1, n)
    OBVIOUS
  <1>9. StackRight(e) /\ Len(e) = n /\ \A i \in 1 .. n : e[i] = c[i]
    BY <1>4, <1>8, StackCut
  <1>10. e \in Seq(Entries) /\ d \in Seq(Entries)
    BY <1>6, <1>9, StackSeq
  <1>11. \A i \in 1 .. Len(e) : e[i] = d[i]
    BY <1>1, <1>2, <1>4, <1>6, <1>7, <1>9
  <1>12. e = d
    BY <1>6, <1>7, <1>9, <1>10, <1>11, SeqEqual
  <1>13. Front(c) = e
    <2>1. Len(c) - 1 = n
      BY <1>1, <1>2, <1>4, <1>7
    <2> QED
      BY <1>8, <2>1 DEF Front
  <1>14. cs2 = d
    BY <1>2, <1>5 DEF CutBelow
  <1> QED
    BY <1>1, <1>3, <1>12, <1>13, <1>14

LEMMA PCallFailsStep ==
    ASSUME NEW at, Right(th, cstack, doing, at), doing.at = "throw",
           NEW h, Lands(cstack, Thread, h), cstack[h].f = "pcall", PCallFails(h)
    PROVE  Right(th', cstack', doing', at)
  <1>1. PICK t, s : t = Thread /\ s = th[t]
    OBVIOUS
  <1>2. Turn(th, cstack, t, s) /\ States(th) /\ Lands(cstack, t, h)
    BY <1>1, TheTurn
  <1>3. CASE h = 1
    <2>1. PICK now2 : now2 = [at |-> "over", status |-> "OK"]
      OBVIOUS
    <2>2. doing' = now2 /\ th' = th /\ cstack' = cstack
      BY <1>3, <2>1 DEF PCallFails, Go
    <2>3. doing.status # "YIELD"
      <3>1. h \in Mine(cstack, t)
        BY <1>2 DEF Lands, Mine
      <3> QED
        BY <1>2, <3>1, YieldFindsNone
    <2>4. s.status = "OK" /\ s.ci # << >>
      BY <1>2, <2>3, ThreadThrown
    <2>5. now2 \in Doings /\ ~Calm(now2)
      BY <2>1 DEF Doings, Calm
    <2>6. Running(s, cstack, now2)
      BY <2>1, <2>4 DEF Running
    <2>7. Right(th, cstack, now2, at)
      BY <1>2, <2>4, <2>5, <2>6, GoesOn
    <2> QED
      BY <2>2, <2>7
  <1>4. CASE h # 1
    <2>1. PICK e : e = cstack[h] /\ e.thread = t
      BY <1>2 DEF Lands
    <2>2. PICK s2 : CutTo(s, e, s2)
      BY DEF CutTo
    <2>3. PICK cs2 : CutBelow(cstack, h, cs2)
      BY DEF CutBelow
    <2>4. cstack' = cs2 /\ doing' = LuaNow
      BY <1>4, <2>3 DEF PCallFails, CutBelow, Go, LuaNow
    <2>5. th' = [th EXCEPT ![t] = s2]
      BY <1>1, <1>4, <2>1, <2>2 DEF PCallFails, CutTo
    <2>6. Becomes(th, t, s2, th')
      BY <2>5 DEF Becomes
    <2>7. Steps(t, s2, cs2, LuaNow, at) /\ Kept(t, cstack, cs2)
      BY <1>2, <1>4, <2>1, <2>2, <2>3, LandsInPCall
    <2>8. Right(th', cs2, LuaNow, at)
      BY <2>6, <2>7, ThreadStep
    <2> QED
      BY <2>4, <2>8
  <1> QED
    BY <1>3, <1>4

\* The coroutine has yielded, or nothing in it catches the error.
EndsAs(s, n, status, s2) == LeftAs([s EXCEPT !.nCcalls = n, !.status = status], s2)

LEMMA EndsIs ==
    ASSUME NEW s, s \in LuaStates, NEW n, n \in Int, NEW status, status \in Statuses,
           NEW s2, EndsAs(s, n, status, s2)
    PROVE  /\ s2 \in LuaStates /\ s2.nny = 1 /\ s2.ci = s.ci /\ s2.status = status
           /\ s2.hasFunction = s.hasFunction /\ s2.allowhook = s.allowhook
  <1>1. PICK s1 : s1 = [s EXCEPT !.nCcalls = n, !.status = status]
    OBVIOUS
  <1>2. s1 \in LuaStates /\ s1.ci = s.ci /\ s1.status = status
        /\ s1.hasFunction = s.hasFunction /\ s1.allowhook = s.allowhook
    BY <1>1 DEF LuaStates
  <1>3. LeftAs(s1, s2)
    BY <1>1 DEF EndsAs
  <1> QED
    BY <1>2, <1>3, LeftFields

LEMMA CoroutineEnds ==
    ASSUME NEW at, Right(th, cstack, doing, at), doing.at = "throw",
           NEW t, NEW s, Turn(th, cstack, t, s), NEW h, Lands(cstack, t, h), cstack[h].f = "resume",
           NEW s2, EndsAs(s, h, doing.status, s2), NEW after, Becomes(th, t, s2, after),
           NEW from, from = cstack[h - 1].thread,
           NEW failed, Ended(after, from, failed), cstack' = Front(SubSeq(cstack, 1, h))
    PROVE  Right(th', cstack', doing', at)
  <1>1. Runs(s, t, cstack, at) /\ StackRight(cstack) /\ States(th)
    BY ThreadThrown
  <1>2. s \in LuaStates /\ ~s.hasFunction /\ t \in Threads
    BY <1>1 DEF Runs
  <1>3. h \in 1 .. Len(cstack) /\ h - 1 \in 1 .. Len(cstack)
    BY <1>1, LandsInResume
  <1>4. doing.status \in Statuses
    <2>1. doing.status # "YIELD" => doing.status \in {"ERRRUN", "ERRERR"}
      BY ThreadThrown
    <2> QED
      BY <2>1 DEF Statuses
  <1>5. /\ s2 \in LuaStates /\ s2.nny = 1 /\ s2.ci = s.ci /\ s2.status = doing.status
        /\ ~s2.hasFunction /\ s2.allowhook = s.allowhook
    <2>1. h \in Int
      BY <1>3
    <2> QED
      BY <1>2, <1>4, <2>1, EndsIs
  <1>6. Away(s2)
    BY <1>5, ThreadIsLeft
  <1>7. PICK cs2, f : CutBelow(cstack, h, cs2) /\ f = th[from]
    BY DEF CutBelow
  <1>8. cstack' = cs2
    BY <1>1, <1>3, <1>7, FrontOfCut DEF Inner
  <1>9. Resumer(th, cstack, t, h, from, f)
    BY <1>7 DEF Resumer, Lands
  <1>10. from # t /\ from \in Threads
    BY <1>7, <1>9, ResumerIs
  <1>11. PICK f2 : GoesOnAs(f, f2, doing') /\ BothBecome(th, t, s2, from, f2, th')
    BY <1>1, <1>2, <1>7, <1>10, EndedAs DEF Becomes
  <1>12. PICK now2 : now2 = doing'
    OBVIOUS
  <1>13. Right(th', cs2, now2, at)
    BY <1>5, <1>6, <1>7, <1>9, <1>11, <1>12, ResumeEnds
  <1> QED
    BY <1>8, <1>12, <1>13

\* What lua_resume() makes of the coroutine.
Recovering(s, h, t) ==
    \E s2 : /\ RecoverAs(s, h, s2) /\ Becomes(th, t, s2, th')
            /\ CutAt(cstack, h, cstack') /\ doing' = Unrolling
Leaving(s, h, t) ==
    \E s2, after, failed :
        /\ EndsAs(s, h, doing.status, s2) /\ Becomes(th, t, s2, after)
        /\ Ended(after, cstack[h - 1].thread, failed) /\ cstack' = Front(SubSeq(cstack, 1, h))

LEMMA ResumeGoesOnIs ==
    ASSUME NEW at, Right(th, cstack, doing, at), doing.at = "throw",
           NEW t, NEW s, Turn(th, cstack, t, s),
           NEW h, Lands(cstack, t, h), cstack[h].f = "resume", ResumeGoesOn(h, doing.status)
    PROVE  /\ doing.status # "YIELD" /\ PCalls(s) # {} => Recovering(s, h, t)
           /\ ~(doing.status # "YIELD" /\ PCalls(s) # {}) => Leaving(s, h, t)
  <1>2. s = th[t] /\ States(th) /\ StackRight(cstack) /\ s \in LuaStates
    BY ThreadThrown DEF Turn, Runs
  <1>3. PICK e : e = cstack[h] /\ e.thread = t /\ e.nCcalls = h
    BY <1>2, LandsInResume DEF Lands
  <1>4. PICK s1, from : s1 = [s EXCEPT !.nCcalls = h] /\ from = cstack[h - 1].thread
    OBVIOUS
  <1>5. s1 = [th[e.thread] EXCEPT !.nCcalls = e.nCcalls] /\ s1.ci = s.ci
    BY <1>2, <1>3, <1>4 DEF LuaStates
  <1>6. PCalls(s1) = PCalls(s)
    BY <1>5 DEF PCalls
  <1>7. CASE doing.status = "YIELD"
    <2>1. PICK s2 : EndsAs(s, h, doing.status, s2)
      BY DEF EndsAs, LeftAs
    <2>2. PICK after : Becomes(th, t, s2, after)
      BY DEF Becomes
    <2>3. [s EXCEPT !.nCcalls = h, !.status = doing.status] = s1
      <3>1. s.status = doing.status
        BY <1>7, ThreadThrown
      <3> QED
        BY <1>2, <1>4, <3>1 DEF LuaStates
    <2>4. after = [th EXCEPT ![e.thread] = [s1 EXCEPT !.nny = 1, !.nCcalls = @ - 1]]
      BY <1>3, <2>1, <2>2, <2>3 DEF EndsAs, LeftAs, Becomes
    <2>5. Ended(after, from, FALSE) /\ cstack' = Front(SubSeq(cstack, 1, h))
      BY <1>3, <1>4, <1>5, <1>7, <2>4 DEF ResumeGoesOn
    <2> QED
      BY <1>4, <1>7, <2>1, <2>2, <2>5 DEF Leaving
  <1>8. CASE doing.status # "YIELD" /\ PCalls(s) # {}
    <2>1. PICK s2 : RecoverAs(s, h, s2)
      BY DEF RecoverAs
    <2>2. th' = [th EXCEPT ![e.thread] = Recover(s1)] /\ CutAt(cstack, h, cstack') /\ doing' = Unrolling
      BY <1>3, <1>5, <1>6, <1>8 DEF ResumeGoesOn, CutAt, Go, Unrolling
    <2>3. Becomes(th, t, s2, th')
      BY <1>3, <1>4, <2>1, <2>2 DEF RecoverAs, Becomes
    <2> QED
      BY <1>8, <2>1, <2>2, <2>3 DEF Recovering
  <1>9. CASE doing.status # "YIELD" /\ PCalls(s) = {}
    <2>1. PICK s2 : EndsAs(s, h, doing.status, s2)
      BY DEF EndsAs, LeftAs
    <2>2. PICK after : Becomes(th, t, s2, after)
      BY DEF Becomes
    <2>3. [s EXCEPT !.nCcalls = h, !.status = doing.status] = [s1 EXCEPT !.status = doing.status]
      BY <1>2, <1>4 DEF LuaStates
    <2>4. after = [th EXCEPT ![e.thread] =
                     [[s1 EXCEPT !.status = doing.status] EXCEPT !.nny = 1, !.nCcalls = @ - 1]]
      BY <1>3, <2>1, <2>2, <2>3 DEF EndsAs, LeftAs, Becomes
    <2>5. Ended(after, from, TRUE) /\ cstack' = Front(SubSeq(cstack, 1, h))
      BY <1>3, <1>4, <1>5, <1>6, <1>9, <2>4 DEF ResumeGoesOn
    <2> QED
      BY <1>4, <1>9, <2>1, <2>2, <2>5 DEF Leaving
  <1> QED
    BY <1>7, <1>8, <1>9

LEMMA ResumeGoesOnStep ==
    ASSUME NEW at, Right(th, cstack, doing, at), doing.at = "throw",
           NEW h, Lands(cstack, Thread, h), cstack[h].f = "resume", ResumeGoesOn(h, doing.status)
    PROVE  Right(th', cstack', doing', at)
  <1>1. PICK t, s : t = Thread /\ s = th[t]
    OBVIOUS
  <1>2. Turn(th, cstack, t, s) /\ Lands(cstack, t, h)
    BY <1>1, TheTurn
  <1>3. /\ doing.status # "YIELD" /\ PCalls(s) # {} => Recovering(s, h, t)
        /\ ~(doing.status # "YIELD" /\ PCalls(s) # {}) => Leaving(s, h, t)
    BY <1>2, ResumeGoesOnIs
  <1>4. CASE doing.status # "YIELD" /\ PCalls(s) # {}
    <2>1. PICK s2 : /\ RecoverAs(s, h, s2) /\ Becomes(th, t, s2, th')
                    /\ CutAt(cstack, h, cstack') /\ doing' = Unrolling
      BY <1>3, <1>4 DEF Recovering
    <2>2. PICK cs2 : cs2 = cstack'
      OBVIOUS
    <2>3. Steps(t, s2, cs2, Unrolling, at) /\ Kept(t, cstack, cs2)
      BY <1>2, <1>4, <2>1, <2>2, LandsInRecover
    <2>4. Right(th', cs2, Unrolling, at)
      BY <2>1, <2>3, ThreadStep
    <2> QED
      BY <2>1, <2>2, <2>4
  <1>5. CASE ~(doing.status # "YIELD" /\ PCalls(s) # {})
    <2>1. PICK s2, after, failed :
             /\ EndsAs(s, h, doing.status, s2) /\ Becomes(th, t, s2, after)
             /\ Ended(after, cstack[h - 1].thread, failed) /\ cstack' = Front(SubSeq(cstack, 1, h))
      BY <1>3, <1>5 DEF Leaving
    <2>2. PICK from : from = cstack[h - 1].thread
      OBVIOUS
    <2> QED
      BY <1>2, <2>1, <2>2, CoroutineEnds
  <1> QED
    BY <1>4, <1>5

LEMMA JumpLands ==
    ASSUME StackRight(cstack)
    PROVE  Lands(cstack, Thread, Jump(Thread)) /\ cstack[Jump(Thread)].f \in {"pcall", "resume"}
  <1>1. PICK h : h = Jump(Thread)
    OBVIOUS
  <1>2. IsJump(cstack, Len(cstack), h)
    BY <1>1, JumpIsLast
  <1>3. DOMAIN cstack = 1 .. Len(cstack) /\ Len(cstack) \in Nat \ {0}
        /\ \A i \in DOMAIN cstack : cstack[i] \in Entries
    BY StackSeq
  <1>4. Thread = cstack[Len(cstack)].thread
    BY StackSeq DEF Thread
  <1>5. h \in DOMAIN cstack /\ cstack[h].thread = cstack[Len(cstack)].thread /\ cstack[h].f # "call"
        /\ \A k \in DOMAIN cstack : h < k /\ k <= Len(cstack) =>
              cstack[k].f = "call" /\ cstack[k].thread = cstack[Len(cstack)].thread
    BY <1>2 DEF IsJump
  <1>6. \A k \in DOMAIN cstack : k <= Len(cstack)
    BY <1>3
  <1>7. Lands(cstack, Thread, h)
    BY <1>4, <1>5, <1>6 DEF Lands
  <1>8. cstack[h].f \in {"pcall", "resume"}
    BY <1>3, <1>5 DEF Entries
  <1> QED
    BY <1>1, <1>7, <1>8

LEMMA LandStep ==
    ASSUME NEW at, Right(th, cstack, doing, at), Land
    PROVE  Right(th', cstack', doing', at)
  <1>1. PICK h : h = Jump(Thread)
    OBVIOUS
  <1>2. doing.at = "throw"
    BY DEF Land, In
  <1>3. StackRight(cstack)
    BY DEF Right
  <1>4. Lands(cstack, Thread, h) /\ cstack[h].f \in {"pcall", "resume"}
    BY <1>1, <1>3, JumpLands
  <1>5. CASE cstack[h].f = "pcall"
    <2>1. PCallFails(h)
      BY <1>1, <1>5 DEF Land
    <2> QED
      BY <1>2, <1>4, <1>5, <2>1, PCallFailsStep
  <1>6. CASE cstack[h].f = "resume"
    <2>1. ResumeGoesOn(h, doing.status)
      BY <1>1, <1>6 DEF Land
    <2> QED
      BY <1>2, <1>4, <1>6, <2>1, ResumeGoesOnStep
  <1> QED
    BY <1>4, <1>5, <1>6

----------------------------------------------------------------------------
(* The program begins.                                                     *)

TheProgram(cs, e) ==
    /\ cs = <<e>>
    /\ e = [f |-> "pcall", thread |-> MainThread, nny |-> 1, nCcalls |-> 0, ci |-> 0,
            allowhook |-> TRUE, oldNny |-> 1, errfunc |-> 0]

LEMMA ProgramIs ==
    ASSUME NEW cs, NEW e, TheProgram(cs, e)
    PROVE  /\ StackRight(cs) /\ Len(cs) = 1 /\ DOMAIN cs = {1} /\ cs[1] = e
           /\ NnyUpTo(cs, MainThread, 1) = 2
           /\ e.f = "pcall" /\ e.thread = MainThread /\ e.nny = 1 /\ e.ci = 0 /\ e.allowhook
  <1>1. /\ e.f = "pcall" /\ e.thread = MainThread /\ e.nny = 1 /\ e.nCcalls = 0 /\ e.ci = 0
        /\ e.allowhook /\ e.oldNny = 1 /\ e.errfunc = 0
    BY DEF TheProgram
  <1>2. e \in Entries
    <2>1. PICK one \in {0, 1}, n \in Int, m \in Nat, o \in Int : one = 1 /\ n = 0 /\ m = 0 /\ o = 1
      OBVIOUS
    <2>4. PICK b \in BOOLEAN : b = TRUE
      OBVIOUS
    <2>2. e = [f |-> "pcall", thread |-> MainThread, nny |-> one, nCcalls |-> n, ci |-> m,
               allowhook |-> b, oldNny |-> o, errfunc |-> m]
      BY <2>1, <2>4 DEF TheProgram
    <2>3. MainThread \in Threads
      BY CallsAssumption
    <2> QED
      BY <2>2, <2>3 DEF Entries
  <1>3. cs = <<e>>
    BY DEF TheProgram
  <1>4. cs \in Seq(Entries) /\ Len(cs) = 1 /\ cs[1] = e /\ DOMAIN cs = {1}
    <2>1. PICK x : x = e /\ x \in Entries
      BY <1>2
    <2>2. cs = <<x>>
      BY <1>3, <2>1
    <2> QED
      BY <2>1, <2>2
  <1>5. NnyUpTo(cs, MainThread, 0) = 1
    <2>1. Nnys(cs, MainThread, 0) = {}
      BY <1>4 DEF Nnys
    <2>2. Cardinality({}) = 0
      BY FS_EmptySet
    <2> QED
      BY <2>1, <2>2 DEF NnyUpTo, Base
  <1>6. NnyUpTo(cs, MainThread, 1) = 2
    <2>1. PICK n \in 1 .. Len(cs) : n = 1
      BY <1>4
    <2>2. NnyUpTo(cs, MainThread, n)
             = NnyUpTo(cs, MainThread, n - 1)
               + (IF cs[n].thread = MainThread /\ cs[n].nny = 1 THEN 1 ELSE 0)
      BY <1>4, NnyAdd
    <2>3. cs[n].thread = MainThread /\ cs[n].nny = 1 /\ n - 1 = 0
      BY <1>1, <1>4, <2>1
    <2> QED
      BY <1>5, <2>1, <2>2, <2>3
  <1>7. Fits(1)
    BY CallsAssumption DEF Fits
  <1>8. IsJump(cs, 1, 1)
    BY <1>1, <1>4 DEF IsJump
  <1>9. EntryRight(cs, 1)
    <2>1. e.f # "resume" /\ e.nCcalls = 1 - 1 /\ e.oldNny = NnyUpTo(cs, e.thread, 1 - 1)
      BY <1>1, <1>5
    <2>2. ~(1 > 1) /\ \E j \in Nat : IsJump(cs, 1, j)
      BY <1>8
    <2> QED
      BY <1>1, <1>4, <2>1, <2>2 DEF EntryRight
  <1>10. StackRight(cs)
    BY <1>1, <1>4, <1>9 DEF StackRight
  <1> QED
    BY <1>1, <1>4, <1>6, <1>10

BeginsAs(s, ci, b, n) ==
    s = [status |-> "OK", ci |-> ci, hasFunction |-> b, nny |-> n + 1, nCcalls |-> n,
         errfunc |-> 0, allowhook |-> TRUE]

LEMMA BeginsIs ==
    ASSUME NEW s, NEW ci, ci \in Seq(CallInfos), NEW b, b \in BOOLEAN, NEW n, n \in Nat,
           BeginsAs(s, ci, b, n)
    PROVE  /\ s \in LuaStates /\ s.status = "OK" /\ s.ci = ci /\ s.hasFunction = b
           /\ s.nny = n + 1 /\ s.nCcalls = n /\ s.allowhook
  <1>1. PICK m \in Int, k \in Int, z \in Nat : m = n + 1 /\ k = n /\ z = 0
    OBVIOUS
  <1>3. PICK y \in BOOLEAN : y = TRUE
    OBVIOUS
  <1>4. PICK st \in Statuses : st = "OK"
    BY DEF Statuses
  <1>2. s = [status |-> st, ci |-> ci, hasFunction |-> b, nny |-> m, nCcalls |-> k,
             errfunc |-> z, allowhook |-> y]
    BY <1>1, <1>3, <1>4 DEF BeginsAs
  <1>5. s \in LuaStates
    BY <1>2 DEF LuaStates
  <1> QED
    BY <1>1, <1>2, <1>3, <1>4, <1>5

LEMMA ProgramMatched ==
    ASSUME NEW cs, NEW e, TheProgram(cs, e), NEW ci, OneLua(ci), NEW at, at[1] = 0
    PROVE  Matched(ci, cs, at, {1}, FALSE)
  <1>1. PICK c : c = LuaFunction(FALSE)
    OBVIOUS
  <1>2. c \in CallInfos /\ c.f = "lua" /\ ~c.hooked /\ ~c.ypcall /\ ~c.reentry
    BY <1>1, FramesAreCallInfos
  <1>3. ci = <<c>>
    BY <1>1 DEF OneLua
  <1>4. Len(ci) = 1 /\ ci[1] = c /\ \A d \in DOMAIN ci : d = 1
    BY <1>2, <1>3, OneInfo
  <1>5. InfosRight(ci)
    BY OneIsSuspended DEF Suspended
  <1>6. cs[1] = e /\ e.f = "pcall" /\ e.ci = 0 /\ e.allowhook
    BY ProgramIs
  <1>7. Places(ci, cs, at, {1})
    BY <1>2, <1>4 DEF Places
  <1>8. Callers(ci, cs, at, {1})
    <2>1. Unhooked(ci, 0)
      BY <1>4 DEF Unhooked
    <2> QED
      BY <1>6, <2>1 DEF Callers, IsCall, OfFunction
  <1>9. Begun(ci, cs, at, {1})
    <2>1. Fits(1)
      BY CallsAssumption DEF Fits
    <2>2. cs[1].f # "resume" /\ at[1] + 1 = 1
      BY <1>6
    <2> QED
      BY <1>4, <2>1, <2>2 DEF Begun
  <1>10. Handled(ci, cs, at, {1}, FALSE)
    BY <1>2, <1>4 DEF Handled
  <1>11. Continuable(ci, cs, at, {1}, FALSE)
    BY <1>2, <1>4 DEF Continuable
  <1>12. Protecting(ci, cs, at, {1})
    BY <1>2, <1>4 DEF Protecting, Protected
  <1> QED
    BY <1>5, <1>7, <1>8, <1>9, <1>10, <1>11, <1>12 DEF Matched

LEMMA InitRight ==
    ASSUME Init
    PROVE  \E at : Right(th, cstack, doing, at)
  <1>1. PICK ci : OneLua(ci)
    BY DEF OneLua
  <1>2. ci \in Seq(CallInfos) /\ ci # << >> /\ ci[Len(ci)].f = "lua" /\ Unhooked(ci, Len(ci))
    BY <1>1, OneIsSuspended DEF Suspended
  <1>3. PICK e : TheProgram(cstack, e)
    BY DEF Init, TheProgram
  <1>4. /\ StackRight(cstack) /\ Len(cstack) = 1 /\ DOMAIN cstack = {1} /\ cstack[1] = e
        /\ NnyUpTo(cstack, MainThread, 1) = 2 /\ e.thread = MainThread
    BY <1>3, ProgramIs
  <1>5. PICK at \in [Nat -> Nat] : at[1] = 0
    <2>1. [n \in Nat |-> 0] \in [Nat -> Nat] /\ [n \in Nat |-> 0][1] = 0
      OBVIOUS
    <2> QED
      BY <2>1
  <1>6. doing = LuaNow /\ LuaNow \in Doings
    BY DEF Init, LuaNow, Doings
  <1>7. MainThread \in Threads
    BY CallsAssumption
  <1>8. DOMAIN th = Threads /\ th = [t \in Threads |-> th[t]]
    BY DEF Init
  <1>9. \A t \in Threads :
           /\ t = MainThread => BeginsAs(th[t], ci, FALSE, 1)
           /\ t # MainThread => BeginsAs(th[t], << >>, TRUE, 0)
    <2> SUFFICES ASSUME NEW t \in Threads
                 PROVE  /\ t = MainThread => BeginsAs(th[t], ci, FALSE, 1)
                        /\ t # MainThread => BeginsAs(th[t], << >>, TRUE, 0)
      OBVIOUS
    <2>1. ci = <<LuaFunction(FALSE)>>
      BY <1>1 DEF OneLua
    <2>2. th[t] = [status |-> "OK", ci |-> IF t = MainThread THEN ci ELSE << >>,
                   hasFunction |-> t # MainThread, nny |-> IF t = MainThread THEN 2 ELSE 1,
                   nCcalls |-> IF t = MainThread THEN 1 ELSE 0, errfunc |-> 0, allowhook |-> TRUE]
      BY <2>1, Zenon DEF Init
    <2>3. CASE t = MainThread
      <3>1. /\ (IF t = MainThread THEN ci ELSE << >>) = ci /\ (t # MainThread) = FALSE
            /\ (IF t = MainThread THEN 2 ELSE 1) = 1 + 1 /\ (IF t = MainThread THEN 1 ELSE 0) = 1
        BY <2>3
      <3> QED
        BY <2>2, <2>3, <3>1, Zenon DEF BeginsAs
    <2>4. CASE t # MainThread
      <3>1. /\ (IF t = MainThread THEN ci ELSE << >>) = << >> /\ (t # MainThread) = TRUE
            /\ (IF t = MainThread THEN 2 ELSE 1) = 0 + 1 /\ (IF t = MainThread THEN 1 ELSE 0) = 0
        BY <2>4
      <3> QED
        BY <2>2, <2>4, <3>1, Zenon DEF BeginsAs
    <2> QED
      BY <2>3, <2>4
  <1>10. /\ th[MainThread] \in LuaStates /\ th[MainThread].status = "OK"
         /\ th[MainThread].ci = ci /\ ~th[MainThread].hasFunction
         /\ th[MainThread].nny = 2 /\ th[MainThread].nCcalls = 1 /\ th[MainThread].allowhook
    <2>1. PICK n \in Nat : n = 1
      OBVIOUS
    <2>4. PICK b \in BOOLEAN : b = FALSE
      OBVIOUS
    <2>5. PICK s : s = th[MainThread]
      OBVIOUS
    <2>2. BeginsAs(s, ci, b, n)
      BY <1>7, <1>9, <2>1, <2>4, <2>5
    <2>3. /\ s \in LuaStates /\ s.status = "OK" /\ s.ci = ci /\ s.hasFunction = b
          /\ s.nny = n + 1 /\ s.nCcalls = n /\ s.allowhook
      BY <1>2, <2>2, BeginsIs
    <2> QED
      BY <2>1, <2>3, <2>4, <2>5
  <1>11. ASSUME NEW t \in Threads, t # MainThread
         PROVE  /\ th[t] \in LuaStates /\ th[t].status = "OK" /\ th[t].ci = << >>
                /\ th[t].nny = 1 /\ th[t].allowhook
    <2>1. PICK n \in Nat : n = 0
      OBVIOUS
    <2>5. PICK b \in BOOLEAN : b = TRUE
      OBVIOUS
    <2>6. PICK s, c : s = th[t] /\ c = << >>
      OBVIOUS
    <2>2. BeginsAs(s, c, b, n)
      BY <1>9, <1>11, <2>1, <2>5, <2>6
    <2>3. c \in Seq(CallInfos)
      BY <2>6
    <2>4. /\ s \in LuaStates /\ s.status = "OK" /\ s.ci = c /\ s.nny = n + 1 /\ s.allowhook
      BY <2>2, <2>3, BeginsIs
    <2> QED
      BY <2>1, <2>4, <2>6
  <1>12. States(th)
    <2>1. \A t \in Threads : th[t] \in LuaStates
      BY <1>10, <1>11
    <2> QED
      BY <1>8, <2>1 DEF States
  <1>13. Mine(cstack, MainThread) = {1} /\ \A t : t # MainThread => Mine(cstack, t) = {}
    BY <1>4 DEF Mine
  <1>14. ThreadRight(MainThread, th[MainThread], cstack, doing, at)
    <2>1. PICK s, cs, now : s = th[MainThread] /\ cs = cstack /\ now = doing
      OBVIOUS
    <2>2. Counted(s, MainThread, cs)
      <3>1. s.nny = NnyUpTo(cs, MainThread, Len(cs)) /\ s.nCcalls = 1 /\ ~s.hasFunction
        BY <1>4, <1>10, <2>1
      <3>2. s.allowhook <=> Unhooked(s.ci, Len(s.ci))
        BY <1>2, <1>10, <2>1
      <3>3. Mine(cs, MainThread) = {1}
        BY <1>13, <2>1
      <3>4. s.nCcalls \in Mine(cs, MainThread) /\ \A i \in Mine(cs, MainThread) : i <= s.nCcalls
        BY <3>1, <3>3
      <3> QED
        BY <3>1, <3>2, <3>4 DEF Counted
    <2>3. Matched(s.ci, cs, at, Mine(cs, MainThread), FALSE)
      <3>1. Matched(ci, cs, at, {1}, FALSE)
        BY <1>1, <1>3, <1>5, <2>1, ProgramMatched
      <3> QED
        BY <1>10, <1>13, <2>1, <3>1
    <2>4. (MainThread # cs[Len(cs)].thread \/ ~Calm(now)) = FALSE
      <3>1. MainThread = cs[Len(cs)].thread
        BY <1>4, <2>1
      <3>2. Calm(now)
        BY <1>6, <2>1 DEF Calm, LuaNow
      <3> QED
        BY <3>1, <3>2
    <2>5. Running(s, cs, now)
      <3>1. Fits(Len(cs))
        <4>1. Fits(1)
          BY CallsAssumption DEF Fits
        <4> QED
          BY <1>4, <2>1, <4>1
      <3> QED
        BY <1>2, <1>6, <1>10, <2>1, <3>1 DEF Running, LuaNow
    <2>6. Mine(cs, MainThread) # {} /\ MainThread = cs[Len(cs)].thread
      BY <1>4, <1>13, <2>1
    <2>7. Matched(s.ci, cs, at, Mine(cs, MainThread), MainThread # cs[Len(cs)].thread \/ ~Calm(now))
      BY <2>3, <2>4
    <2>8. ThreadRight(MainThread, s, cs, now, at)
      BY <2>2, <2>5, <2>6, <2>7 DEF ThreadRight
    <2> QED
      BY <2>1, <2>8
  <1>15. ASSUME NEW t \in Threads, t # MainThread
         PROVE  ThreadRight(t, th[t], cstack, doing, at)
    <2>1. Mine(cstack, t) = {}
      BY <1>13, <1>15
    <2>2. PICK s : s = th[t]
      OBVIOUS
    <2>3. InfosRight(<< >>)
      BY DEF InfosRight
    <2>4. Away(s)
      BY <1>11, <1>15, <2>2, <2>3 DEF Away
    <2> QED
      BY <2>1, <2>2, <2>4 DEF ThreadRight
  <1>16. \A t \in Threads : ThreadRight(t, th[t], cstack, doing, at)
    BY <1>14, <1>15
  <1>17. Right(th, cstack, doing, at)
    BY <1>4, <1>5, <1>6, <1>12, <1>16 DEF Right, Depths
  <1> QED
    BY <1>17

----------------------------------------------------------------------------
(* Every step.                                                             *)

LEMMA NextRight ==
    ASSUME ~AnyThread, NEW at, Right(th, cstack, doing, at), Next
    PROVE  \E at2 : Right(th', cstack', doing', at2)
  <1>1. CASE Call
    BY <1>1, CallStep
  <1>2. CASE Metamethod
    BY <1>2, MetamethodStep
  <1>3. CASE Callback
    BY <1>3, CallbackStep
  <1>4. CASE \E f \in {"pcall", "xpcall"} : PCall(f)
    <2>1. PICK f \in {"pcall", "xpcall"} : PCall(f)
      BY <1>4
    <2>2. f \in Protected
      BY <2>1 DEF Protected
    <2> QED
      BY <2>1, <2>2, PCallStep
  <1>5. CASE \E co \in Threads, f \in {"resume", "wrap"} : Resume(co, f)
    BY <1>5, ResumeStep
  <1>6. CASE Yield
    BY <1>6, YieldStep
  <1>7. CASE Error
    BY <1>7, ErrorStep
  <1>8. CASE HookFails
    BY <1>8, HookFailsStep
  <1>9. CASE ErrorMsg
    BY <1>9, ErrorMsgStep
  <1>10. CASE Land
    BY <1>10, LandStep
  <1>11. CASE Return
    BY <1>11, ReturnStep
  <1>12. CASE Unroll
    BY <1>12, UnrollStep
  <1>13. CASE Over
    BY <1>13 DEF Over, vars
  <1> QED
    BY <1>1, <1>2, <1>3, <1>4, <1>5, <1>6, <1>7, <1>8, <1>9, <1>10, <1>11, <1>12, <1>13 DEF Next

\* The C stack and the CallInfos of all threads agree, whatever has been
\* called, has failed or has yielded (ldo.c), as long as the program resumes
\* no thread that is under way.
THEOREM CallsConsistent ==
    ASSUME ~AnyThread
    PROVE  Spec => []Consistent
  <1>1. Init => Consistent
    BY InitRight DEF Consistent
  <1>2. Consistent /\ [Next]_vars => Consistent'
    <2> SUFFICES ASSUME Consistent, [Next]_vars PROVE Consistent'
      OBVIOUS
    <2>1. PICK at : Right(th, cstack, doing, at)
      BY DEF Consistent
    <2>2. CASE Next
      BY <2>1, <2>2, NextRight DEF Consistent
    <2>3. CASE UNCHANGED vars
      BY <2>1, <2>3 DEF Consistent, vars
    <2> QED
      BY <2>2, <2>3
  <1> QED
    BY <1>1, <1>2, PTL DEF Spec

----------------------------------------------------------------------------
(* What the runs check follows.                                            *)

LEMMA ActiveIsMine == \A t : Active(t) = Mine(cstack, t)
  BY DEF Active, Mine

LEMMA FieldsFollow ==
    ASSUME NEW at, Right(th, cstack, doing, at)
    PROVE  FieldsRestored
  <1> SUFFICES ASSUME NEW t \in Threads
               PROVE  IF Active(t) = {} THEN th[t].nny = 1
                      ELSE /\ th[t].nny = (IF t = MainThread THEN 1 ELSE 0)
                                          + Cardinality({i \in Active(t) : cstack[i].nny = 1})
                           /\ \E i \in Active(t) : i = th[t].nCcalls /\ \A j \in Active(t) : j <= i
                           /\ th[t].allowhook <=> \A d \in DOMAIN th[t].ci : ~th[t].ci[d].hooked
    BY DEF FieldsRestored
  <1>1. ThreadRight(t, th[t], cstack, doing, at) /\ StackRight(cstack) /\ States(th)
    BY DEF Right
  <1>2. PICK s : s = th[t] /\ s \in LuaStates
    BY <1>1 DEF States
  <1>3. Active(t) = Mine(cstack, t)
    BY ActiveIsMine
  <1>4. CASE Mine(cstack, t) = {}
    <2>1. s.nny = 1
      BY <1>1, <1>2, <1>4 DEF ThreadRight, Away
    <2> QED
      BY <1>2, <1>3, <1>4, <2>1
  <1>5. CASE Mine(cstack, t) # {}
    <2>1. Counted(s, t, cstack)
      BY <1>1, <1>2, <1>5 DEF ThreadRight
    <2>2. s.nny = Base(t) + Cardinality(Nnys(cstack, t, Len(cstack)))
      BY <2>1 DEF Counted, NnyUpTo
    <2>3. Nnys(cstack, t, Len(cstack)) = {i \in Active(t) : cstack[i].nny = 1}
      <3>1. DOMAIN cstack = 1 .. Len(cstack) /\ Len(cstack) \in Nat
        BY <1>1, StackSeq
      <3>2. \A i \in DOMAIN cstack : i <= Len(cstack)
        BY <3>1
      <3> QED
        BY <3>2 DEF Nnys, Active
    <2>4. s.nCcalls \in Active(t) /\ \A j \in Active(t) : j <= s.nCcalls
      BY <1>3, <2>1 DEF Counted
    <2>5. Unhooked(s.ci, Len(s.ci)) <=> \A d \in DOMAIN s.ci : ~s.ci[d].hooked
      <3>1. s.ci \in Seq(CallInfos)
        BY <1>2 DEF LuaStates
      <3>2. \A d \in DOMAIN s.ci : d <= Len(s.ci)
        BY <3>1
      <3> QED
        BY <3>2 DEF Unhooked
    <2>6. s.allowhook <=> \A d \in DOMAIN s.ci : ~s.ci[d].hooked
      BY <2>1, <2>5 DEF Counted
    <2>7. th[t].nny = (IF t = MainThread THEN 1 ELSE 0)
                      + Cardinality({i \in Active(t) : cstack[i].nny = 1})
      BY <1>2, <2>2, <2>3 DEF Base
    <2>8. \E i \in Active(t) : i = th[t].nCcalls /\ \A j \in Active(t) : j <= i
      BY <1>2, <2>4
    <2>9. th[t].allowhook <=> \A d \in DOMAIN th[t].ci : ~th[t].ci[d].hooked
      BY <1>2, <2>6
    <2> QED
      BY <1>3, <1>5, <2>7, <2>8, <2>9
  <1> QED
    BY <1>4, <1>5

LEMMA YieldsFollow ==
    ASSUME NEW at, Right(th, cstack, doing, at)
    PROVE  YieldsReachResume
  <1>1. PICK t, s : t = Thread /\ s = th[t]
    OBVIOUS
  <1>2. Turn(th, cstack, t, s) /\ StackRight(cstack) /\ Top(t) = s.ci[Len(s.ci)] /\ s \in LuaStates
    BY <1>1, TheTurn
  <1>3. ASSUME In("throw"), doing.status = "YIELD"
        PROVE  cstack[Jump(Thread)].f = "resume"
    <2>1. PICK h : h = Jump(Thread)
      OBVIOUS
    <2>2. Lands(cstack, t, h) /\ cstack[h].f \in {"pcall", "resume"}
      BY <1>1, <1>2, <2>1, JumpLands
    <2>3. doing.at = "throw"
      BY <1>3 DEF In
    <2>4. h \in Mine(cstack, t)
      BY <2>2 DEF Lands, Mine
    <2>5. cstack[h].f # "pcall"
      BY <1>2, <1>3, <2>3, <2>4, YieldFindsNone
    <2> QED
      BY <2>1, <2>2, <2>5
  <1>4. ASSUME In("unroll"), th[Thread].ci # << >>, ~IsLua(Top(Thread))
        PROVE  Top(Thread).k /\ th[Thread].nny = 0
    <2>1. doing.at = "unroll" /\ s.ci # << >> /\ s.ci[Len(s.ci)].f # "lua"
      BY <1>1, <1>2, <1>4 DEF In, IsLua
    <2>2. PICK m : m = Len(cstack)
      OBVIOUS
    <2>3. /\ cstack[m].f = "resume" /\ LastFits(cstack, t, m)
          /\ Matched(s.ci, cstack, at, Mine(cstack, t), FALSE) /\ Runs(s, t, cstack, at)
      BY <1>2, <2>1, <2>2, ThreadUnrolls
    <2>4. PICK ci : ci = s.ci
      OBVIOUS
    <2>5. Known(ci, cstack, at, t) /\ s.nny = NnyUpTo(cstack, t, m)
      BY <2>2, <2>3, <2>4 DEF Runs
    <2>6. Lands(cstack, t, m)
      <3>1. DOMAIN cstack = 1 .. m /\ m \in Nat \ {0}
        BY <1>2, <2>2, StackSeq
      <3>2. m \in DOMAIN cstack /\ cstack[m].thread = t
        BY <2>3 DEF LastFits, Mine
      <3>3. \A i \in DOMAIN cstack : ~(m < i)
        BY <3>1
      <3> QED
        BY <3>2, <3>3 DEF Lands
    <2>7. Mine(cstack, t) = {m}
      BY <2>2, <2>3, <2>5, OnlyResume
    <2>8. cstack[m].nny = 0 /\ t # MainThread
      BY <1>2, <2>3, <2>6, LandsInResume
    <2>9. ci[Len(ci)].k
      <3>1. Continuable(ci, cstack, at, {m}, FALSE)
        BY <2>3, <2>4, <2>7 DEF Matched
      <3>2. Len(ci) \in DOMAIN ci
        <4>1. ci \in Seq(CallInfos) /\ ci # << >>
          BY <2>5 DEF Known
        <4> QED
          BY <4>1
      <3>3. cstack[m].nny # 1
        BY <2>8
      <3> QED
        BY <2>1, <2>4, <3>1, <3>2, <3>3 DEF Continuable
    <2>10. NnyUpTo(cstack, t, m) = 0
      <3>1. Nnys(cstack, t, m) = {}
        <4>1. \A i \in DOMAIN cstack : cstack[i].thread = t => i = m
          BY <2>7 DEF Mine
        <4>2. cstack[m].nny # 1
          BY <2>8
        <4> QED
          BY <4>1, <4>2 DEF Nnys
      <3>2. cstack \in Seq(Entries) /\ m \in Int
        BY <1>2, <2>2, StackSeq
      <3> QED
        BY <2>8, <3>1, <3>2, NnysFinite
    <2> QED
      BY <1>1, <1>2, <2>4, <2>5, <2>9, <2>10
  <1> QED
    BY <1>3, <1>4 DEF YieldsReachResume

LEMMA StatusFollows ==
    ASSUME NEW at, Right(th, cstack, doing, at)
    PROVE  StatusTells
  <1> SUFFICES ASSUME NEW t \in Threads \ {Thread}
               PROVE  /\ CoStatus(t) = "normal" <=> Active(t) # {}
                      /\ CoStatus(t) = "suspended" <=>
                            Active(t) = {} /\ (th[t].status = "YIELD" \/ th[t].hasFunction)
                      /\ CoStatus(t) = "suspended" => CanResume(t, 0)
    BY DEF StatusTells
  <1>1. /\ ThreadRight(t, th[t], cstack, doing, at) /\ Thread = cstack[Len(cstack)].thread
        /\ t # Thread
    BY TheTurn DEF Right
  <1>2. PICK s : s = th[t]
    OBVIOUS
  <1>3. Active(t) = Mine(cstack, t)
    BY ActiveIsMine
  <1>4. 0 < MaxCCalls
    BY CallsAssumption
  <1>5. CASE Mine(cstack, t) = {}
    <2>1. /\ s.hasFunction => s.status = "OK"
          /\ s.status = "OK" => s.ci = << >>
      BY <1>1, <1>2, <1>5 DEF ThreadRight, Away
    <2>2. CoStatus(t) = "suspended" <=> s.status = "YIELD" \/ s.hasFunction
      BY <1>1, <1>2, <2>1 DEF CoStatus
    <2>3. CoStatus(t) # "normal"
      BY <1>1, <1>2, <2>1 DEF CoStatus
    <2>4. CoStatus(t) = "suspended" => CanResume(t, 0)
      BY <1>2, <1>4, <2>1, <2>2 DEF CanResume
    <2> QED
      BY <1>2, <1>3, <1>5, <2>2, <2>3, <2>4
  <1>6. CASE Mine(cstack, t) # {}
    <2>1. Counted(s, t, cstack) /\ Waiting(s)
      BY <1>1, <1>2, <1>6 DEF ThreadRight
    <2>2. s.status = "OK" /\ s.ci # << >> /\ ~s.hasFunction
      BY <2>1 DEF Waiting, Counted
    <2>3. CoStatus(t) = "normal"
      BY <1>1, <1>2, <2>2 DEF CoStatus
    <2> QED
      BY <1>3, <1>6, <2>3
  <1> QED
    BY <1>5, <1>6

\* What an error or a yield has cut short has left nny, nCcalls and allowhook
\* as the C calls and the hooks that are still active have them
\* (luaD_pcall(), recover(), lua_resume()).
THEOREM CountsRestored ==
    ASSUME ~AnyThread
    PROVE  Spec => []FieldsRestored
  <1>1. Consistent => FieldsRestored
    BY FieldsFollow DEF Consistent
  <1> QED
    BY <1>1, CallsConsistent, PTL

\* lua_yieldk() never lands in luaD_pcall(), and unroll() finds no C function
\* without continuation and no call that may not yield: the assertions in
\* finishCcall() hold.
THEOREM NoYieldIsCaught ==
    ASSUME ~AnyThread
    PROVE  Spec => []YieldsReachResume
  <1>1. Consistent => YieldsReachResume
    BY YieldsFollow DEF Consistent
  <1> QED
    BY <1>1, CallsConsistent, PTL

\* luaB_costatus() says "normal" of the threads that have resumed another, and
\* "suspended" of those, and only of those, that lua_resume() accepts.
THEOREM StatusIsTold ==
    ASSUME ~AnyThread
    PROVE  Spec => []StatusTells
  <1>1. Consistent => StatusTells
    BY StatusFollows DEF Consistent
  <1> QED
    BY <1>1, CallsConsistent, PTL

----------------------------------------------------------------------------
(* Which protected call an error ends.                                     *)

LEMMA InnermostIs ==
    ASSUME NEW s, NEW d, d \in ProtectedIn(s), s.ci \in Seq(CallInfos),
           \A c \in ProtectedIn(s) : c <= d
    PROVE  Innermost(s) = d
  <1>1. ProtectedIn(s) \subseteq Nat
    BY DEF ProtectedIn
  <1>2. PICK i : i = Innermost(s)
    OBVIOUS
  <1>3. i \in ProtectedIn(s) /\ \A c \in ProtectedIn(s) : c <= i
    BY <1>2 DEF Innermost
  <1>4. d <= i /\ i <= d /\ d \in Nat /\ i \in Nat
    BY <1>1, <1>3
  <1>5. i = d
    BY <1>4
  <1> QED
    BY <1>2, <1>5

LEMMA CaughtByPCall ==
    ASSUME NEW ths, NEW cs, NEW now, NEW at, Right(ths, cs, now, at), now.at = "throw",
           NEW t, NEW s, Turn(ths, cs, t, s), NEW h, Lands(cs, t, h), cs[h].f = "pcall"
    PROVE  /\ h # 1 => /\ cs[h].ci \in ProtectedIn(s) /\ Innermost(s) = cs[h].ci
                       /\ cs[h].ci \in Nat \ {0} /\ cs[h].ci <= Len(s.ci)
           /\ h = 1 => ProtectedIn(s) = {} /\ t = MainThread
  <1>1. Runs(s, t, cs, at) /\ StackRight(cs)
    BY ThreadThrown
  <1>2. Known(s.ci, cs, at, t)
    BY <1>1 DEF Runs
  <1>3. PICK ci, mine : ci = s.ci /\ mine = Mine(cs, t)
    OBVIOUS
  <1>4. /\ DOMAIN cs = 1 .. Len(cs) /\ Len(cs) \in Nat \ {0}
        /\ DOMAIN ci = 1 .. Len(ci) /\ Len(ci) \in Nat \ {0}
        /\ \A i \in mine : /\ i \in DOMAIN cs /\ i \in Nat \ {0} /\ cs[i].thread = t
                           /\ at[i] \in Nat /\ at[i] <= Len(ci)
    BY <1>2, <1>3, KnownFacts
  <1>5. Places(ci, cs, at, mine) /\ Callers(ci, cs, at, mine) /\ Protecting(ci, cs, at, mine)
    BY <1>2, <1>3 DEF Known, Matched
  <1>6. h \in mine /\ h \in DOMAIN cs /\ cs[h].thread = t
        /\ \A i \in DOMAIN cs : h < i => cs[i].f = "call"
    BY <1>3 DEF Lands, Mine
  <1>7. cs[h].ci = at[h] /\ (at[h] = 0 <=> h = 1)
    BY <1>5, <1>6 DEF Callers
  <1>8. \A i \in mine : cs[i].f = "pcall" => at[i] <= at[h]
    <2> SUFFICES ASSUME NEW i \in mine, cs[i].f = "pcall" PROVE at[i] <= at[h]
      OBVIOUS
    <2>1. i <= h
      BY <1>4, <1>6
    <2>2. ~IsCall(cs[h], "errormsg")
      BY DEF IsCall
    <2>3. i < h => at[i] < at[h]
      BY <1>5, <1>6, <2>2 DEF Places
    <2> QED
      BY <1>4, <1>6, <2>1, <2>3
  <1>9. \A d \in DOMAIN ci : ci[d].f \in Protected => d <= at[h]
    BY <1>5, <1>6, <1>8 DEF Protecting
  <1>10. \A d \in ProtectedIn(s) : d \in DOMAIN ci /\ ci[d].f \in Protected /\ d <= at[h]
    BY <1>3, <1>9 DEF ProtectedIn, Protected
  <1>11. CASE h = 1
    <2>1. ProtectedIn(s) = {}
      BY <1>4, <1>7, <1>10, <1>11
    <2>2. cs[1].thread = MainThread
      BY <1>1 DEF StackRight
    <2> QED
      BY <1>6, <1>11, <2>1, <2>2
  <1>12. CASE h # 1
    <2>1. ci[at[h]].f \in Protected
      BY <1>5, <1>6, <1>12 DEF Callers
    <2>2. at[h] \in Nat \ {0} /\ at[h] <= Len(ci) /\ at[h] \in DOMAIN ci
      BY <1>4, <1>6, <1>7, <1>12
    <2>3. at[h] \in ProtectedIn(s)
      BY <1>3, <2>1, <2>2 DEF ProtectedIn, Protected
    <2>4. s.ci \in Seq(CallInfos)
      BY <1>2 DEF Known
    <2>5. Innermost(s) = at[h]
      BY <1>10, <2>3, <2>4, InnermostIs
    <2> QED
      BY <1>3, <1>7, <1>12, <2>2, <2>3, <2>5
  <1> QED
    BY <1>11, <1>12

LEMMA CaughtByResume ==
    ASSUME NEW ths, NEW cs, NEW now, NEW at, Right(ths, cs, now, at), now.at = "throw",
           NEW t, NEW s, Turn(ths, cs, t, s), NEW h, Lands(cs, t, h), cs[h].f = "resume"
    PROVE  ProtectedIn(s) = PCalls(s) /\ s.ci \in Seq(CallInfos) /\ t # MainThread
  <1>1. Runs(s, t, cs, at) /\ StackRight(cs)
    BY ThreadThrown
  <1>2. Known(s.ci, cs, at, t)
    BY <1>1 DEF Runs
  <1>3. PICK ci : ci = s.ci
    OBVIOUS
  <1>4. InfosRight(ci) /\ Protecting(ci, cs, at, Mine(cs, t)) /\ s.ci \in Seq(CallInfos)
    BY <1>2, <1>3 DEF Known, Matched
  <1>5. \A i \in Mine(cs, t) : h <= i /\ i \in Nat /\ h \in Nat
    <2>1. h \in 1 .. Len(cs) /\ Len(cs) \in Nat /\ \A i \in Mine(cs, t) : h <= i
      BY <1>1, LandsInResume
    <2>2. \A i \in Mine(cs, t) : i \in Nat
      BY <1>2, KnownFacts
    <2> QED
      BY <2>1, <2>2
  <1>6. \A i \in Mine(cs, t) : cs[i].f # "pcall"
    <2> SUFFICES ASSUME NEW i \in Mine(cs, t), cs[i].f = "pcall" PROVE FALSE
      OBVIOUS
    <2>1. i \in DOMAIN cs /\ (h < i => cs[i].f = "call")
      BY DEF Lands, Mine
    <2>2. i # h
      OBVIOUS
    <2> QED
      BY <1>5, <2>1, <2>2
  <1>7. \A d \in DOMAIN ci : ci[d].f \in Protected <=> ci[d].ypcall
    <2>1. \A d \in DOMAIN ci : ci[d].ypcall => ci[d].f \in Protected
      BY <1>4 DEF InfosRight
    <2>2. \A d \in DOMAIN ci : ci[d].f \in Protected => ci[d].ypcall
      BY <1>4, <1>6 DEF Protecting
    <2> QED
      BY <2>1, <2>2
  <1>8. ProtectedIn(s) = PCalls(s)
    BY <1>3, <1>7 DEF ProtectedIn, PCalls, Protected
  <1>9. t # MainThread
    BY <1>1, LandsInResume
  <1> QED
    BY <1>4, <1>8, <1>9

LEMMA PCallEnds ==
    ASSUME NEW at, Right(th, cstack, doing, at), doing.at = "throw",
           NEW t, NEW s, t = Thread, Turn(th, cstack, t, s),
           NEW h, Lands(cstack, t, h), cstack[h].f = "pcall", PCallFails(h)
    PROVE  EndsInnermost
  <1>1. States(th) /\ s = th[t] /\ t \in Threads /\ s \in LuaStates /\ StackRight(cstack)
    BY ThreadThrown DEF Turn, Runs
  <1>2. /\ h # 1 => /\ cstack[h].ci \in ProtectedIn(s) /\ Innermost(s) = cstack[h].ci
                    /\ cstack[h].ci \in Nat \ {0} /\ cstack[h].ci <= Len(s.ci)
        /\ h = 1 => ProtectedIn(s) = {} /\ t = MainThread
    BY CaughtByPCall
  <1>3. CASE h = 1
    <2>1. doing'.at = "over"
      BY <1>3 DEF PCallFails, Go
    <2>2. ProtectedIn(th[Thread]) = {} /\ Thread = MainThread
      BY <1>1, <1>2, <1>3
    <2> QED
      BY <2>1, <2>2 DEF EndsInnermost
  <1>4. CASE h # 1
    <2>1. PICK e : e = cstack[h] /\ e.thread = t /\ e.f = "pcall"
      BY DEF Lands
    <2>2. PICK s2 : CutTo(s, e, s2)
      BY DEF CutTo
    <2>3. th' = [th EXCEPT ![t] = s2]
      BY <1>1, <1>4, <2>1, <2>2 DEF PCallFails, CutTo
    <2>4. th'[t] = s2
      BY <1>1, <2>3 DEF States
    <2>5. PICK ci2 : ci2 = SubSeq(s.ci, 1, e.ci - 1)
      OBVIOUS
    <2>6. e \in Entries
      BY <1>1, <2>1, StackSeq DEF Lands
    <2>7. CutFields(s, e, ci2, s2)
      BY <1>1, <1>2, <1>4, <2>1, <2>2, <2>5, <2>6, CutIs
    <2>8. s2.ci = SubSeq(s.ci, 1, Innermost(s) - 1)
      BY <1>2, <1>4, <2>1, <2>5, <2>7 DEF CutFields
    <2>9. ProtectedIn(s) # {}
      BY <1>2, <1>4
    <2> QED
      BY <1>1, <2>4, <2>8, <2>9 DEF EndsInnermost
  <1> QED
    BY <1>3, <1>4

LEMMA CoroutineCatches ==
    ASSUME NEW at, Right(th, cstack, doing, at), doing.at = "throw", doing.status # "YIELD",
           NEW t, NEW s, t = Thread, Turn(th, cstack, t, s),
           NEW h, Lands(cstack, t, h), cstack[h].f = "resume", ResumeGoesOn(h, doing.status)
    PROVE  EndsInnermost
  <1>1. States(th) /\ s = th[t] /\ t \in Threads /\ s \in LuaStates /\ StackRight(cstack)
    BY ThreadThrown DEF Turn, Runs
  <1>2. ProtectedIn(s) = PCalls(s) /\ s.ci \in Seq(CallInfos) /\ t # MainThread
    BY CaughtByResume
  <1>3. h \in 1 .. Len(cstack) /\ h - 1 \in 1 .. Len(cstack)
    BY <1>1, LandsInResume
  <1>4. /\ PCalls(s) # {} => Recovering(s, h, t)
        /\ PCalls(s) = {} => Leaving(s, h, t)
    BY ResumeGoesOnIs
  <1>5. CASE PCalls(s) # {}
    <2>1. PICK s2 : RecoverAs(s, h, s2) /\ Becomes(th, t, s2, th') /\ doing' = Unrolling
      BY <1>4, <1>5 DEF Recovering
    <2>2. th'[t] = s2
      BY <1>1, <2>1 DEF Becomes, States
    <2>3. PICK k : k = FindPCall(s)
      OBVIOUS
    <2>4. h \in Int
      BY <1>3
    <2>5. PICK ci2 : RecoverFields(s, h, k, ci2, s2)
      BY <1>1, <1>5, <2>1, <2>3, <2>4, RecoverIs
    <2>6. Recovered(s.ci, k, ci2) /\ s2.ci = ci2
      BY <2>5 DEF RecoverFields
    <2>7. Recovers(s.ci, ci2, k) /\ ci2[k].stat
      BY <2>6, RecoverRecovers
    <2>8. Len(ci2) = k
      BY <2>7 DEF Recovers
    <2>9. Last(ci2).stat
      BY <2>7, <2>8 DEF Last
    <2>10. k \in PCalls(s) /\ \A c \in PCalls(s) : c <= k
      BY <1>2, <1>5, <2>3, FindIsLast DEF PCalls
    <2>11. Innermost(s) = k
      BY <1>2, <2>10, InnermostIs
    <2>12. doing'.at = "unroll"
      BY <2>1 DEF Unrolling
    <2>13. Len(th'[t].ci) = Innermost(s) /\ Last(th'[t].ci).stat
      BY <2>2, <2>6, <2>8, <2>9, <2>11
    <2>14. ProtectedIn(s) # {}
      BY <1>2, <1>5
    <2> QED
      BY <1>1, <2>12, <2>13, <2>14 DEF EndsInnermost
  <1>6. CASE PCalls(s) = {}
    <2>1. PICK s2, after, failed :
             /\ EndsAs(s, h, doing.status, s2) /\ Becomes(th, t, s2, after)
             /\ Ended(after, cstack[h - 1].thread, failed)
      BY <1>4, <1>6 DEF Leaving
    <2>2. PICK from, f, cs2 : from = cstack[h - 1].thread /\ f = th[from] /\ CutBelow(cstack, h, cs2)
      BY DEF CutBelow
    <2>3. Resumer(th, cstack, t, h, from, f)
      BY <2>2 DEF Resumer, Lands
    <2>4. from # t /\ from \in Threads
      BY <2>2, <2>3, ResumerIs
    <2>5. after = [th EXCEPT ![t] = s2]
      BY <2>1 DEF Becomes
    <2>6. Ended(after, from, failed)
      BY <2>1, <2>2
    <2>7. PICK f2 : BothBecome(th, t, s2, from, f2, th')
      BY <1>1, <2>4, <2>5, <2>6, EndedAs
    <2>8. th'[t] = s2
      BY <1>1, <2>4, <2>7 DEF BothBecome, States
    <2>9. doing.status \in Statuses
      <3>1. doing.status \in {"ERRRUN", "ERRERR"}
        BY ThreadThrown
      <3> QED
        BY <3>1 DEF Statuses
    <2>10. s2.status = doing.status
      <3>1. h \in Int
        BY <1>3
      <3>2. EndsAs(s, h, doing.status, s2) /\ s \in LuaStates
        BY <1>1, <2>1
      <3> QED
        BY <2>9, <3>1, <3>2, EndsIs
    <2>11. ProtectedIn(s) = {}
      BY <1>2, <1>6
    <2> QED
      BY <1>1, <1>2, <2>8, <2>10, <2>11 DEF EndsInnermost
  <1> QED
    BY <1>5, <1>6

LEMMA LandEnds ==
    ASSUME NEW at, Right(th, cstack, doing, at), doing.status # "YIELD", Land
    PROVE  EndsInnermost
  <1>1. PICK h, t, s : h = Jump(Thread) /\ t = Thread /\ s = th[t]
    OBVIOUS
  <1>2. doing.at = "throw"
    BY DEF Land, In
  <1>3. Turn(th, cstack, t, s) /\ StackRight(cstack)
    BY <1>1, TheTurn
  <1>4. Lands(cstack, t, h) /\ cstack[h].f \in {"pcall", "resume"}
    BY <1>1, <1>3, JumpLands
  <1>5. CASE cstack[h].f = "pcall"
    <2>1. PCallFails(h)
      BY <1>1, <1>5 DEF Land
    <2> QED
      BY <1>1, <1>2, <1>3, <1>4, <1>5, <2>1, PCallEnds
  <1>6. CASE cstack[h].f = "resume"
    <2>1. ResumeGoesOn(h, doing.status)
      BY <1>1, <1>6 DEF Land
    <2> QED
      BY <1>1, <1>2, <1>3, <1>4, <1>6, <2>1, CoroutineCatches
  <1> QED
    BY <1>4, <1>5, <1>6

LEMMA OnlyLands ==
    ASSUME In("throw"), Next
    PROVE  Land
  <1>1. ~InLua /\ ~In("errormsg") /\ ~In("unroll") /\ ~In("over")
    BY DEF InLua, In
  <1> QED
    BY <1>1 DEF Next, Call, Metamethod, Callback, PCall, Resume, Yield, Error, HookFails,
                ErrorMsg, Return, Unroll, Over

\* luaD_throw() and what it lands in end the protected call that the thread has
\* begun last, whether it is luaD_pcall()'s or lua_resume()'s; without one the
\* coroutine is dead with the error's status, or the program is over.
THEOREM ErrorsAreCaught ==
    ASSUME ~AnyThread
    PROVE  Spec => ErrorEndsInnermost
  <1>1. Consistent /\ [Next]_vars => [In("throw") /\ doing.status # "YIELD" => EndsInnermost]_vars
    <2> SUFFICES ASSUME Consistent, Next, In("throw"), doing.status # "YIELD"
                 PROVE  EndsInnermost
      OBVIOUS
    <2>1. PICK at : Right(th, cstack, doing, at)
      BY DEF Consistent
    <2>2. Land
      BY OnlyLands
    <2> QED
      BY <2>1, <2>2, LandEnds
  <1> QED
    BY <1>1, CallsConsistent, PTL DEF Spec, ErrorEndsInnermost
=============================================================================
