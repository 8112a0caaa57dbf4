------------------------- MODULE YgtkBindingProofs --------------------------
(***************************************************************************)
(* Proofs about YgtkBinding, for any objects, userdata, handlers, slots    *)
(* and coroutines, and any bounds.                                         *)
(***************************************************************************)
EXTENDS YgtkBinding, FiniteSetTheorems, SequenceTheorems, TLAPS

----------------------------------------------------------------------------
(* The invariant.  Every reference on an object is accounted for: a        *)
(* userdata's, GTK+'s, and that of an emission that is under way.  Those   *)
(* that an error has abandoned are never given back, so there may be more. *)

ProxiesOf(o)   == {p \in Proxies : proxy[p] = o}
FramesOf(h)    == {i \in DOMAIN running : running[i].holder = h}
EmissionsOn(o) == {i \in DOMAIN running : /\ running[i].holder \in Closures
                                          /\ holder[running[i].holder].on = o}
GtkRefs(o)     == IF gtk[o] THEN 1 ELSE 0

\* What the references of an object are for.
Used(o)     == Cardinality(ProxiesOf(o)) + GtkRefs(o) + Cardinality(EmissionsOn(o))
RefsCounted == \A o \in Objects : Used(o) <= refs[o]

\* A handler that runs is still there, and knows how many of its calls run.
CallsCounted ==
    \A h \in Holders : FramesOf(h) # {} =>
        holder[h] # None /\ Cardinality(FramesOf(h)) <= holder[h].calls

\* A closure is connected to an object that has been made.
ClosuresConnected ==
    \A h \in Closures : holder[h] # None =>
        holder[h].on \in Objects /\ life[holder[h].on] # "UNBORN"

\* Before it is made an object has neither userdata nor a parent.
UnbornUnused ==
    \A o \in Objects : life[o] = "UNBORN" => ProxiesOf(o) = {} /\ ~gtk[o]

\* The handler of a signal has userdata for its parameter.
ArgumentsGiven ==
    \A i \in DOMAIN running : running[i].holder \in Closures => running[i].arg \in Proxies

\* What the program can reach has an object.
ReachableOwned == \A p \in Reachable : p \in Proxies /\ proxy[p] # None

Accounted ==
    /\ TypeOK /\ ClosuresConnected /\ UnbornUnused /\ ArgumentsGiven
    /\ ReachableOwned /\ CallsCounted /\ RefsCounted

----------------------------------------------------------------------------
(* Finite sets.                                                            *)

Frame == [holder : Holders, arg : Proxies \union {None}]

\* Everything that is counted is finite, before a step and after it.
LEMMA RunningFinite ==
    ASSUME NEW r \in Seq(Frame)
    PROVE  IsFiniteSet(DOMAIN r) /\ DOMAIN r = 1 .. Len(r) /\ Len(r) \in Nat
  BY FS_Interval

LEMMA FrameOf ==
    ASSUME NEW r \in Seq(Frame), NEW i \in DOMAIN r
    PROVE  r[i].holder \in Holders /\ r[i].arg \in Proxies \union {None}
  <1>1. r[i] \in Frame
    BY ElementOfSeq, RunningFinite
  <1>2. QED
    BY <1>1 DEF Frame

LEMMA Finite ==
    ASSUME TypeOK
    PROVE  /\ \A o : IsFiniteSet(ProxiesOf(o)) /\ Cardinality(ProxiesOf(o)) \in Nat
           /\ \A h : IsFiniteSet(FramesOf(h)) /\ Cardinality(FramesOf(h)) \in Nat
           /\ \A o : IsFiniteSet(EmissionsOn(o)) /\ Cardinality(EmissionsOn(o)) \in Nat
  <1>1. IsFiniteSet(DOMAIN running)
    BY RunningFinite DEF TypeOK, Frame
  <1>2. ASSUME NEW o PROVE IsFiniteSet(ProxiesOf(o)) /\ Cardinality(ProxiesOf(o)) \in Nat
    <2>1. ProxiesOf(o) \in SUBSET Proxies
      BY DEF ProxiesOf
    <2>2. QED
      BY <2>1, FS_Subset, FS_CardinalityType, BindingAssumption
  <1>3. ASSUME NEW h PROVE IsFiniteSet(FramesOf(h)) /\ Cardinality(FramesOf(h)) \in Nat
    <2>1. FramesOf(h) \in SUBSET DOMAIN running
      BY DEF FramesOf
    <2>2. QED
      BY <1>1, <2>1, FS_Subset, FS_CardinalityType
  <1>4. ASSUME NEW o PROVE IsFiniteSet(EmissionsOn(o)) /\ Cardinality(EmissionsOn(o)) \in Nat
    <2>1. EmissionsOn(o) \in SUBSET DOMAIN running
      BY DEF EmissionsOn
    <2>2. QED
      BY <1>1, <2>1, FS_Subset, FS_CardinalityType
  <1>5. QED
    BY <1>2, <1>3, <1>4

LEMMA FramesFiniteAfter ==
    ASSUME running' \in Seq(Frame), NEW h
    PROVE  IsFiniteSet(FramesOf(h)') /\ Cardinality(FramesOf(h)') \in Nat
  <1>1. IsFiniteSet(DOMAIN running')
    BY RunningFinite
  <1>2. FramesOf(h)' \in SUBSET DOMAIN running'
    BY DEF FramesOf
  <1>3. QED
    BY <1>1, <1>2, FS_Subset, FS_CardinalityType

LEMMA NotEmpty ==
    ASSUME NEW S, IsFiniteSet(S), NEW x \in S
    PROVE  Cardinality(S) >= 1 /\ Cardinality(S) \in Nat
  BY FS_EmptySet, FS_CardinalityType

LEMMA OneLess ==
    ASSUME NEW S, IsFiniteSet(S), NEW x \in S
    PROVE  /\ IsFiniteSet(S \ {x}) /\ Cardinality(S \ {x}) = Cardinality(S) - 1
           /\ Cardinality(S) \in Nat
  BY FS_RemoveElement, FS_CardinalityType

LEMMA OneMore ==
    ASSUME NEW S, IsFiniteSet(S), NEW x, x \notin S
    PROVE  /\ IsFiniteSet(S \union {x}) /\ Cardinality(S \union {x}) = Cardinality(S) + 1
           /\ Cardinality(S) \in Nat
  BY FS_AddElement, FS_CardinalityType

\* luaL_ref() thrice finds three keys that are free, and different.
LEMMA ThreeElements ==
    ASSUME NEW S, IsFiniteSet(S), Cardinality(S) >= 3
    PROVE  \E r \in S \X S \X S : r[1] # r[2] /\ r[1] # r[3] /\ r[2] # r[3]
  <1>1. PICK x \in S : TRUE
    BY FS_EmptySet
  <1> DEFINE T == S \ {x}
  <1>2. IsFiniteSet(T) /\ Cardinality(T) >= 2
    BY <1>1, OneLess
  <1>3. PICK y \in T : TRUE
    BY <1>2, FS_EmptySet
  <1> DEFINE U == T \ {y}
  <1>4. IsFiniteSet(U) /\ Cardinality(U) >= 1
    <2> HIDE DEF T
    <2> QED
      BY <1>2, <1>3, OneLess
  <1>5. PICK z \in U : TRUE
    BY <1>4, FS_EmptySet
  <1>6. WITNESS <<x, y, z>> \in S \X S \X S
  <1>7. QED
    BY <1>3, <1>5

----------------------------------------------------------------------------
(* What the functions do.                                                  *)

LEMMA FreeSlots ==
    ASSUME TypeOK, SlotsLeft
    PROVE  /\ NewSlots \in Free \X Free \X Free
           /\ NewSlots[1] # NewSlots[2] /\ NewSlots[1] # NewSlots[3] /\ NewSlots[2] # NewSlots[3]
  <1>1. IsFiniteSet(Free)
    BY FS_Subset, BindingAssumption DEF Free
  <1>2. \E r \in Free \X Free \X Free : r[1] # r[2] /\ r[1] # r[3] /\ r[2] # r[3]
    BY <1>1, ThreeElements DEF SlotsLeft
  <1>3. QED
    BY <1>2 DEF NewSlots

\* ygtk_make_object(): one userdata more for o, and no other is changed.
LEMMA Userdata ==
    ASSUME TypeOK, ProxyLeft, NEW o \in Objects, proxy' = [proxy EXCEPT ![NewProxy] = o]
    PROVE  /\ NewProxy \in Proxies /\ proxy[NewProxy] = None
           /\ proxy' \in [Proxies -> Objects \union {None}]
           /\ \A p \in Proxies : p # NewProxy => proxy'[p] = proxy[p]
           /\ proxy'[NewProxy] = o /\ o # None
           /\ \A q \in Objects : q # o => ProxiesOf(q)' = ProxiesOf(q)
           /\ Cardinality(ProxiesOf(o)') = Cardinality(ProxiesOf(o)) + 1
  <1>1. NewProxy \in Proxies /\ proxy[NewProxy] = None
    BY DEF ProxyLeft, NewProxy
  <1>2. o # None
    BY BindingAssumption
  <1>3. /\ proxy' \in [Proxies -> Objects \union {None}]
        /\ \A p \in Proxies : p # NewProxy => proxy'[p] = proxy[p]
        /\ proxy'[NewProxy] = o
    BY <1>1 DEF TypeOK
  <1>4. ASSUME NEW q \in Objects, q # o PROVE ProxiesOf(q)' = ProxiesOf(q)
    <2>1. q # None
      BY BindingAssumption
    <2>2. QED
      BY <1>1, <1>3, <1>4, <2>1 DEF ProxiesOf
  <1>5. ProxiesOf(o)' = ProxiesOf(o) \union {NewProxy} /\ NewProxy \notin ProxiesOf(o)
    BY <1>1, <1>2, <1>3 DEF ProxiesOf
  <1>6. Cardinality(ProxiesOf(o)') = Cardinality(ProxiesOf(o)) + 1
    BY <1>5, Finite, OneMore
  <1>7. QED
    BY <1>1, <1>2, <1>3, <1>4, <1>6

\* What is reachable, and what cannot become so: a step that puts only what is
\* reachable or in new where the collector looks.
LEMMA Roots ==
    ASSUME TypeOK
    PROVE  /\ rooted \subseteq Reachable
           /\ \A s \in Slots, p \in Proxies : registry[s] = <<"object", p>> => p \in Reachable
           /\ \A h \in Holders : holder[h] # None => captures[h] \subseteq Reachable
           /\ \A i \in DOMAIN running : running[i].arg \in Reachable \union {None}
  BY DEF Reachable, Live

LEMMA OnlyReachable ==
    ASSUME NEW new,
           rooted' \subseteq Reachable \union new,
           \A s \in Slots, p \in Proxies : registry'[s] = <<"object", p>> => p \in Reachable \union new,
           \A h \in Holders : holder'[h] # None => captures'[h] \subseteq Reachable \union new,
           \A i \in DOMAIN running' : running'[i].arg \in Reachable \union new \union {None}
    PROVE  Reachable' \subseteq Reachable \union new
  <1> SUFFICES ASSUME NEW p \in Reachable' PROVE p \in Reachable \union new
    OBVIOUS
  <1>1. \/ p \in rooted'
        \/ p \in Proxies /\ \E s \in Slots : registry'[s] = <<"object", p>>
        \/ \E h \in Holders : holder'[h] # None /\ p \in captures'[h]
        \/ p # None /\ \E i \in DOMAIN running' : running'[i].arg = p
    BY DEF Reachable, Live
  <1>2. QED
    BY <1>1

\* A step counts right: handlers hd, which still have to be detached, are what
\* holder was but for the calls, of which they have those that run after the step.
Counted(hd) ==
    /\ hd \in [Holders -> HolderRecord \union {None}]
    /\ running' \in Seq(Frame)
    /\ \A h \in Holders :
         /\ hd[h] # None => holder[h] # None /\ hd[h].on = holder[h].on
         /\ FramesOf(h)' # {} => hd[h] # None /\ Cardinality(FramesOf(h)') <= hd[h].calls

\* Detach() takes no holder whose call is under way, and of the others makes
\* nothing but what they were; it empties slots.
LEMMA Detached ==
    ASSUME TypeOK, NEW hd, NEW hs, Counted(hd), Detach(hd, hs),
           hs \subseteq Holders, \A h \in hs : hd[h] # None
    PROVE  /\ registry' \in [Slots -> Values]
           /\ holder' \in [Holders -> HolderRecord \union {None}]
           /\ captures' \in [Holders -> SUBSET Proxies]
           /\ \A s \in Slots : registry'[s] \in {registry[s], Nil}
           /\ \A h \in Holders : holder'[h] # None =>
                /\ holder[h] # None /\ holder'[h].on = holder[h].on
                /\ captures'[h] = captures[h]
           /\ CallsCounted'
  <1>1. registry' \in [Slots -> Values] /\ \A s \in Slots : registry'[s] \in {registry[s], Nil}
    BY DEF Detach, TypeOK, Values
  <1>2. captures' \in [Holders -> SUBSET Proxies]
    BY DEF Detach, TypeOK
  <1>3. ASSUME NEW h \in hs
        PROVE  /\ [hd[h] EXCEPT !.attached = FALSE] \in HolderRecord
               /\ [hd[h] EXCEPT !.attached = FALSE].on = hd[h].on
               /\ [hd[h] EXCEPT !.attached = FALSE].calls = hd[h].calls
    BY <1>3 DEF Counted, HolderRecord
  <1>4. holder' \in [Holders -> HolderRecord \union {None}]
    BY <1>3 DEF Detach, Counted
  <1>5. ASSUME NEW h \in Holders
        PROVE  /\ holder'[h] # None =>
                     hd[h] # None /\ holder'[h].on = hd[h].on /\ captures'[h] = captures[h]
               /\ hd[h] # None /\ hd[h].calls # 0 =>
                     holder'[h] # None /\ holder'[h].calls = hd[h].calls
    <2>1. CASE h \in hs /\ hd[h].calls = 0
      BY <2>1 DEF Detach
    <2>2. CASE h \in hs /\ hd[h].calls # 0
      <3>1. holder'[h] = [hd[h] EXCEPT !.attached = FALSE] /\ captures'[h] = captures[h]
        BY <2>2 DEF Detach
      <3>2. holder'[h] # None
        BY <1>3, <2>2, <3>1, BindingAssumption
      <3>3. QED
        BY <1>3, <2>2, <3>1, <3>2
    <2>3. CASE h \notin hs
      BY <2>3 DEF Detach
    <2>4. QED
      BY <2>1, <2>2, <2>3
  <1>6. ASSUME NEW h \in Holders, FramesOf(h)' # {}
        PROVE  holder'[h] # None /\ Cardinality(FramesOf(h)') <= holder'[h].calls
    <2>1. hd[h] # None /\ Cardinality(FramesOf(h)') <= hd[h].calls
      BY <1>6 DEF Counted
    <2>2. Cardinality(FramesOf(h)') >= 1 /\ Cardinality(FramesOf(h)') \in Nat
      <3>1. IsFiniteSet(FramesOf(h)')
        BY FramesFiniteAfter DEF Counted
      <3>2. QED
        BY <1>6, <3>1, NotEmpty
    <2>3. hd[h].calls \in Nat
      BY <2>1 DEF Counted, HolderRecord
    <2>4. QED
      BY <1>5, <2>1, <2>2, <2>3
  <1>7. CallsCounted'
    BY <1>6 DEF CallsCounted
  <1>8. QED
    BY <1>1, <1>2, <1>4, <1>5, <1>7 DEF Counted

\* Nothing has begun or ended to run: the handlers there are count right.
LEMMA StillCounted ==
    ASSUME TypeOK, CallsCounted, running' = running
    PROVE  /\ Counted(holder)
           /\ \A h : FramesOf(h)' = FramesOf(h)
  <1>1. \A h : FramesOf(h)' = FramesOf(h)
    BY DEF FramesOf
  <1>2. QED
    BY <1>1 DEF Counted, CallsCounted, TypeOK, Frame

\* The emissions on an object are those it had but those that are over.
LEMMA SameEmissions ==
    ASSUME TypeOK, CallsCounted, running' = running,
           \A h \in Holders : FramesOf(h) # {} => holder'[h].on = holder[h].on, NEW o
    PROVE  EmissionsOn(o)' = EmissionsOn(o)
  <1>1. ASSUME NEW i \in DOMAIN running PROVE holder'[running[i].holder].on = holder[running[i].holder].on
    <2>1. running[i].holder \in Holders
      BY FrameOf DEF TypeOK, Frame
    <2>2. i \in FramesOf(running[i].holder)
      BY DEF FramesOf
    <2>3. QED
      BY <2>1, <2>2
  <1>2. QED
    BY <1>1 DEF EmissionsOn

----------------------------------------------------------------------------
(* Steps.                                                                  *)

\* Holders are detached from without: of userdata and references, an object may
\* lose as many.
LEMMA DetachedKeeps ==
    ASSUME Accounted, NEW hs, hs \subseteq Live, Detach(holder, hs), running' = running,
           rooted' \subseteq rooted
    PROVE  /\ registry' \in [Slots -> Values]
           /\ holder' \in [Holders -> HolderRecord \union {None}]
           /\ captures' \in [Holders -> SUBSET Proxies]
           /\ CallsCounted' /\ ArgumentsGiven'
           /\ \A h \in Holders : holder'[h] # None =>
                  holder[h] # None /\ holder'[h].on = holder[h].on
           /\ \A o : EmissionsOn(o)' = EmissionsOn(o)
           /\ Reachable' \subseteq Reachable
  <1>1. TypeOK /\ CallsCounted /\ Counted(holder) /\ ArgumentsGiven
    BY StillCounted DEF Accounted
  <1>2. hs \subseteq Holders /\ \A h \in hs : holder[h] # None
    BY DEF Live
  <1>3. /\ registry' \in [Slots -> Values]
        /\ holder' \in [Holders -> HolderRecord \union {None}]
        /\ captures' \in [Holders -> SUBSET Proxies]
        /\ \A s \in Slots : registry'[s] \in {registry[s], Nil}
        /\ \A h \in Holders : holder'[h] # None =>
             /\ holder[h] # None /\ holder'[h].on = holder[h].on
             /\ captures'[h] = captures[h]
        /\ CallsCounted'
    BY <1>1, <1>2, Detached
  <1>4. \A h \in Holders : FramesOf(h) # {} => holder'[h].on = holder[h].on
    BY <1>1, <1>3, StillCounted DEF CallsCounted
  <1>5. \A o : EmissionsOn(o)' = EmissionsOn(o)
    BY <1>1, <1>4, SameEmissions
  <1>6. Reachable' \subseteq Reachable \union {}
    <2>1. \A s \in Slots, p \in Proxies : registry'[s] = <<"object", p>> => p \in Reachable
      BY <1>1, <1>3, Roots DEF Nil
    <2>2. \A h \in Holders : holder'[h] # None => captures'[h] \subseteq Reachable
      BY <1>1, <1>3, Roots
    <2>3. rooted' \subseteq Reachable /\ \A i \in DOMAIN running' : running'[i].arg \in Reachable \union {None}
      BY <1>1, Roots
    <2>4. QED
      BY <2>1, <2>2, <2>3, OnlyReachable
  <1>7. ArgumentsGiven'
    BY <1>1 DEF ArgumentsGiven
  <1>8. QED
    BY <1>3, <1>5, <1>6, <1>7

\* Neither holders nor what runs are touched.
LEMMA HandlersAlone ==
    ASSUME Accounted, UNCHANGED <<registry, holder, captures, running>>,
           NEW new, rooted' \subseteq rooted \union new
    PROVE  /\ CallsCounted' /\ ArgumentsGiven'
           /\ \A o : EmissionsOn(o)' = EmissionsOn(o)
           /\ Reachable' \subseteq Reachable \union new
  <1>1. CallsCounted' /\ ArgumentsGiven'
    BY DEF Accounted, CallsCounted, ArgumentsGiven, FramesOf
  <1>2. \A o : EmissionsOn(o)' = EmissionsOn(o)
    BY DEF EmissionsOn
  <1>3. Reachable' \subseteq Reachable \union new
    BY Roots, OnlyReachable DEF Accounted
  <1>4. QED
    BY <1>1, <1>2, <1>3

LEMMA Born ==
    ASSUME Accounted, NEW o \in Objects, life[o] = "UNBORN"
    PROVE  ProxiesOf(o) = {} /\ ~gtk[o] /\ EmissionsOn(o) = {}
  <1>1. ASSUME NEW i \in EmissionsOn(o) PROVE FALSE
    <2>1. running[i].holder \in Closures /\ holder[running[i].holder].on = o
      BY <1>1 DEF EmissionsOn
    <2>2. holder[running[i].holder] # None
      <3>1. i \in FramesOf(running[i].holder)
        BY <1>1 DEF FramesOf, EmissionsOn
      <3>2. QED
        BY <2>1, <3>1 DEF Accounted, CallsCounted, Holders
    <2>3. QED
      BY <2>1, <2>2 DEF Accounted, ClosuresConnected
  <1>2. QED
    BY <1>1 DEF Accounted, UnbornUnused

\* What is used of an object is a number.
LEMMA UsedIsNat ==
    ASSUME TypeOK, NEW o \in Objects
    PROVE  /\ Used(o) \in Nat /\ GtkRefs(o) \in 0 .. 1 /\ refs[o] \in Nat
           /\ Cardinality(ProxiesOf(o)) \in Nat /\ Cardinality(EmissionsOn(o)) \in Nat
  <1>1. GtkRefs(o) \in 0 .. 1 /\ refs[o] \in Nat
    BY DEF GtkRefs, TypeOK
  <1>2. QED
    BY <1>1, Finite DEF Used

LEMMA NewCounts ==
    ASSUME Accounted, NEW o \in Objects, New(o)
    PROVE  Accounted'
  <1>1. TypeOK
    BY DEF Accounted
  <1>2. /\ NewProxy \in Proxies /\ proxy[NewProxy] = None
        /\ proxy' \in [Proxies -> Objects \union {None}]
        /\ \A p \in Proxies : p # NewProxy => proxy'[p] = proxy[p]
        /\ proxy'[NewProxy] = o /\ o # None
        /\ \A q \in Objects : q # o => ProxiesOf(q)' = ProxiesOf(q)
        /\ Cardinality(ProxiesOf(o)') = Cardinality(ProxiesOf(o)) + 1
    BY <1>1, Userdata DEF New
  <1>3. /\ CallsCounted' /\ ArgumentsGiven'
        /\ \A q : EmissionsOn(q)' = EmissionsOn(q)
        /\ Reachable' \subseteq Reachable \union {NewProxy}
    BY HandlersAlone DEF New
  <1>4. PICK toplevel \in BOOLEAN :
          /\ refs' = [refs EXCEPT ![o] = IF toplevel THEN 2 ELSE 1]
          /\ gtk' = [gtk EXCEPT ![o] = toplevel]
    BY DEF New
  <1>5. TypeOK'
    BY <1>1, <1>2, <1>4 DEF TypeOK, New, Values, Nil
  <1>6. ClosuresConnected'
    BY <1>1 DEF Accounted, ClosuresConnected, New, TypeOK
  <1>7. UnbornUnused'
    BY <1>1, <1>2, <1>4 DEF Accounted, UnbornUnused, New, TypeOK
  <1>8. ReachableOwned'
    BY <1>2, <1>3 DEF Accounted, ReachableOwned
  <1>9. RefsCounted'
    <2> SUFFICES ASSUME NEW q \in Objects PROVE Used(q)' <= refs'[q]
      BY DEF RefsCounted
    <2>1. CASE q = o
      <3>1. Cardinality(ProxiesOf(o)) = 0 /\ Cardinality(EmissionsOn(o)) = 0
        BY Born, FS_EmptySet DEF New
      <3>2. Cardinality(ProxiesOf(o)') = 1 /\ Cardinality(EmissionsOn(o)') = 0
        BY <1>2, <1>3, <3>1
      <3>3. GtkRefs(o)' + 1 = refs'[o] /\ GtkRefs(o)' \in 0 .. 1
        BY <1>1, <1>4 DEF GtkRefs, TypeOK
      <3>4. QED
        BY <2>1, <3>2, <3>3 DEF Used
    <2>2. CASE q # o
      <3>1. Used(q)' = Used(q) /\ refs'[q] = refs[q]
        BY <1>1, <1>2, <1>3, <1>4, <2>2 DEF Used, GtkRefs, TypeOK
      <3>2. QED
        BY <3>1 DEF Accounted, RefsCounted
    <2>3. QED
      BY <2>1, <2>2
  <1>10. QED
    BY <1>3, <1>5, <1>6, <1>7, <1>8, <1>9 DEF Accounted

LEMMA GetCounts ==
    ASSUME Accounted, NEW o \in Objects, Get(o)
    PROVE  Accounted'
  <1>1. TypeOK
    BY DEF Accounted
  <1>2. /\ NewProxy \in Proxies /\ proxy[NewProxy] = None
        /\ proxy' \in [Proxies -> Objects \union {None}]
        /\ \A p \in Proxies : p # NewProxy => proxy'[p] = proxy[p]
        /\ proxy'[NewProxy] = o /\ o # None
        /\ \A q \in Objects : q # o => ProxiesOf(q)' = ProxiesOf(q)
        /\ Cardinality(ProxiesOf(o)') = Cardinality(ProxiesOf(o)) + 1
    BY <1>1, Userdata DEF Get
  <1>3. /\ CallsCounted' /\ ArgumentsGiven'
        /\ \A q : EmissionsOn(q)' = EmissionsOn(q)
        /\ Reachable' \subseteq Reachable \union {NewProxy}
    BY HandlersAlone DEF Get
  <1>4. TypeOK'
    BY <1>1, <1>2 DEF TypeOK, Get, Values, Nil
  <1>5. ClosuresConnected'
    BY <1>1 DEF Accounted, ClosuresConnected, Get
  <1>6. UnbornUnused'
    BY <1>1, <1>2 DEF Accounted, UnbornUnused, Get
  <1>7. ReachableOwned'
    BY <1>2, <1>3 DEF Accounted, ReachableOwned
  <1>8. RefsCounted'
    <2> SUFFICES ASSUME NEW q \in Objects PROVE Used(q)' <= refs'[q]
      BY DEF RefsCounted
    <2>1. Used(q) <= refs[q] /\ GtkRefs(q)' = GtkRefs(q)
      BY DEF Accounted, RefsCounted, Get, GtkRefs
    <2>2. CASE q = o
      <3>1. refs'[o] = refs[o] + 1
        BY <1>1 DEF Get, TypeOK
      <3>2. QED
        BY <1>1, <1>2, <1>3, <2>1, <2>2, <3>1, UsedIsNat DEF Used
    <2>3. CASE q # o
      BY <1>1, <1>2, <1>3, <2>1, <2>3 DEF Used, Get, TypeOK
    <2>4. QED
      BY <2>2, <2>3
  <1>9. QED
    BY <1>3, <1>4, <1>5, <1>6, <1>7, <1>8 DEF Accounted

LEMMA ForgetCounts ==
    ASSUME Accounted, NEW p \in Proxies, Forget(p)
    PROVE  Accounted'
  <1>1. /\ CallsCounted' /\ ArgumentsGiven'
        /\ \A q : EmissionsOn(q)' = EmissionsOn(q)
        /\ Reachable' \subseteq Reachable \union {}
    BY HandlersAlone DEF Forget
  <1>2. TypeOK'
    BY DEF Accounted, TypeOK, Forget, objVars, Values, Nil
  <1>3. ClosuresConnected' /\ UnbornUnused'
    BY DEF Accounted, ClosuresConnected, UnbornUnused, ProxiesOf, Forget, objVars
  <1>4. ReachableOwned'
    BY <1>1 DEF Accounted, ReachableOwned, Forget
  <1>5. RefsCounted'
    BY <1>1 DEF Accounted, RefsCounted, Used, GtkRefs, ProxiesOf, Forget, objVars
  <1>6. QED
    BY <1>1, <1>2, <1>3, <1>4, <1>5 DEF Accounted

LEMMA PackCounts ==
    ASSUME Accounted, NEW o \in Objects, Pack(o)
    PROVE  Accounted'
  <1>1. TypeOK
    BY DEF Accounted
  <1>2. /\ CallsCounted' /\ ArgumentsGiven'
        /\ \A q : EmissionsOn(q)' = EmissionsOn(q)
        /\ Reachable' \subseteq Reachable \union {}
    BY HandlersAlone DEF Pack, luaVars
  <1>3. TypeOK'
    BY <1>1 DEF TypeOK, Pack, luaVars, Values, Nil
  <1>4. ClosuresConnected' /\ UnbornUnused'
    BY <1>1 DEF Accounted, ClosuresConnected, UnbornUnused, ProxiesOf, Pack, luaVars, TypeOK
  <1>5. ReachableOwned'
    BY <1>2 DEF Accounted, ReachableOwned, Pack, luaVars
  <1>6. RefsCounted'
    <2> SUFFICES ASSUME NEW q \in Objects PROVE Used(q)' <= refs'[q]
      BY DEF RefsCounted
    <2>1. Used(q) <= refs[q] /\ ProxiesOf(q)' = ProxiesOf(q)
      BY DEF Accounted, RefsCounted, Pack, luaVars, ProxiesOf
    <2>2. CASE q = o
      <3>1. refs'[o] = refs[o] + 1 /\ GtkRefs(o)' = 1 /\ GtkRefs(o) = 0
        BY <1>1 DEF Pack, TypeOK, GtkRefs
      <3>2. QED
        BY <1>1, <1>2, <2>1, <2>2, <3>1, UsedIsNat DEF Used
    <2>3. CASE q # o
      BY <1>1, <1>2, <2>1, <2>3 DEF Used, Pack, TypeOK, GtkRefs
    <2>4. QED
      BY <2>2, <2>3
  <1>7. QED
    BY <1>2, <1>3, <1>4, <1>5, <1>6 DEF Accounted

LEMMA CollectThreadCounts ==
    ASSUME Accounted, NEW t, CollectThread(t)
    PROVE  Accounted'
  <1>1. /\ CallsCounted' /\ ArgumentsGiven'
        /\ \A q : EmissionsOn(q)' = EmissionsOn(q)
        /\ Reachable' \subseteq Reachable \union {}
    BY HandlersAlone DEF CollectThread
  <1>2. TypeOK'
    BY DEF Accounted, TypeOK, CollectThread, objVars, Values, Nil
  <1>3. ClosuresConnected' /\ UnbornUnused'
    BY DEF Accounted, ClosuresConnected, UnbornUnused, ProxiesOf, CollectThread, objVars
  <1>4. ReachableOwned'
    BY <1>1 DEF Accounted, ReachableOwned, CollectThread
  <1>5. RefsCounted'
    BY <1>1 DEF Accounted, RefsCounted, Used, GtkRefs, ProxiesOf, CollectThread, objVars
  <1>6. QED
    BY <1>1, <1>2, <1>3, <1>4, <1>5 DEF Accounted

\* What Unref() disposes of is connected.
LEMMA DoomedLive ==
    ASSUME NEW o, NEW n
    PROVE  Doomed(o, n) \subseteq Live /\ HandlersOn(o) \subseteq Live
  BY DEF Doomed, HandlersOn, Attached

LEMMA UnpackCounts ==
    ASSUME Accounted, NEW o \in Objects, Unpack(o)
    PROVE  Accounted'
  <1>1. TypeOK
    BY DEF Accounted
  <1>2. /\ registry' \in [Slots -> Values]
        /\ holder' \in [Holders -> HolderRecord \union {None}]
        /\ captures' \in [Holders -> SUBSET Proxies]
        /\ CallsCounted' /\ ArgumentsGiven'
        /\ \A h \in Holders : holder'[h] # None => holder[h] # None /\ holder'[h].on = holder[h].on
        /\ \A q : EmissionsOn(q)' = EmissionsOn(q)
        /\ Reachable' \subseteq Reachable
    BY DetachedKeeps, DoomedLive DEF Unpack
  <1>3. refs' = [refs EXCEPT ![o] = @ - 1] /\ GtkRefs(o) = 1
    BY DEF Unpack, Unref, GtkRefs
  <1>4. Used(o) <= refs[o] /\ Used(o) >= 1
    BY <1>1, <1>3, UsedIsNat DEF Accounted, RefsCounted, Used
  <1>5. refs' \in [Objects -> Nat] /\ refs'[o] = refs[o] - 1
    BY <1>1, <1>3, <1>4, UsedIsNat DEF TypeOK
  <1>6. TypeOK'
    BY <1>1, <1>2, <1>5 DEF TypeOK, Unpack
  <1>7. ClosuresConnected'
    BY <1>2 DEF Accounted, ClosuresConnected, Unpack, Holders
  <1>8. UnbornUnused'
    BY <1>1 DEF Accounted, UnbornUnused, ProxiesOf, Unpack, TypeOK
  <1>9. ReachableOwned'
    BY <1>2 DEF Accounted, ReachableOwned, Unpack
  <1>10. RefsCounted'
    <2> SUFFICES ASSUME NEW q \in Objects PROVE Used(q)' <= refs'[q]
      BY DEF RefsCounted
    <2>1. Used(q) <= refs[q] /\ ProxiesOf(q)' = ProxiesOf(q)
      BY DEF Accounted, RefsCounted, Unpack, ProxiesOf
    <2>2. CASE q = o
      <3>1. GtkRefs(o)' = 0
        BY <1>1 DEF Unpack, TypeOK, GtkRefs
      <3>2. QED
        BY <1>1, <1>2, <1>3, <1>5, <2>1, <2>2, <3>1, UsedIsNat DEF Used
    <2>3. CASE q # o
      BY <1>1, <1>2, <1>3, <2>1, <2>3 DEF Used, Unpack, TypeOK, GtkRefs
    <2>4. QED
      BY <2>2, <2>3
  <1>11. QED
    BY <1>2, <1>6, <1>7, <1>8, <1>9, <1>10 DEF Accounted

LEMMA DestroyCounts ==
    ASSUME Accounted, NEW o \in Objects, Destroy(o)
    PROVE  Accounted'
  <1>1. TypeOK
    BY DEF Accounted
  <1>2. /\ registry' \in [Slots -> Values]
        /\ holder' \in [Holders -> HolderRecord \union {None}]
        /\ captures' \in [Holders -> SUBSET Proxies]
        /\ CallsCounted' /\ ArgumentsGiven'
        /\ \A h \in Holders : holder'[h] # None => holder[h] # None /\ holder'[h].on = holder[h].on
        /\ \A q : EmissionsOn(q)' = EmissionsOn(q)
        /\ Reachable' \subseteq Reachable
    BY DetachedKeeps, DoomedLive DEF Destroy
  <1>3. refs' = [refs EXCEPT ![o] = @ - GtkRefs(o)] /\ GtkRefs(o)' = 0
    <2>1. GtkRefs(o) = IF gtk[o] THEN 1 ELSE 0
      BY DEF GtkRefs
    <2>2. refs' = [refs EXCEPT ![o] = @ - (IF gtk[o] THEN 1 ELSE 0)]
      BY DEF Destroy, Unref
    <2>3. GtkRefs(o)' = 0
      BY <1>1 DEF Destroy, GtkRefs, TypeOK
    <2>4. QED
      BY <2>1, <2>2, <2>3
  <1>4. Used(o) <= refs[o] /\ Used(o) >= GtkRefs(o)
    BY <1>1, UsedIsNat DEF Accounted, RefsCounted, Used
  <1>5. refs' \in [Objects -> Nat] /\ refs'[o] = refs[o] - GtkRefs(o)
    <2>1. refs[o] - GtkRefs(o) \in Nat
      BY <1>1, <1>4, UsedIsNat
    <2>2. QED
      BY <1>1, <1>3, <2>1 DEF TypeOK
  <1>6. TypeOK'
    BY <1>1, <1>2, <1>5 DEF TypeOK, Destroy
  <1>7. ClosuresConnected'
    BY <1>1, <1>2 DEF Accounted, ClosuresConnected, Destroy, Holders, TypeOK
  <1>8. UnbornUnused'
    BY <1>1 DEF Accounted, UnbornUnused, ProxiesOf, Destroy, TypeOK
  <1>9. ReachableOwned'
    BY <1>2 DEF Accounted, ReachableOwned, Destroy
  <1>10. RefsCounted'
    <2> SUFFICES ASSUME NEW q \in Objects PROVE Used(q)' <= refs'[q]
      BY DEF RefsCounted
    <2>1. Used(q) <= refs[q] /\ ProxiesOf(q)' = ProxiesOf(q)
      BY DEF Accounted, RefsCounted, Destroy, ProxiesOf
    <2>2. CASE q = o
      BY <1>1, <1>2, <1>3, <1>5, <2>1, <2>2, UsedIsNat DEF Used
    <2>3. CASE q # o
      <3>1. GtkRefs(q)' = GtkRefs(q) /\ refs'[q] = refs[q]
        BY <1>1, <1>3, <2>3 DEF Destroy, TypeOK, GtkRefs
      <3>2. QED
        BY <1>2, <2>1, <3>1 DEF Used
    <2>4. QED
      BY <2>2, <2>3
  <1>11. QED
    BY <1>2, <1>6, <1>7, <1>8, <1>9, <1>10 DEF Accounted

LEMMA DisconnectCounts ==
    ASSUME Accounted, NEW h \in Holders, Disconnect(h)
    PROVE  Accounted'
  <1>1. /\ registry' \in [Slots -> Values]
        /\ holder' \in [Holders -> HolderRecord \union {None}]
        /\ captures' \in [Holders -> SUBSET Proxies]
        /\ CallsCounted' /\ ArgumentsGiven'
        /\ \A k \in Holders : holder'[k] # None => holder[k] # None /\ holder'[k].on = holder[k].on
        /\ \A q : EmissionsOn(q)' = EmissionsOn(q)
        /\ Reachable' \subseteq Reachable
    BY DetachedKeeps DEF Disconnect, Attached
  <1>2. TypeOK'
    BY <1>1 DEF Accounted, TypeOK, Disconnect, objVars
  <1>3. ClosuresConnected' /\ UnbornUnused'
    BY <1>1 DEF Accounted, ClosuresConnected, UnbornUnused, ProxiesOf, Disconnect, objVars, Holders
  <1>4. ReachableOwned'
    BY <1>1 DEF Accounted, ReachableOwned, Disconnect
  <1>5. RefsCounted'
    BY <1>1 DEF Accounted, RefsCounted, Used, GtkRefs, ProxiesOf, Disconnect, objVars
  <1>6. QED
    BY <1>1, <1>2, <1>3, <1>4, <1>5 DEF Accounted

LEMMA CollectCounts ==
    ASSUME Accounted, NEW p \in Proxies, NEW o \in Objects, o = proxy[p], Collect(p)
    PROVE  Accounted'
  <1>1. TypeOK
    BY DEF Accounted
  <1>2. /\ registry' \in [Slots -> Values]
        /\ holder' \in [Holders -> HolderRecord \union {None}]
        /\ captures' \in [Holders -> SUBSET Proxies]
        /\ CallsCounted' /\ ArgumentsGiven'
        /\ \A h \in Holders : holder'[h] # None => holder[h] # None /\ holder'[h].on = holder[h].on
        /\ \A q : EmissionsOn(q)' = EmissionsOn(q)
        /\ Reachable' \subseteq Reachable
    BY DetachedKeeps, DoomedLive DEF Collect
  <1>3. refs' = [refs EXCEPT ![o] = @ - 1] /\ proxy' = [proxy EXCEPT ![p] = None]
    BY DEF Collect, Unref
  <1>4. /\ ProxiesOf(o)' = ProxiesOf(o) \ {p} /\ p \in ProxiesOf(o)
        /\ \A q \in Objects : q # o => ProxiesOf(q)' = ProxiesOf(q)
    BY <1>1, <1>3, BindingAssumption DEF ProxiesOf, TypeOK
  <1>5. Cardinality(ProxiesOf(o)') = Cardinality(ProxiesOf(o)) - 1 /\ Cardinality(ProxiesOf(o)) >= 1
    BY <1>1, <1>4, Finite, OneLess, NotEmpty
  <1>6. Used(o) <= refs[o] /\ Used(o) >= 1
    BY <1>1, <1>5, UsedIsNat DEF Accounted, RefsCounted, Used
  <1>7. refs' \in [Objects -> Nat] /\ refs'[o] = refs[o] - 1
    BY <1>1, <1>3, <1>6, UsedIsNat DEF TypeOK
  <1>8. TypeOK'
    BY <1>1, <1>2, <1>3, <1>7 DEF TypeOK, Collect
  <1>9. ClosuresConnected'
    BY <1>2 DEF Accounted, ClosuresConnected, Collect, Holders
  <1>10. UnbornUnused'
    BY <1>1, <1>4 DEF Accounted, UnbornUnused, Collect
  <1>11. ReachableOwned'
    BY <1>1, <1>2, <1>3 DEF Accounted, ReachableOwned, Collect, TypeOK
  <1>12. RefsCounted'
    <2> SUFFICES ASSUME NEW q \in Objects PROVE Used(q)' <= refs'[q]
      BY DEF RefsCounted
    <2>1. Used(q) <= refs[q] /\ GtkRefs(q)' = GtkRefs(q)
      BY DEF Accounted, RefsCounted, Collect, GtkRefs
    <2>2. CASE q = o
      BY <1>1, <1>2, <1>5, <1>7, <2>1, <2>2, UsedIsNat DEF Used
    <2>3. CASE q # o
      BY <1>1, <1>2, <1>3, <1>4, <2>1, <2>3 DEF Used, TypeOK
    <2>4. QED
      BY <2>2, <2>3
  <1>13. QED
    BY <1>2, <1>8, <1>9, <1>10, <1>11, <1>12 DEF Accounted

\* A handler is stored, with what is reachable, at an address and in slots that
\* are free.
LEMMA Stores ==
    ASSUME Accounted, UNCHANGED <<rooted, running>>,
           NEW h \in Holders, holder[h] = None,
           NEW new \in HolderRecord, holder' = [holder EXCEPT ![h] = new],
           NEW obj, obj = Nil \/ \E p \in Reachable : obj = <<"object", p>>,
           NEW args, SlotsLeft, registry' = Stored(h, obj, NewSlots, args),
           NEW up, up \subseteq Reachable, captures' = [captures EXCEPT ![h] = up]
    PROVE  /\ registry' \in [Slots -> Values]
           /\ holder' \in [Holders -> HolderRecord \union {None}]
           /\ captures' \in [Holders -> SUBSET Proxies]
           /\ CallsCounted' /\ ArgumentsGiven'
           /\ \A o : EmissionsOn(o)' = EmissionsOn(o)
           /\ Reachable' \subseteq Reachable
  <1>1. TypeOK /\ CallsCounted
    BY DEF Accounted
  <1>2. Reachable \subseteq Proxies
    BY DEF Accounted, ReachableOwned
  <1> DEFINE data == IF args = "none" THEN Nil ELSE <<"user_data", h>>
  <1>3. obj \in Values /\ <<"function", h>> \in Values /\ data \in Values
    BY <1>2 DEF Values
  <1>4. NewSlots[1] \in Slots /\ NewSlots[2] \in Slots /\ NewSlots[3] \in Slots
    BY <1>1, FreeSlots DEF Free
  <1>5. registry' = [registry EXCEPT ![NewSlots[1]] = obj, ![NewSlots[2]] = <<"function", h>>,
                                     ![NewSlots[3]] = data]
    BY DEF Stored
  <1>6. registry' \in [Slots -> Values]
    <2> HIDE DEF data
    <2> QED
      BY <1>1, <1>3, <1>5 DEF TypeOK
  <1>7. \A s \in Slots : registry'[s] \in {registry[s], obj, <<"function", h>>, data}
    <2> HIDE DEF data
    <2> QED
      BY <1>1, <1>4, <1>5 DEF TypeOK
  <1>8. /\ holder' \in [Holders -> HolderRecord \union {None}]
        /\ captures' \in [Holders -> SUBSET Proxies]
    BY <1>1, <1>2 DEF TypeOK
  <1>9. FramesOf(h) = {}
    BY <1>1 DEF CallsCounted
  <1>10. \A k \in Holders : FramesOf(k) # {} => holder'[k] = holder[k]
    BY <1>1, <1>9 DEF TypeOK
  <1>11. CallsCounted'
    BY <1>1, <1>10, StillCounted DEF CallsCounted
  <1>12. \A o : EmissionsOn(o)' = EmissionsOn(o)
    BY <1>1, <1>10, SameEmissions
  <1>13. Reachable' \subseteq Reachable \union {}
    <2>1. \A s \in Slots, p \in Proxies : registry'[s] = <<"object", p>> => p \in Reachable
      BY <1>1, <1>7, Roots DEF Nil
    <2>2. \A k \in Holders : holder'[k] # None => captures'[k] \subseteq Reachable
      BY <1>1, Roots DEF TypeOK
    <2>3. rooted' \subseteq Reachable /\ \A i \in DOMAIN running' : running'[i].arg \in Reachable \union {None}
      BY <1>1, Roots
    <2>4. QED
      BY <2>1, <2>2, <2>3, OnlyReachable
  <1>14. ArgumentsGiven'
    BY DEF Accounted, ArgumentsGiven
  <1>15. QED
    BY <1>6, <1>8, <1>11, <1>12, <1>13, <1>14

LEMMA ConnectCounts ==
    ASSUME Accounted, NEW h \in Closures, NEW p \in Proxies, NEW t, NEW args, Connect(h, p, t, args)
    PROVE  Accounted'
  <1>1. TypeOK /\ h \in Holders
    BY DEF Accounted, Holders
  <1> DEFINE new == [on |-> proxy[p], thread |-> t, object_ref |-> NewSlots[1],
                     handler_ref |-> NewSlots[2],
                     data_ref |-> IF args = "none" THEN None ELSE NewSlots[3],
                     attached |-> TRUE, calls |-> 0]
  <1>2. proxy[p] \in Objects /\ life[proxy[p]] # "UNBORN"
    BY <1>1 DEF Accounted, Connect, ReachableOwned, UnbornUnused, ProxiesOf, TypeOK
  <1>3. new \in HolderRecord
    <2>1. NewSlots[1] \in Slots /\ NewSlots[2] \in Slots /\ NewSlots[3] \in Slots
      BY <1>1, FreeSlots DEF Free, Connect
    <2>2. t \in Coroutines \union {Main}
      BY <1>1 DEF Connect, TypeOK
    <2>3. QED
      BY <1>2, <2>1, <2>2 DEF HolderRecord
  <1>4. holder' = [holder EXCEPT ![h] = new]
    BY DEF Connect
  <1>5. PICK up : up \subseteq Reachable /\ captures' = [captures EXCEPT ![h] = up]
    BY DEF Connect, Upvalues
  <1>6. /\ registry' \in [Slots -> Values]
        /\ holder' \in [Holders -> HolderRecord \union {None}]
        /\ captures' \in [Holders -> SUBSET Proxies]
        /\ CallsCounted' /\ ArgumentsGiven'
        /\ \A o : EmissionsOn(o)' = EmissionsOn(o)
        /\ Reachable' \subseteq Reachable
    <2>1. registry' = Stored(h, <<"object", p>>, NewSlots, args) /\ p \in Reachable
      BY DEF Connect
    <2> HIDE DEF new
    <2>2. QED
      BY <1>1, <1>3, <1>4, <1>5, <2>1, Stores DEF Connect
  <1>7. TypeOK'
    BY <1>1, <1>6 DEF TypeOK, Connect, objVars
  <1>8. ClosuresConnected'
    BY <1>1, <1>2, <1>4 DEF Accounted, ClosuresConnected, Connect, objVars, TypeOK, Holders
  <1>9. UnbornUnused' /\ ReachableOwned'
    BY <1>6 DEF Accounted, UnbornUnused, ReachableOwned, ProxiesOf, Connect, objVars
  <1>10. RefsCounted'
    BY <1>6 DEF Accounted, RefsCounted, Used, GtkRefs, ProxiesOf, Connect, objVars
  <1>11. QED
    BY <1>6, <1>7, <1>8, <1>9, <1>10 DEF Accounted

LEMMA TimeoutAddCounts ==
    ASSUME Accounted, NEW h \in Sources, NEW t, NEW args, TimeoutAdd(h, t, args)
    PROVE  Accounted'
  <1>1. TypeOK /\ h \in Holders /\ h \notin Closures
    BY BindingAssumption DEF Accounted, Holders
  <1> DEFINE new == [on |-> None, thread |-> t, object_ref |-> None,
                     handler_ref |-> NewSlots[2],
                     data_ref |-> IF args = "none" THEN None ELSE NewSlots[3],
                     attached |-> TRUE, calls |-> 0]
  <1>2. new \in HolderRecord
    <2>1. NewSlots[2] \in Slots /\ NewSlots[3] \in Slots
      BY <1>1, FreeSlots DEF Free, TimeoutAdd
    <2>2. t \in Coroutines \union {Main}
      BY <1>1 DEF TimeoutAdd, TypeOK
    <2>3. QED
      BY <2>1, <2>2 DEF HolderRecord
  <1>3. holder' = [holder EXCEPT ![h] = new]
    BY DEF TimeoutAdd
  <1>4. PICK up : up \subseteq Reachable /\ captures' = [captures EXCEPT ![h] = up]
    BY DEF TimeoutAdd, Upvalues
  <1>5. /\ registry' \in [Slots -> Values]
        /\ holder' \in [Holders -> HolderRecord \union {None}]
        /\ captures' \in [Holders -> SUBSET Proxies]
        /\ CallsCounted' /\ ArgumentsGiven'
        /\ \A o : EmissionsOn(o)' = EmissionsOn(o)
        /\ Reachable' \subseteq Reachable
    <2> DEFINE nothing == Nil
    <2>1. /\ registry' = Stored(h, nothing, NewSlots, args) /\ nothing = Nil
          /\ holder[h] = None /\ SlotsLeft /\ UNCHANGED <<rooted, running>>
      BY DEF TimeoutAdd
    <2> HIDE DEF new, nothing
    <2>2. QED
      BY <1>1, <1>2, <1>3, <1>4, <2>1, Stores
  <1>6. TypeOK'
    BY <1>1, <1>5 DEF TypeOK, TimeoutAdd, objVars
  <1>7. ClosuresConnected'
    BY <1>1, <1>3 DEF Accounted, ClosuresConnected, TimeoutAdd, objVars, TypeOK, Holders
  <1>8. UnbornUnused' /\ ReachableOwned'
    BY <1>5 DEF Accounted, UnbornUnused, ReachableOwned, ProxiesOf, TimeoutAdd, objVars
  <1>9. RefsCounted'
    BY <1>5 DEF Accounted, RefsCounted, Used, GtkRefs, ProxiesOf, TimeoutAdd, objVars
  <1>10. QED
    BY <1>5, <1>6, <1>7, <1>8, <1>9 DEF Accounted

Begun(h, arg) ==
    /\ holder[h] # None
    /\ arg \in Proxies \union {None} /\ (h \in Closures => arg \in Proxies)
    /\ holder' = [holder EXCEPT ![h].calls = holder[h].calls + 1]
    /\ running' = Append(running, [holder |-> h, arg |-> arg])

\* A call of h begins: one frame more, and an emission if h is a closure.
LEMMA Begins ==
    ASSUME Accounted, NEW h \in Holders, NEW arg, Begun(h, arg)
    PROVE  /\ holder' \in [Holders -> HolderRecord \union {None}]
           /\ running' \in Seq(Frame)
           /\ \A k \in Holders : /\ holder'[k] # None => holder[k] # None
                                 /\ holder[k] # None => holder'[k].on = holder[k].on
           /\ CallsCounted' /\ ArgumentsGiven'
           /\ \A i \in DOMAIN running' : running'[i].arg \in Reachable \union {arg} \union {None}
           /\ \A o : h \notin Closures \/ holder[h].on # o => EmissionsOn(o)' = EmissionsOn(o)
           /\ \A o : h \in Closures /\ holder[h].on = o =>
                     Cardinality(EmissionsOn(o)') = Cardinality(EmissionsOn(o)) + 1
  <1> DEFINE n == Len(running) + 1
             calls == holder[h].calls + 1
  <1> USE DEF Begun
  <1>1. TypeOK /\ CallsCounted /\ running \in Seq(Frame)
    BY DEF Accounted, TypeOK, Frame
  <1>2. [holder |-> h, arg |-> arg] \in Frame
    BY DEF Frame
  <1>3. running' \in Seq(Frame) /\ Len(running') = n
    BY <1>1, <1>2, AppendProperties
  <1>4. /\ DOMAIN running = 1 .. Len(running) /\ Len(running) \in Nat
        /\ DOMAIN running' = DOMAIN running \union {n} /\ n \notin DOMAIN running
    BY <1>1, <1>3, RunningFinite
  <1>5. /\ \A i \in DOMAIN running : running'[i] = running[i]
        /\ running'[n] = [holder |-> h, arg |-> arg]
    BY <1>1, <1>2, <1>4, AppendProperties
  <1>6. holder[h] \in HolderRecord /\ holder[h].calls \in Nat
    BY <1>1 DEF TypeOK, HolderRecord
  <1>7. [holder[h] EXCEPT !.calls = calls] \in HolderRecord
    BY <1>6 DEF HolderRecord
  <1>8. holder' \in [Holders -> HolderRecord \union {None}]
    BY <1>1, <1>7 DEF TypeOK
  <1>9. /\ \A k \in Holders : k # h => holder'[k] = holder[k]
        /\ holder'[h] # None /\ holder'[h].on = holder[h].on /\ holder'[h].calls = holder[h].calls + 1
    <2>1. holder'[h] = [holder[h] EXCEPT !.calls = calls]
      BY <1>1 DEF TypeOK
    <2>2. holder'[h] # None
      BY <1>7, <2>1, BindingAssumption
    <2>3. holder'[h].on = holder[h].on /\ holder'[h].calls = holder[h].calls + 1
      BY <1>6, <2>1 DEF HolderRecord
    <2>4. QED
      BY <1>1, <2>2, <2>3 DEF TypeOK
  <1>10. CallsCounted'
    <2> SUFFICES ASSUME NEW k \in Holders, FramesOf(k)' # {}
                 PROVE  holder'[k] # None /\ Cardinality(FramesOf(k)') <= holder'[k].calls
      BY DEF CallsCounted
    <2>1. CASE k = h
      <3>1. FramesOf(h)' = FramesOf(h) \union {n} /\ n \notin FramesOf(h)
        BY <1>4, <1>5 DEF FramesOf
      <3>2. Cardinality(FramesOf(h)') = Cardinality(FramesOf(h)) + 1 /\ Cardinality(FramesOf(h)) \in Nat
        BY <1>1, <3>1, Finite, OneMore
      <3>3. Cardinality(FramesOf(h)) <= holder[h].calls
        <4>1. CASE FramesOf(h) = {}
          BY <1>6, <4>1, FS_EmptySet
        <4>2. CASE FramesOf(h) # {}
          BY <1>1, <4>2 DEF CallsCounted
        <4>3. QED
          BY <4>1, <4>2
      <3>4. QED
        BY <1>6, <1>9, <2>1, <3>2, <3>3
    <2>2. CASE k # h
      <3>1. FramesOf(k)' = FramesOf(k)
        BY <1>4, <1>5, <2>2 DEF FramesOf
      <3>2. QED
        BY <1>1, <1>9, <2>2, <3>1 DEF CallsCounted
    <2>3. QED
      BY <2>1, <2>2
  <1>11. ArgumentsGiven'
    BY <1>4, <1>5 DEF Accounted, ArgumentsGiven
  <1>12. \A i \in DOMAIN running' : running'[i].arg \in Reachable \union {arg} \union {None}
    BY <1>1, <1>4, <1>5, Roots
  <1>13. ASSUME NEW o
         PROVE  /\ h \notin Closures \/ holder[h].on # o => EmissionsOn(o)' = EmissionsOn(o)
                /\ h \in Closures /\ holder[h].on = o =>
                      Cardinality(EmissionsOn(o)') = Cardinality(EmissionsOn(o)) + 1
    <2>1. \A i \in DOMAIN running : holder'[running'[i].holder].on = holder[running[i].holder].on
      <3> TAKE i \in DOMAIN running
      <3>1. running[i].holder \in Holders
        BY <1>1, FrameOf
      <3>2. QED
        BY <1>5, <1>9, <3>1
    <2>2. CASE h \notin Closures \/ holder[h].on # o
      BY <1>4, <1>5, <1>9, <2>1, <2>2 DEF EmissionsOn
    <2>3. CASE h \in Closures /\ holder[h].on = o
      <3>1. EmissionsOn(o)' = EmissionsOn(o) \union {n} /\ n \notin EmissionsOn(o)
        BY <1>4, <1>5, <1>9, <2>1, <2>3 DEF EmissionsOn
      <3>2. QED
        BY <1>1, <2>3, <3>1, Finite, OneMore
    <2>4. QED
      BY <2>2, <2>3
  <1>14. QED
    BY <1>3, <1>8, <1>9, <1>10, <1>11, <1>12, <1>13

LEMMA EmitCounts ==
    ASSUME Accounted, NEW h \in Closures, NEW o, o = holder[h].on, Emit(h)
    PROVE  Accounted'
  <1>1. TypeOK /\ h \in Holders /\ holder[h] # None
    BY DEF Accounted, Emit, Attached, Live
  <1>2. o \in Objects /\ life[o] # "UNBORN"
    BY <1>1 DEF Accounted, ClosuresConnected
  <1>3. proxy' = [proxy EXCEPT ![NewProxy] = o] /\ ProxyLeft
    BY DEF Emit
  <1>4. /\ NewProxy \in Proxies /\ proxy[NewProxy] = None
        /\ proxy' \in [Proxies -> Objects \union {None}]
        /\ \A p \in Proxies : p # NewProxy => proxy'[p] = proxy[p]
        /\ proxy'[NewProxy] = o /\ o # None
        /\ \A q \in Objects : q # o => ProxiesOf(q)' = ProxiesOf(q)
        /\ Cardinality(ProxiesOf(o)') = Cardinality(ProxiesOf(o)) + 1
    BY <1>1, <1>2, <1>3, Userdata
  <1>5. /\ holder' \in [Holders -> HolderRecord \union {None}]
        /\ running' \in Seq(Frame)
        /\ \A k \in Holders : /\ holder'[k] # None => holder[k] # None
                              /\ holder[k] # None => holder'[k].on = holder[k].on
        /\ CallsCounted' /\ ArgumentsGiven'
        /\ \A i \in DOMAIN running' : running'[i].arg \in Reachable \union {NewProxy} \union {None}
        /\ \A q : q # o => EmissionsOn(q)' = EmissionsOn(q)
        /\ Cardinality(EmissionsOn(o)') = Cardinality(EmissionsOn(o)) + 1
    <2>1. Begun(h, NewProxy)
      BY <1>1, <1>4 DEF Emit, Begun
    <2>2. QED
      BY <1>1, <1>4, <2>1, Begins
  <1>6. refs' = [refs EXCEPT ![o] = refs[o] + 1 + 1]
    BY DEF Emit, ParameterRefs
  <1>7. refs' \in [Objects -> Nat] /\ refs'[o] = refs[o] + 2
    BY <1>1, <1>2, <1>6, UsedIsNat DEF TypeOK
  <1>8. Reachable' \subseteq Reachable \union {NewProxy}
    <2>1. /\ rooted' \subseteq Reachable \union {NewProxy}
          /\ \A s \in Slots, p \in Proxies : registry'[s] = <<"object", p>> => p \in Reachable \union {NewProxy}
          /\ \A k \in Holders : holder'[k] # None => captures'[k] \subseteq Reachable \union {NewProxy}
      BY <1>1, <1>5, Roots DEF Emit
    <2>2. QED
      BY <1>5, <2>1, OnlyReachable
  <1>9. TypeOK'
    BY <1>1, <1>4, <1>5, <1>7 DEF TypeOK, Emit, Frame, Values, Nil
  <1>10. ClosuresConnected'
    BY <1>5 DEF Accounted, ClosuresConnected, Emit, Holders
  <1>11. UnbornUnused'
    BY <1>2, <1>4 DEF Accounted, UnbornUnused, Emit
  <1>12. ReachableOwned'
    BY <1>4, <1>8 DEF Accounted, ReachableOwned
  <1>13. RefsCounted'
    <2> SUFFICES ASSUME NEW q \in Objects PROVE Used(q)' <= refs'[q]
      BY DEF RefsCounted
    <2>1. Used(q) <= refs[q] /\ GtkRefs(q)' = GtkRefs(q)
      BY DEF Accounted, RefsCounted, Emit, GtkRefs
    <2>2. CASE q = o
      BY <1>1, <1>4, <1>5, <1>7, <2>1, <2>2, UsedIsNat DEF Used
    <2>3. CASE q # o
      BY <1>1, <1>4, <1>5, <1>6, <2>1, <2>3 DEF Used, TypeOK
    <2>4. QED
      BY <2>2, <2>3
  <1>14. QED
    BY <1>5, <1>9, <1>10, <1>11, <1>12, <1>13 DEF Accounted

LEMMA FireCounts ==
    ASSUME Accounted, NEW h \in Sources, Fire(h)
    PROVE  Accounted'
  <1>1. TypeOK /\ h \in Holders /\ holder[h] # None /\ h \notin Closures
    BY BindingAssumption DEF Accounted, Fire, Attached, Live
  <1>2. /\ holder' \in [Holders -> HolderRecord \union {None}]
        /\ running' \in Seq(Frame)
        /\ \A k \in Holders : /\ holder'[k] # None => holder[k] # None
                              /\ holder[k] # None => holder'[k].on = holder[k].on
        /\ CallsCounted' /\ ArgumentsGiven'
        /\ \A i \in DOMAIN running' : running'[i].arg \in Reachable \union {None}
        /\ \A q : EmissionsOn(q)' = EmissionsOn(q)
    <2>1. holder' = [holder EXCEPT ![h].calls = 1] /\ holder[h].calls + 1 = 1
      BY DEF Fire
    <2>2. Begun(h, None)
      BY <1>1, <2>1 DEF Fire, Begun
    <2>3. QED
      BY <1>1, <2>2, Begins
  <1>3. Reachable' \subseteq Reachable \union {}
    <2>1. /\ rooted' \subseteq Reachable
          /\ \A s \in Slots, p \in Proxies : registry'[s] = <<"object", p>> => p \in Reachable
          /\ \A k \in Holders : holder'[k] # None => captures'[k] \subseteq Reachable
      BY <1>1, <1>2, Roots DEF Fire, luaVars
    <2>2. QED
      BY <1>2, <2>1, OnlyReachable
  <1>4. TypeOK'
    BY <1>1, <1>2 DEF TypeOK, Fire, objVars, luaVars, Frame, Values, Nil
  <1>5. ClosuresConnected'
    BY <1>2 DEF Accounted, ClosuresConnected, Fire, objVars, Holders
  <1>6. UnbornUnused' /\ ReachableOwned'
    BY <1>3 DEF Accounted, UnbornUnused, ReachableOwned, ProxiesOf, Fire, objVars, luaVars
  <1>7. RefsCounted'
    BY <1>2 DEF Accounted, RefsCounted, Used, GtkRefs, ProxiesOf, Fire, objVars, luaVars
  <1>8. QED
    BY <1>2, <1>4, <1>5, <1>6, <1>7 DEF Accounted

\* The innermost frames go, so that n are left.
LEMMA Shorter ==
    ASSUME TypeOK, NEW n \in 0 .. Len(running), running' = SubSeq(running, 1, n)
    PROVE  /\ running' \in Seq(Frame) /\ DOMAIN running' = 1 .. n
           /\ 1 .. n \subseteq DOMAIN running /\ \A i \in 1 .. n : running'[i] = running[i]
           /\ \A h : FramesOf(h)' = FramesOf(h) \intersect 1 .. n
  <1>1. running \in Seq(Frame) /\ DOMAIN running = 1 .. Len(running) /\ Len(running) \in Nat
    BY RunningFinite DEF TypeOK, Frame
  <1>2. \A i \in 1 .. n : running[i] \in Frame
    BY <1>1, ElementOfSeq
  <1>3. /\ running' \in Seq(Frame) /\ Len(running') = n
        /\ \A i \in 1 .. n : running'[i] = running[i]
    BY <1>1, <1>2, SubSeqProperties
  <1>4. DOMAIN running' = 1 .. n /\ 1 .. n \subseteq DOMAIN running
    BY <1>1, <1>3, RunningFinite
  <1>5. \A h : FramesOf(h)' = FramesOf(h) \intersect 1 .. n
    BY <1>3, <1>4 DEF FramesOf
  <1>6. QED
    BY <1>3, <1>4, <1>5

LEMMA ShorterKeeps ==
    ASSUME Accounted, NEW n \in 0 .. Len(running), running' = SubSeq(running, 1, n), CallsCounted',
           \A h \in Holders : holder'[h] # None => holder'[h].on = holder[h].on
    PROVE  /\ ArgumentsGiven'
           /\ \A i \in DOMAIN running' : running'[i].arg \in Reachable \union {None}
           /\ \A o : EmissionsOn(o)' = EmissionsOn(o) \intersect 1 .. n
  <1>1. /\ TypeOK /\ running \in Seq(Frame)
        /\ running' \in Seq(Frame) /\ DOMAIN running' = 1 .. n
        /\ 1 .. n \subseteq DOMAIN running /\ \A i \in 1 .. n : running'[i] = running[i]
    BY Shorter DEF Accounted, TypeOK, Frame
  <1>2. ArgumentsGiven'
    BY <1>1 DEF Accounted, ArgumentsGiven
  <1>3. \A i \in DOMAIN running' : running'[i].arg \in Reachable \union {None}
    BY <1>1, Roots
  <1>4. ASSUME NEW i \in 1 .. n PROVE holder'[running'[i].holder].on = holder[running[i].holder].on
    <2>1. PICK h \in Holders : h = running[i].holder /\ h = running'[i].holder
      BY <1>1, FrameOf
    <2>2. FramesOf(h)' # {}
      BY <1>1, <2>1 DEF FramesOf
    <2>3. holder'[h] # None
      BY <2>2 DEF CallsCounted
    <2>4. QED
      BY <2>1, <2>3
  <1>5. \A o : EmissionsOn(o)' = EmissionsOn(o) \intersect 1 .. n
    BY <1>1, <1>4 DEF EmissionsOn
  <1>6. QED
    BY <1>2, <1>3, <1>5

LEMMA ErrorCounts ==
    ASSUME Accounted, Error
    PROVE  Accounted'
  <1>1. TypeOK /\ CallsCounted /\ UNCHANGED <<objVars, luaVars, holder, captures>>
    BY DEF Accounted, Error
  <1>2. Len(running) \in Nat
    BY <1>1, RunningFinite DEF TypeOK, Frame
  <1>3. PICK n \in 0 .. Len(running) : running' = SubSeq(running, 1, n)
    BY <1>2 DEF Error
  <1>4. running' \in Seq(Frame) /\ \A h : FramesOf(h)' = FramesOf(h) \intersect 1 .. n
    BY <1>1, <1>3, Shorter
  <1>5. CallsCounted'
    <2> SUFFICES ASSUME NEW h \in Holders, FramesOf(h)' # {}
                 PROVE  holder[h] # None /\ Cardinality(FramesOf(h)') <= holder[h].calls
      BY <1>1 DEF CallsCounted
    <2>1. holder[h] # None /\ Cardinality(FramesOf(h)) <= holder[h].calls
      BY <1>1, <1>4 DEF CallsCounted
    <2>2. FramesOf(h)' \in SUBSET FramesOf(h)
      BY <1>4
    <2>3. /\ Cardinality(FramesOf(h)') <= Cardinality(FramesOf(h))
          /\ Cardinality(FramesOf(h)) \in Nat /\ Cardinality(FramesOf(h)') \in Nat
      BY <1>1, <1>4, <2>2, Finite, FramesFiniteAfter, FS_Subset
    <2>4. holder[h].calls \in Nat
      BY <1>1, <2>1 DEF TypeOK, HolderRecord
    <2>5. QED
      BY <2>1, <2>3, <2>4
  <1>6. /\ ArgumentsGiven'
        /\ \A i \in DOMAIN running' : running'[i].arg \in Reachable \union {None}
        /\ \A o : EmissionsOn(o)' = EmissionsOn(o) \intersect 1 .. n
    BY <1>1, <1>3, <1>5, ShorterKeeps
  <1>7. Reachable' \subseteq Reachable \union {}
    <2>1. /\ rooted' \subseteq Reachable
          /\ \A s \in Slots, p \in Proxies : registry'[s] = <<"object", p>> => p \in Reachable
          /\ \A h \in Holders : holder'[h] # None => captures'[h] \subseteq Reachable
      BY <1>1, Roots DEF luaVars
    <2>2. QED
      BY <1>6, <2>1, OnlyReachable
  <1>8. TypeOK'
    <2>1. errors' \in 0 .. MaxErrors
      BY <1>1, BindingAssumption DEF TypeOK, Error
    <2>2. QED
      BY <1>1, <1>4, <2>1 DEF TypeOK, Frame, objVars, luaVars, Values, Nil
  <1>9. ClosuresConnected' /\ UnbornUnused' /\ ReachableOwned'
    BY <1>1, <1>7 DEF Accounted, ClosuresConnected, UnbornUnused, ReachableOwned, ProxiesOf, objVars, luaVars
  <1>10. RefsCounted'
    <2> SUFFICES ASSUME NEW o \in Objects PROVE Used(o)' <= refs[o]
      BY <1>1 DEF RefsCounted, objVars
    <2>1. Used(o) <= refs[o] /\ ProxiesOf(o)' = ProxiesOf(o) /\ GtkRefs(o)' = GtkRefs(o)
      BY <1>1 DEF Accounted, RefsCounted, ProxiesOf, GtkRefs, objVars, luaVars
    <2>2. EmissionsOn(o)' \in SUBSET EmissionsOn(o)
      BY <1>6
    <2>3. Cardinality(EmissionsOn(o)') <= Cardinality(EmissionsOn(o)) /\ Cardinality(EmissionsOn(o)') \in Nat
      BY <1>1, <2>2, Finite, FS_Subset, FS_CardinalityType
    <2>4. QED
      BY <1>1, <2>1, <2>3, UsedIsNat DEF Used
  <1>11. QED
    BY <1>5, <1>6, <1>8, <1>9, <1>10 DEF Accounted

\* The innermost call ends: the handlers count right again, and one emission on
\* o is over if it was that of a closure on o.
Ends(h, hs) ==
    /\ running # << >> /\ h = Top.holder /\ running' = Popped
    /\ Detach(Returned, hs) /\ hs \subseteq Live

LEMMA EndCounts ==
    ASSUME Accounted, NEW h \in Holders, NEW hs, Ends(h, hs), rooted' \subseteq Reachable
    PROVE  /\ registry' \in [Slots -> Values]
           /\ holder' \in [Holders -> HolderRecord \union {None}]
           /\ captures' \in [Holders -> SUBSET Proxies]
           /\ running' \in Seq(Frame)
           /\ CallsCounted' /\ ArgumentsGiven'
           /\ \A k \in Holders : holder'[k] # None => holder[k] # None /\ holder'[k].on = holder[k].on
           /\ Reachable' \subseteq Reachable
           /\ \A o : h \notin Closures \/ holder[h].on # o => EmissionsOn(o)' = EmissionsOn(o)
           /\ \A o : h \in Closures /\ holder[h].on = o =>
                     /\ Cardinality(EmissionsOn(o)') = Cardinality(EmissionsOn(o)) - 1
                     /\ Cardinality(EmissionsOn(o)) >= 1
  <1> USE DEF Ends
  <1> DEFINE n == Len(running)
  <1>1. TypeOK /\ CallsCounted /\ running \in Seq(Frame)
    BY DEF Accounted, TypeOK, Frame
  <1>2. n \in Nat /\ n # 0 /\ DOMAIN running = 1 .. n /\ n \in DOMAIN running
    BY <1>1, RunningFinite, EmptySeq
  <1>3. running' = SubSeq(running, 1, n - 1) /\ n - 1 \in 0 .. Len(running) /\ running[n].holder = h
    BY <1>2 DEF Popped, Top
  <1>4. 1 .. n - 1 = (1 .. n) \ {n}
    BY <1>2
  <1>5. running' \in Seq(Frame) /\ \A k : FramesOf(k)' = FramesOf(k) \intersect 1 .. n - 1
    BY <1>1, <1>3, Shorter
  <1>6. n \in FramesOf(h) /\ holder[h] # None /\ Cardinality(FramesOf(h)) <= holder[h].calls
    BY <1>1, <1>2, <1>3 DEF FramesOf, CallsCounted
  <1>7. holder[h] \in HolderRecord /\ holder[h].calls \in Nat /\ holder[h].calls >= 1
    <2>1. holder[h] \in HolderRecord /\ holder[h].calls \in Nat
      BY <1>1, <1>6 DEF TypeOK, HolderRecord
    <2>2. Cardinality(FramesOf(h)) >= 1 /\ Cardinality(FramesOf(h)) \in Nat
      BY <1>1, <1>6, Finite, NotEmpty
    <2>3. QED
      BY <1>6, <2>1, <2>2
  <1> DEFINE hd == [holder EXCEPT ![h].calls = holder[h].calls - 1]
  <1>8. Returned = hd
    BY DEF Returned
  <1>9. /\ hd \in [Holders -> HolderRecord \union {None}]
        /\ \A k \in Holders : k # h => hd[k] = holder[k]
        /\ hd[h] # None /\ hd[h].on = holder[h].on /\ hd[h].calls = holder[h].calls - 1
    <2> DEFINE new == [holder[h] EXCEPT !.calls = holder[h].calls - 1]
    <2>1. /\ new \in HolderRecord /\ new.on = holder[h].on /\ new.calls = holder[h].calls - 1
      BY <1>7 DEF HolderRecord
    <2>2. hd = [holder EXCEPT ![h] = new]
      BY <1>1 DEF TypeOK
    <2>3. new # None
      BY <2>1, BindingAssumption
    <2> HIDE DEF new, hd
    <2>4. QED
      BY <1>1, <2>1, <2>2, <2>3 DEF TypeOK
  <1>10. Counted(hd)
    <2> SUFFICES ASSUME NEW k \in Holders, FramesOf(k)' # {}
                 PROVE  hd[k] # None /\ Cardinality(FramesOf(k)') <= hd[k].calls
      <3> HIDE DEF hd
      <3> QED
        BY <1>5, <1>6, <1>9 DEF Counted
    <2>1. CASE k = h
      <3>1. FramesOf(h)' = FramesOf(h) \ {n}
        <4>1. FramesOf(h) \subseteq 1 .. n
          BY <1>2 DEF FramesOf
        <4> HIDE DEF n
        <4>2. FramesOf(h)' = FramesOf(h) \intersect ((1 .. n) \ {n})
          BY <1>5, <1>4
        <4>3. QED
          BY <4>1, <4>2
      <3>2. Cardinality(FramesOf(h)') = Cardinality(FramesOf(h)) - 1 /\ Cardinality(FramesOf(h)) \in Nat
        BY <1>1, <1>6, <3>1, Finite, OneLess
      <3> HIDE DEF hd
      <3>3. QED
        BY <1>6, <1>7, <1>9, <2>1, <3>2
    <2>2. CASE k # h
      <3>1. FramesOf(k)' = FramesOf(k)
        BY <1>2, <1>3, <1>5, <2>2 DEF FramesOf
      <3> HIDE DEF hd
      <3>2. QED
        BY <1>1, <1>9, <2>2, <3>1 DEF CallsCounted
    <2>3. QED
      BY <2>1, <2>2
  <1>11. /\ registry' \in [Slots -> Values]
         /\ holder' \in [Holders -> HolderRecord \union {None}]
         /\ captures' \in [Holders -> SUBSET Proxies]
         /\ \A s \in Slots : registry'[s] \in {registry[s], Nil}
         /\ \A k \in Holders : holder'[k] # None =>
              /\ holder[k] # None /\ holder'[k].on = holder[k].on
              /\ captures'[k] = captures[k]
         /\ CallsCounted'
    <2>1. hs \subseteq Holders /\ \A k \in hs : holder[k] # None
      BY DEF Live
    <2>2. Detach(hd, hs)
      BY <1>8
    <2>3. \A k \in hs : hd[k] # None
      <3> HIDE DEF hd
      <3> QED
        BY <1>9, <2>1
    <2> HIDE DEF hd
    <2>4. QED
      BY <1>1, <1>10, <2>1, <2>2, <2>3, Detached
  <1>12. /\ ArgumentsGiven'
         /\ \A i \in DOMAIN running' : running'[i].arg \in Reachable \union {None}
         /\ \A o : EmissionsOn(o)' = EmissionsOn(o) \intersect 1 .. n - 1
    BY <1>3, <1>11, ShorterKeeps
  <1>13. Reachable' \subseteq Reachable \union {}
    <2>1. \A s \in Slots, p \in Proxies : registry'[s] = <<"object", p>> => p \in Reachable
      BY <1>1, <1>11, Roots DEF Nil
    <2>2. \A k \in Holders : holder'[k] # None => captures'[k] \subseteq Reachable
      BY <1>1, <1>11, Roots
    <2>3. QED
      BY <1>12, <2>1, <2>2, OnlyReachable
  <1>14. ASSUME NEW o PROVE EmissionsOn(o)' = EmissionsOn(o) \ {n}
    <2>1. EmissionsOn(o) \subseteq 1 .. n
      BY <1>2 DEF EmissionsOn
    <2> HIDE DEF n
    <2>2. EmissionsOn(o)' = EmissionsOn(o) \intersect ((1 .. n) \ {n})
      BY <1>12, <1>4
    <2>3. QED
      BY <2>1, <2>2
  <1>15. ASSUME NEW o, h \notin Closures \/ holder[h].on # o PROVE EmissionsOn(o)' = EmissionsOn(o)
    <2>1. n \notin EmissionsOn(o)
      BY <1>3, <1>15 DEF EmissionsOn
    <2>2. QED
      BY <1>14, <2>1
  <1>16. ASSUME NEW o, h \in Closures, holder[h].on = o
         PROVE  /\ Cardinality(EmissionsOn(o)') = Cardinality(EmissionsOn(o)) - 1
                /\ Cardinality(EmissionsOn(o)) >= 1
    <2>1. n \in EmissionsOn(o)
      BY <1>2, <1>3, <1>16 DEF EmissionsOn
    <2>2. QED
      BY <1>1, <1>14, <2>1, Finite, OneLess, NotEmpty
  <1>17. QED
    BY <1>5, <1>11, <1>12, <1>13, <1>15, <1>16

LEMMA ReturnFromClosureCounts ==
    ASSUME Accounted, NEW h \in Closures, NEW o, h = Top.holder, o = holder[h].on, ReturnFromClosure
    PROVE  Accounted'
  <1>1. TypeOK /\ CallsCounted /\ ArgumentsGiven /\ h \in Holders
    BY DEF Accounted, Holders
  <1>2. Len(running) \in DOMAIN running /\ running[Len(running)].holder = h
    <2>1. running \in Seq(Frame) /\ running # << >>
      BY <1>1 DEF TypeOK, Frame, ReturnFromClosure
    <2>2. QED
      BY <2>1, RunningFinite, EmptySeq DEF Top
  <1>3. holder[h] # None /\ h \in Live
    <2>1. FramesOf(h) # {}
      BY <1>2 DEF FramesOf
    <2>2. QED
      BY <1>1, <2>1 DEF CallsCounted, Live
  <1>4. o \in Objects
    BY <1>3 DEF Accounted, ClosuresConnected
  <1>5. rooted' \subseteq Reachable
    <2>1. Top.arg \in Reachable
      <3>1. running[Len(running)].arg \in Proxies
        BY <1>1, <1>2 DEF ArgumentsGiven
      <3>2. running[Len(running)].arg \in Reachable \union {None}
        BY <1>1, <1>2, Roots
      <3>3. QED
        BY <3>1, <3>2, BindingAssumption DEF Top
    <2>2. QED
      BY <1>1, <2>1, Roots DEF ReturnFromClosure
  <1>6. PICK hs : Ends(h, hs)
    <2>1. Ends(h, Doomed(o, 1) \union (IF holder[h].attached THEN {} ELSE {h}))
      BY <1>3, DoomedLive DEF ReturnFromClosure, Ends
    <2>2. QED
      BY <2>1
  <1>7. /\ registry' \in [Slots -> Values]
        /\ holder' \in [Holders -> HolderRecord \union {None}]
        /\ captures' \in [Holders -> SUBSET Proxies]
        /\ running' \in Seq(Frame)
        /\ CallsCounted' /\ ArgumentsGiven'
        /\ \A k \in Holders : holder'[k] # None => holder[k] # None /\ holder'[k].on = holder[k].on
        /\ Reachable' \subseteq Reachable
        /\ \A q : q # o => EmissionsOn(q)' = EmissionsOn(q)
        /\ Cardinality(EmissionsOn(o)') = Cardinality(EmissionsOn(o)) - 1
        /\ Cardinality(EmissionsOn(o)) >= 1
    BY <1>1, <1>5, <1>6, EndCounts
  <1>8. refs' = [refs EXCEPT ![o] = @ - 1]
    BY DEF ReturnFromClosure, Unref
  <1>9. Used(o) <= refs[o] /\ Used(o) >= 1
    BY <1>1, <1>4, <1>7, UsedIsNat DEF Accounted, RefsCounted, Used
  <1>10. refs' \in [Objects -> Nat] /\ refs'[o] = refs[o] - 1
    BY <1>1, <1>4, <1>8, <1>9, UsedIsNat DEF TypeOK
  <1>11. TypeOK'
    <2>1. rooted' \subseteq Proxies
      BY <1>5 DEF Accounted, ReachableOwned
    <2>2. QED
      BY <1>1, <1>7, <1>10, <2>1 DEF TypeOK, ReturnFromClosure, Frame
  <1>12. ClosuresConnected'
    BY <1>7 DEF Accounted, ClosuresConnected, ReturnFromClosure, Holders
  <1>13. UnbornUnused' /\ ReachableOwned'
    BY <1>7 DEF Accounted, UnbornUnused, ReachableOwned, ProxiesOf, ReturnFromClosure
  <1>14. RefsCounted'
    <2> SUFFICES ASSUME NEW q \in Objects PROVE Used(q)' <= refs'[q]
      BY DEF RefsCounted
    <2>1. Used(q) <= refs[q] /\ GtkRefs(q)' = GtkRefs(q) /\ ProxiesOf(q)' = ProxiesOf(q)
      BY DEF Accounted, RefsCounted, ReturnFromClosure, GtkRefs, ProxiesOf
    <2>2. CASE q = o
      <3>1. Used(o)' = Used(o) - 1
        BY <1>1, <1>4, <1>7, <2>1, <2>2, UsedIsNat DEF Used
      <3>2. QED
        BY <1>1, <1>4, <1>10, <2>1, <2>2, <3>1, UsedIsNat
    <2>3. CASE q # o
      BY <1>1, <1>7, <1>8, <2>1, <2>3 DEF Used, TypeOK
    <2>4. QED
      BY <2>2, <2>3
  <1>15. QED
    BY <1>7, <1>11, <1>12, <1>13, <1>14 DEF Accounted

LEMMA ReturnFromSourceCounts ==
    ASSUME Accounted, NEW h \in Sources, h = Top.holder, ReturnFromSource
    PROVE  Accounted'
  <1>1. TypeOK /\ CallsCounted /\ h \in Holders /\ h \notin Closures
    BY BindingAssumption DEF Accounted, Holders
  <1>2. Len(running) \in DOMAIN running /\ running[Len(running)].holder = h
    <2>1. running \in Seq(Frame) /\ running # << >>
      BY <1>1 DEF TypeOK, Frame, ReturnFromSource
    <2>2. QED
      BY <2>1, RunningFinite, EmptySeq DEF Top
  <1>3. h \in Live
    <2>1. FramesOf(h) # {}
      BY <1>2 DEF FramesOf
    <2>2. QED
      BY <1>1, <2>1 DEF CallsCounted, Live
  <1>4. PICK hs : Ends(h, hs)
    <2>1. PICK again \in BOOLEAN :
            Detach(Returned, IF again /\ holder[h].attached THEN {} ELSE {h})
      BY DEF ReturnFromSource
    <2>2. Ends(h, IF again /\ holder[h].attached THEN {} ELSE {h})
      BY <1>3, <2>1 DEF ReturnFromSource, Ends
    <2>3. QED
      BY <2>2
  <1>5. rooted' \subseteq Reachable
    BY <1>1, Roots DEF ReturnFromSource
  <1>6. /\ registry' \in [Slots -> Values]
        /\ holder' \in [Holders -> HolderRecord \union {None}]
        /\ captures' \in [Holders -> SUBSET Proxies]
        /\ running' \in Seq(Frame)
        /\ CallsCounted' /\ ArgumentsGiven'
        /\ \A k \in Holders : holder'[k] # None => holder[k] # None /\ holder'[k].on = holder[k].on
        /\ Reachable' \subseteq Reachable
        /\ \A o : EmissionsOn(o)' = EmissionsOn(o)
    BY <1>1, <1>4, <1>5, EndCounts
  <1>7. TypeOK'
    BY <1>1, <1>6 DEF TypeOK, ReturnFromSource, Frame, objVars
  <1>8. ClosuresConnected' /\ UnbornUnused' /\ ReachableOwned'
    BY <1>6 DEF Accounted, ClosuresConnected, UnbornUnused, ReachableOwned, ProxiesOf,
                ReturnFromSource, Holders, objVars
  <1>9. RefsCounted'
    BY <1>6 DEF Accounted, RefsCounted, Used, GtkRefs, ProxiesOf, ReturnFromSource, objVars
  <1>10. QED
    BY <1>6, <1>7, <1>8, <1>9 DEF Accounted

----------------------------------------------------------------------------
(* The invariant.                                                          *)

LEMMA InitCounts == Init => Accounted
  <1> SUFFICES ASSUME Init PROVE Accounted
    OBVIOUS
  <1>1. /\ DOMAIN running = {} /\ Reachable = {}
        /\ \A o \in Objects : ProxiesOf(o) = {}
        /\ \A o : EmissionsOn(o) = {} /\ \A h : FramesOf(h) = {}
    <2>1. DOMAIN running = {}
      BY DEF Init
    <2>2. Reachable = {}
      BY <2>1 DEF Init, Reachable, Live, Nil
    <2>3. \A o \in Objects : ProxiesOf(o) = {}
      BY BindingAssumption DEF Init, ProxiesOf
    <2>4. \A o : EmissionsOn(o) = {}
      BY <2>1 DEF EmissionsOn
    <2>5. \A h : FramesOf(h) = {}
      BY <2>1 DEF FramesOf
    <2>6. QED
      BY <2>1, <2>2, <2>3, <2>4, <2>5
  <1>2. TypeOK
    <2>1. errors \in 0 .. MaxErrors
      BY BindingAssumption DEF Init
    <2>2. QED
      BY <2>1 DEF Init, TypeOK, Values
  <1>3. ClosuresConnected /\ UnbornUnused /\ ArgumentsGiven /\ ReachableOwned /\ CallsCounted
    BY <1>1 DEF Init, ClosuresConnected, UnbornUnused, ArgumentsGiven, ReachableOwned,
                CallsCounted, Holders
  <1>4. RefsCounted
    <2> SUFFICES ASSUME NEW o \in Objects PROVE Used(o) <= refs[o]
      BY DEF RefsCounted
    <2>1. GtkRefs(o) = 0 /\ refs[o] = 0
      BY DEF Init, GtkRefs
    <2>2. Cardinality(ProxiesOf(o)) = 0 /\ Cardinality(EmissionsOn(o)) = 0
      BY <1>1, FS_EmptySet
    <2>3. QED
      BY <2>1, <2>2 DEF Used
  <1>5. QED
    BY <1>2, <1>3, <1>4 DEF Accounted

LEMMA NextCounts == Accounted /\ [Next]_vars => Accounted'
  <1> SUFFICES ASSUME Accounted, [Next]_vars PROVE Accounted'
    OBVIOUS
  <1>1. ASSUME NEW o \in Objects, New(o) PROVE Accounted'
    BY <1>1, NewCounts
  <1>2. ASSUME NEW o \in Objects, Get(o) PROVE Accounted'
    BY <1>2, GetCounts
  <1>3. ASSUME NEW o \in Objects, Pack(o) PROVE Accounted'
    BY <1>3, PackCounts
  <1>4. ASSUME NEW o \in Objects, Unpack(o) PROVE Accounted'
    BY <1>4, UnpackCounts
  <1>5. ASSUME NEW o \in Objects, Destroy(o) PROVE Accounted'
    BY <1>5, DestroyCounts
  <1>6. ASSUME NEW p \in Proxies, Forget(p) PROVE Accounted'
    BY <1>6, ForgetCounts
  <1>7. ASSUME NEW t \in Coroutines \union {Main}, NEW args \in Arguments,
               NEW h \in Closures, NEW p \in Proxies, Connect(h, p, t, args)
        PROVE  Accounted'
    BY <1>7, ConnectCounts
  <1>8. ASSUME NEW t \in Coroutines \union {Main}, NEW args \in Arguments,
               NEW h \in Sources, TimeoutAdd(h, t, args)
        PROVE  Accounted'
    BY <1>8, TimeoutAddCounts
  <1>9. ASSUME NEW h \in Holders, Disconnect(h) PROVE Accounted'
    BY <1>9, DisconnectCounts
  <1>10. ASSUME NEW h \in Closures, Emit(h) PROVE Accounted'
    BY <1>10, EmitCounts
  <1>11. ASSUME NEW h \in Sources, Fire(h) PROVE Accounted'
    BY <1>11, FireCounts
  <1>12. ASSUME ReturnFromClosure PROVE Accounted'
    <2>1. Top.holder \in Closures
      BY <1>12 DEF ReturnFromClosure
    <2>2. QED
      BY <1>12, <2>1, ReturnFromClosureCounts
  <1>13. ASSUME ReturnFromSource PROVE Accounted'
    <2>1. Top.holder \in Sources
      BY <1>13 DEF ReturnFromSource
    <2>2. QED
      BY <1>13, <2>1, ReturnFromSourceCounts
  <1>14. CASE Error
    BY <1>14, ErrorCounts
  <1>15. ASSUME NEW p \in Proxies, Collect(p) PROVE Accounted'
    <2>1. proxy[p] \in Objects
      BY <1>15 DEF Accounted, TypeOK, Collect
    <2>2. QED
      BY <1>15, <2>1, CollectCounts
  <1>16. ASSUME NEW t \in Coroutines, CollectThread(t) PROVE Accounted'
    BY <1>16, CollectThreadCounts
  <1>17. CASE UNCHANGED vars
    <2>1. TypeOK'
      BY <1>17 DEF Accounted, TypeOK, vars, objVars, luaVars, Values, Nil
    <2>2. /\ \A o : EmissionsOn(o)' = EmissionsOn(o) /\ Used(o)' = Used(o) /\ ProxiesOf(o)' = ProxiesOf(o)
          /\ \A h : FramesOf(h)' = FramesOf(h)
          /\ Reachable' = Reachable
      BY <1>17 DEF EmissionsOn, Used, ProxiesOf, FramesOf, GtkRefs, Reachable, Live,
                   vars, objVars, luaVars
    <2>3. QED
      BY <1>17, <2>1, <2>2 DEF Accounted, ClosuresConnected, UnbornUnused, ArgumentsGiven,
                ReachableOwned, CallsCounted, RefsCounted, vars, objVars, luaVars
  <1>18. QED
    BY <1>1, <1>2, <1>3, <1>4, <1>5, <1>6, <1>7, <1>8, <1>9, <1>10, <1>11, <1>12, <1>13, <1>14,
       <1>15, <1>16, <1>17 DEF Next, ProgramStep, LoopStep, Return, Gc

\* Every object has a reference for each of its userdata, for GTK+'s hold on it
\* and for each emission under way on it: what the constructors, the getters,
\* ygtk_closure_marshal(), ygtk__gc() and GTK+ take and give back balances,
\* whatever the order, and errors that leave handlers only add to it.
THEOREM ReferencesAccounted == Spec => []Accounted
  <1>1. Init => Accounted
    BY InitCounts
  <1>2. Accounted /\ [Next]_vars => Accounted'
    BY NextCounts
  <1>3. QED
    BY <1>1, <1>2, PTL DEF Spec

\* The state has its type.
THEOREM TypeCorrect == Spec => []TypeOK
  <1>1. Accounted => TypeOK
    BY DEF Accounted
  <1>2. QED
    BY <1>1, ReferencesAccounted, PTL

LEMMA NoneDangles == Accounted => NoDanglingProxy
  <1> SUFFICES ASSUME Accounted, NEW p \in Proxies, proxy[p] # None PROVE refs[proxy[p]] > 0
    BY DEF NoDanglingProxy
  <1>1. PICK o \in Objects : o = proxy[p]
    BY DEF Accounted, TypeOK
  <1>2. p \in ProxiesOf(o)
    BY <1>1 DEF ProxiesOf
  <1>3. Cardinality(ProxiesOf(o)) >= 1
    BY <1>2, Finite, NotEmpty DEF Accounted
  <1>4. Used(o) <= refs[o] /\ Used(o) >= 1
    BY <1>3, UsedIsNat DEF Accounted, RefsCounted, Used
  <1>5. QED
    BY <1>1, <1>4, UsedIsNat DEF Accounted

\* No userdata of Lua, nor one that waits for its __gc, names an object that
\* has been finalized, however many handlers, objects and coroutines there are.
THEOREM NoDangling == Spec => []NoDanglingProxy
  BY NoneDangles, ReferencesAccounted, PTL

----------------------------------------------------------------------------
(* The registry.  That a slot belongs to one holder only keeps those of    *)
(* others whole when it is detached; that its values are what was put      *)
(* there keeps the slots of those that are connected apart.                *)

Registered ==
    /\ \A h \in Holders : holder[h] # None =>
          registry[holder[h].handler_ref] = <<"function", h>>
    /\ \A h \in Holders : holder[h] # None /\ holder[h].data_ref # None =>
          registry[holder[h].data_ref] = <<"user_data", h>>
    /\ \A h \in Closures : holder[h] # None =>
          /\ holder[h].object_ref \in Slots
          /\ \E p \in Proxies : /\ registry[holder[h].object_ref] = <<"object", p>>
                                /\ proxy[p] = holder[h].on
    /\ \A h \in Sources : holder[h] # None => holder[h].object_ref = None /\ holder[h].on = None
    /\ \A s \in Slots : registry[s] # Nil => \E h \in Holders : holder[h] # None /\ Owns(h, s)
    /\ \A h, g \in Holders : \A s \in Slots :
          holder[h] # None /\ holder[g] # None /\ Owns(h, s) /\ Owns(g, s) => h = g

\* Handlers that are as they were but for their calls and whether they are
\* attached.
SameButCalls(hd) ==
    /\ hd \in [Holders -> HolderRecord \union {None}]
    /\ \A h \in Holders : hd[h] # None <=> holder[h] # None
    /\ \A h \in Holders : hd[h] # None =>
          /\ hd[h].on = holder[h].on /\ hd[h].object_ref = holder[h].object_ref
          /\ hd[h].handler_ref = holder[h].handler_ref /\ hd[h].data_ref = holder[h].data_ref

\* The userdata in the registry remain what they are.
RegistryKept ==
    \A p \in Proxies : (\E s \in Slots : registry[s] = <<"object", p>>) => proxy'[p] = proxy[p]

LEMMA BelongsMeans == TypeOK /\ Registered => RegistryBelongs
  BY DEF Registered, RegistryBelongs, Live, Free, Holders

LEMMA RefTypes ==
    ASSUME TypeOK, NEW h \in Holders, holder[h] # None
    PROVE  /\ holder[h] \in HolderRecord /\ holder[h].handler_ref \in Slots
           /\ holder[h].data_ref \in Slots \union {None}
           /\ holder[h].object_ref \in Slots \union {None}
           /\ None \notin Slots
  <1>1. holder[h] \in HolderRecord /\ None \notin Slots
    BY BindingAssumption DEF TypeOK
  <1>2. QED
    BY <1>1 DEF HolderRecord

LEMMA OwnedNotFree ==
    ASSUME TypeOK, Registered, NEW h \in Holders, holder[h] # None, NEW s \in Slots, Owns(h, s)
    PROVE  registry[s] # Nil
  <1>1. s # None
    BY RefTypes
  <1>2. CASE s = holder[h].handler_ref
    BY <1>2 DEF Registered, Nil
  <1>3. CASE s = holder[h].data_ref
    BY <1>1, <1>3 DEF Registered, Nil
  <1>4. CASE s = holder[h].object_ref
    <2>1. h \in Closures
      BY <1>1, <1>4 DEF Registered, Holders
    <2>2. PICK p \in Proxies : registry[s] = <<"object", p>>
      BY <1>4, <2>1 DEF Registered
    <2>3. QED
      BY <2>2 DEF Nil
  <1>5. QED
    BY <1>2, <1>3, <1>4 DEF Owns

\* The registry is let alone.
LEMMA RegistryAlone ==
    ASSUME TypeOK, Registered, SameButCalls(holder'), registry' = registry, RegistryKept
    PROVE  Registered'
  <1>1. ASSUME NEW h \in Holders, holder'[h] # None
        PROVE  /\ holder[h] # None
               /\ holder'[h].on = holder[h].on /\ holder'[h].object_ref = holder[h].object_ref
               /\ holder'[h].handler_ref = holder[h].handler_ref
               /\ holder'[h].data_ref = holder[h].data_ref
               /\ \A s : Owns(h, s)' <=> Owns(h, s)
    BY <1>1 DEF SameButCalls, Owns
  <1>2. \A h \in Holders : holder[h] # None => holder'[h] # None
    BY DEF SameButCalls
  <1>3. \A h \in Holders : holder'[h] # None =>
          registry'[holder'[h].handler_ref] = <<"function", h>>
    BY <1>1 DEF Registered
  <1>4. \A h \in Holders : holder'[h] # None /\ holder'[h].data_ref # None =>
          registry'[holder'[h].data_ref] = <<"user_data", h>>
    BY <1>1 DEF Registered
  <1>5. ASSUME NEW h \in Closures, holder'[h] # None
        PROVE  /\ holder'[h].object_ref \in Slots
               /\ \E p \in Proxies : /\ registry'[holder'[h].object_ref] = <<"object", p>>
                                     /\ proxy'[p] = holder'[h].on
    <2>1. h \in Holders
      BY DEF Holders
    <2>2. holder[h].object_ref \in Slots
      BY <1>1, <1>5, <2>1 DEF Registered
    <2>3. PICK p \in Proxies : registry[holder[h].object_ref] = <<"object", p>> /\ proxy[p] = holder[h].on
      BY <1>1, <1>5, <2>1 DEF Registered
    <2>4. proxy'[p] = proxy[p]
      BY <2>2, <2>3 DEF RegistryKept
    <2>5. QED
      BY <1>1, <1>5, <2>1, <2>2, <2>3, <2>4
  <1>6. \A h \in Sources : holder'[h] # None => holder'[h].object_ref = None /\ holder'[h].on = None
    BY <1>1 DEF Registered, Holders
  <1>7. \A s \in Slots : registry'[s] # Nil => \E h \in Holders : holder'[h] # None /\ Owns(h, s)'
    BY <1>1, <1>2 DEF Registered
  <1>8. \A h, g \in Holders : \A s \in Slots :
          holder'[h] # None /\ holder'[g] # None /\ Owns(h, s)' /\ Owns(g, s)' => h = g
    BY <1>1 DEF Registered
  <1>9. QED
    BY <1>3, <1>4, <1>5, <1>6, <1>7, <1>8 DEF Registered, Nil

\* Handlers are detached: the slots that are freed are those of what is gone,
\* and of nothing else.
LEMMA DetachKeepsRegistered ==
    ASSUME TypeOK, Registered, NEW hd, SameButCalls(hd), NEW hs, hs \subseteq Live,
           Detach(hd, hs), RegistryKept
    PROVE  Registered'
  <1> DEFINE gone == {h \in hs : hd[h].calls = 0}
  <1>1. \A s \in Slots : registry'[s] = IF \E h \in gone : s \in SlotsOf(h) THEN Nil ELSE registry[s]
    BY DEF Detach
  <1>2. ASSUME NEW h \in Holders
        PROVE  holder'[h] = IF h \in gone THEN None
                            ELSE IF h \in hs THEN [hd[h] EXCEPT !.attached = FALSE] ELSE hd[h]
    BY DEF Detach
  <1>3. gone \subseteq hs /\ gone \subseteq Holders /\ \A h \in gone : holder[h] # None
    BY DEF Live
  <1> HIDE DEF gone
  <1>4. ASSUME NEW h \in Holders, holder[h] # None, h \notin gone
        PROVE  holder'[h] # None
    <2>1. hd[h] \in HolderRecord
      BY <1>4 DEF SameButCalls
    <2>2. [hd[h] EXCEPT !.attached = FALSE] \in HolderRecord
      BY <2>1 DEF HolderRecord
    <2>3. QED
      BY <1>2, <1>4, <2>1, <2>2, BindingAssumption
  <1>5. ASSUME NEW h \in Holders, holder'[h] # None
        PROVE  /\ h \notin gone /\ holder[h] # None
               /\ holder'[h].on = holder[h].on /\ holder'[h].object_ref = holder[h].object_ref
               /\ holder'[h].handler_ref = holder[h].handler_ref
               /\ holder'[h].data_ref = holder[h].data_ref
    <2>1. h \notin gone
      BY <1>2, <1>5
    <2>2. hd[h] # None
      <3>1. CASE h \in hs
        BY <3>1 DEF Live, SameButCalls
      <3>2. CASE h \notin hs
        BY <1>2, <1>5, <2>1, <3>2
      <3>3. QED
        BY <3>1, <3>2
    <2>3. hd[h] \in HolderRecord
      BY <2>2 DEF SameButCalls
    <2>4. /\ holder'[h].on = hd[h].on /\ holder'[h].object_ref = hd[h].object_ref
          /\ holder'[h].handler_ref = hd[h].handler_ref /\ holder'[h].data_ref = hd[h].data_ref
      BY <1>2, <2>1, <2>3 DEF HolderRecord
    <2>5. QED
      BY <2>1, <2>2, <2>4 DEF SameButCalls
  <1>6. ASSUME NEW h \in Holders, holder'[h] # None
        PROVE  \A s : Owns(h, s)' <=> Owns(h, s)
    BY <1>5, <1>6 DEF Owns
  <1>7. ASSUME NEW h \in Holders, holder'[h] # None, NEW s \in Slots, Owns(h, s)
        PROVE  registry'[s] = registry[s]
    <2>1. ASSUME NEW g \in gone, s \in SlotsOf(g) PROVE FALSE
      <3>1. Owns(g, s) /\ g \in Holders /\ holder[g] # None
        BY <1>3, <2>1 DEF SlotsOf, Owns
      <3>2. holder[h] # None /\ h \notin gone
        BY <1>5, <1>7
      <3>3. h = g
        BY <1>7, <3>1, <3>2 DEF Registered
      <3>4. QED
        BY <3>2, <3>3
    <2>2. QED
      BY <1>1, <2>1
  <1>8. ASSUME NEW h \in Holders, holder'[h] # None
        PROVE  registry'[holder'[h].handler_ref] = <<"function", h>>
    <2>1. holder[h].handler_ref \in Slots /\ Owns(h, holder[h].handler_ref)
      BY <1>5, <1>8, RefTypes DEF Owns
    <2>2. QED
      BY <1>5, <1>7, <1>8, <2>1 DEF Registered
  <1>9. ASSUME NEW h \in Holders, holder'[h] # None, holder'[h].data_ref # None
        PROVE  registry'[holder'[h].data_ref] = <<"user_data", h>>
    <2>1. holder[h].data_ref \in Slots /\ Owns(h, holder[h].data_ref)
      BY <1>5, <1>9, RefTypes DEF Owns
    <2>2. QED
      BY <1>5, <1>7, <1>9, <2>1 DEF Registered
  <1>10. ASSUME NEW h \in Closures, holder'[h] # None
         PROVE  /\ holder'[h].object_ref \in Slots
                /\ \E p \in Proxies : /\ registry'[holder'[h].object_ref] = <<"object", p>>
                                      /\ proxy'[p] = holder'[h].on
    <2>1. h \in Holders
      BY DEF Holders
    <2>2. holder[h].object_ref \in Slots /\ Owns(h, holder[h].object_ref)
      BY <1>5, <1>10, <2>1 DEF Registered, Owns
    <2>3. PICK p \in Proxies : registry[holder[h].object_ref] = <<"object", p>> /\ proxy[p] = holder[h].on
      BY <1>5, <1>10, <2>1 DEF Registered
    <2>4. proxy'[p] = proxy[p]
      BY <2>2, <2>3 DEF RegistryKept
    <2>5. registry'[holder[h].object_ref] = registry[holder[h].object_ref]
      BY <1>7, <1>10, <2>1, <2>2
    <2>6. QED
      BY <1>5, <1>10, <2>1, <2>2, <2>3, <2>4, <2>5
  <1>11. \A h \in Sources : holder'[h] # None => holder'[h].object_ref = None /\ holder'[h].on = None
    BY <1>5 DEF Registered, Holders
  <1>12. ASSUME NEW s \in Slots, registry'[s] # Nil
         PROVE  \E h \in Holders : holder'[h] # None /\ Owns(h, s)'
    <2>1. registry[s] # Nil /\ \A h \in gone : s \notin SlotsOf(h)
      BY <1>1, <1>12
    <2>2. PICK h \in Holders : holder[h] # None /\ Owns(h, s)
      BY <2>1 DEF Registered
    <2>3. h \notin gone
      BY <2>1, <2>2, BindingAssumption DEF SlotsOf, Owns
    <2>4. QED
      BY <1>4, <1>6, <2>2, <2>3
  <1>13. ASSUME NEW h \in Holders, NEW g \in Holders, NEW s \in Slots,
                holder'[h] # None, holder'[g] # None, Owns(h, s)', Owns(g, s)'
         PROVE  h = g
    BY <1>5, <1>6, <1>13 DEF Registered
  <1>14. QED
    BY <1>8, <1>9, <1>10, <1>11, <1>12, <1>13 DEF Registered, Nil

\* A handler is stored in slots that nobody else has.
LEMMA StoresRegistered ==
    ASSUME TypeOK, Registered, RegistryKept, NEW h \in Holders, holder[h] = None,
           NEW new \in HolderRecord, holder' = [holder EXCEPT ![h] = new],
           SlotsLeft, NEW obj, NEW args, registry' = Stored(h, obj, NewSlots, args),
           new.handler_ref = NewSlots[2],
           new.data_ref = IF args = "none" THEN None ELSE NewSlots[3],
           \/ /\ h \in Closures /\ new.object_ref = NewSlots[1]
              /\ \E p \in Proxies : obj = <<"object", p>> /\ proxy'[p] = new.on
           \/ h \in Sources /\ new.object_ref = None /\ new.on = None /\ obj = Nil
    PROVE  Registered'
  <1> DEFINE a == NewSlots[1]
             b == NewSlots[2]
             c == NewSlots[3]
             data == IF args = "none" THEN Nil ELSE <<"user_data", h>>
  <1>1. /\ a \in Slots /\ b \in Slots /\ c \in Slots /\ a # b /\ a # c /\ b # c
        /\ registry[a] = Nil /\ registry[b] = Nil /\ registry[c] = Nil
    BY FreeSlots DEF Free
  <1>2. registry' = [registry EXCEPT ![a] = obj, ![b] = <<"function", h>>, ![c] = data]
    BY DEF Stored
  <1>3. /\ new.handler_ref = b
        /\ args = "none" => new.data_ref = None /\ data = Nil
        /\ args # "none" => new.data_ref = c /\ data = <<"user_data", h>>
        /\ \/ /\ h \in Closures /\ new.object_ref = a
              /\ \E p \in Proxies : obj = <<"object", p>> /\ proxy'[p] = new.on
           \/ h \in Sources /\ new.object_ref = None /\ new.on = None /\ obj = Nil
    OBVIOUS
  <1>4. h \in Closures <=> h \notin Sources
    BY BindingAssumption DEF Holders
  <1> HIDE DEF a, b, c, data
  <1>5. /\ registry'[a] = obj /\ registry'[b] = <<"function", h>> /\ registry'[c] = data
        /\ \A s \in Slots : s # a /\ s # b /\ s # c => registry'[s] = registry[s]
    BY <1>1, <1>2 DEF TypeOK
  <1>6. /\ holder'[h] = new /\ new # None
        /\ \A k \in Holders : k # h => holder'[k] = holder[k]
    BY BindingAssumption DEF TypeOK
  <1>7. ASSUME NEW k \in Holders, k # h, holder'[k] # None, NEW s \in Slots, Owns(k, s)
        PROVE  s # a /\ s # b /\ s # c /\ registry'[s] = registry[s]
    <2>1. registry[s] # Nil
      BY <1>6, <1>7, OwnedNotFree
    <2>2. QED
      BY <1>1, <1>5, <2>1
  <1>8. \A k \in Holders : \A s : k # h => (Owns(k, s)' <=> Owns(k, s))
    BY <1>6 DEF Owns
  <1>9. \A s \in Slots : Owns(h, s)' => s \in {a, b, c}
    BY <1>1, <1>3, <1>6, RefTypes, BindingAssumption DEF Owns
  <1>10. ASSUME NEW k \in Holders, holder'[k] # None
         PROVE  registry'[holder'[k].handler_ref] = <<"function", k>>
    <2>1. CASE k = h
      BY <1>3, <1>5, <1>6, <2>1
    <2>2. CASE k # h
      <3>1. holder[k].handler_ref \in Slots /\ Owns(k, holder[k].handler_ref)
        BY <1>6, <1>10, <2>2, RefTypes DEF Owns
      <3>2. registry'[holder[k].handler_ref] = registry[holder[k].handler_ref]
        BY <1>7, <1>10, <2>2, <3>1
      <3>3. registry[holder[k].handler_ref] = <<"function", k>>
        BY <1>6, <1>10, <2>2 DEF Registered
      <3>4. QED
        BY <1>6, <2>2, <3>2, <3>3
    <2>3. QED
      BY <2>1, <2>2
  <1>11. ASSUME NEW k \in Holders, holder'[k] # None, holder'[k].data_ref # None
         PROVE  registry'[holder'[k].data_ref] = <<"user_data", k>>
    <2>1. CASE k = h
      BY <1>3, <1>5, <1>6, <1>11, <2>1
    <2>2. CASE k # h
      <3>1. holder[k].data_ref \in Slots /\ Owns(k, holder[k].data_ref)
        BY <1>6, <1>11, <2>2, RefTypes DEF Owns
      <3>2. registry'[holder[k].data_ref] = registry[holder[k].data_ref]
        BY <1>7, <1>11, <2>2, <3>1
      <3>3. registry[holder[k].data_ref] = <<"user_data", k>>
        BY <1>6, <1>11, <2>2 DEF Registered
      <3>4. QED
        BY <1>6, <2>2, <3>2, <3>3
    <2>3. QED
      BY <2>1, <2>2
  <1>12. ASSUME NEW k \in Closures, holder'[k] # None
         PROVE  /\ holder'[k].object_ref \in Slots
                /\ \E p \in Proxies : /\ registry'[holder'[k].object_ref] = <<"object", p>>
                                      /\ proxy'[p] = holder'[k].on
    <2>1. CASE k = h
      BY <1>1, <1>3, <1>4, <1>5, <1>6, <2>1
    <2>2. CASE k # h
      <3>1. k \in Holders /\ holder'[k] = holder[k]
        BY <1>6, <2>2 DEF Holders
      <3>2. holder[k].object_ref \in Slots /\ Owns(k, holder[k].object_ref)
        BY <1>12, <3>1 DEF Registered, Owns
      <3>3. PICK p \in Proxies : registry[holder[k].object_ref] = <<"object", p>> /\ proxy[p] = holder[k].on
        BY <1>12, <3>1 DEF Registered
      <3>4. proxy'[p] = proxy[p]
        BY <3>2, <3>3 DEF RegistryKept
      <3>5. registry'[holder[k].object_ref] = registry[holder[k].object_ref]
        BY <1>7, <1>12, <2>2, <3>1, <3>2
      <3>6. QED
        BY <3>1, <3>2, <3>3, <3>4, <3>5
    <2>3. QED
      BY <2>1, <2>2
  <1>13. ASSUME NEW k \in Sources, holder'[k] # None
         PROVE  holder'[k].object_ref = None /\ holder'[k].on = None
    BY <1>3, <1>4, <1>6, <1>13 DEF Registered, Holders
  <1>14. ASSUME NEW s \in Slots, registry'[s] # Nil
         PROVE  \E k \in Holders : holder'[k] # None /\ Owns(k, s)'
    <2>1. CASE s \in {a, b, c}
      <3>1. Owns(h, s)'
        BY <1>1, <1>3, <1>5, <1>6, <1>14, <2>1 DEF Owns
      <3>2. QED
        BY <1>6, <3>1
    <2>2. CASE s \notin {a, b, c}
      <3>1. PICK k \in Holders : holder[k] # None /\ Owns(k, s)
        BY <1>5, <1>14, <2>2 DEF Registered
      <3>2. k # h
        BY <3>1
      <3>3. QED
        BY <1>6, <1>8, <3>1, <3>2
    <2>3. QED
      BY <2>1, <2>2
  <1>15. ASSUME NEW k \in Holders, NEW g \in Holders, NEW s \in Slots,
                holder'[k] # None, holder'[g] # None, Owns(k, s)', Owns(g, s)'
         PROVE  k = g
    <2>1. CASE k # h /\ g # h
      BY <1>6, <1>8, <1>15, <2>1 DEF Registered
    <2>2. CASE k = h /\ g # h
      BY <1>7, <1>8, <1>9, <1>15, <2>2
    <2>3. CASE k # h /\ g = h
      BY <1>7, <1>8, <1>9, <1>15, <2>3
    <2>4. QED
      BY <2>1, <2>2, <2>3
  <1>16. QED
    BY <1>10, <1>11, <1>12, <1>13, <1>14, <1>15 DEF Registered, Nil

\* Only the collector takes a userdata's object from it, and never from one in
\* the registry; the binding gives one only to a userdata that had none.
LEMMA StepsKeepRegistry ==
    ASSUME Accounted, Registered, [Next]_vars
    PROVE  RegistryKept
  <1> SUFFICES ASSUME NEW p \in Proxies, NEW s \in Slots, registry[s] = <<"object", p>>
               PROVE  proxy'[p] = proxy[p]
    BY DEF RegistryKept
  <1>1. p \in Reachable /\ proxy[p] # None
    BY Roots DEF Accounted, ReachableOwned
  <1>2. \/ proxy' = proxy
        \/ ProxyLeft /\ \E o : proxy' = [proxy EXCEPT ![NewProxy] = o]
        \/ \E q \in Proxies : Collect(q)
    BY DEF Next, ProgramStep, LoopStep, Return, Gc, New, Get, Forget, Pack, Unpack, Destroy,
           Connect, TimeoutAdd, Disconnect, Emit, Fire, ReturnFromClosure, ReturnFromSource,
           Error, CollectThread, vars, objVars, luaVars
  <1>3. CASE ProxyLeft /\ \E o : proxy' = [proxy EXCEPT ![NewProxy] = o]
    <2>1. NewProxy \in Proxies /\ proxy[NewProxy] = None
      BY <1>3 DEF ProxyLeft, NewProxy
    <2>2. p # NewProxy
      BY <1>1, <2>1
    <2>3. QED
      BY <1>3, <2>2 DEF Accounted, TypeOK
  <1>4. CASE \E q \in Proxies : Collect(q)
    BY <1>1, <1>4 DEF Collect, Accounted, TypeOK
  <1>5. QED
    BY <1>2, <1>3, <1>4

LEMMA NextRegistered == Accounted /\ Registered /\ [Next]_vars => Registered'
  <1> SUFFICES ASSUME Accounted, Registered, [Next]_vars PROVE Registered'
    OBVIOUS
  <1>1. TypeOK /\ RegistryKept
    BY StepsKeepRegistry DEF Accounted
  <1>2. SameButCalls(holder)
    BY <1>1 DEF SameButCalls, TypeOK
  <1>3. CASE UNCHANGED <<registry, holder>>
    BY <1>1, <1>2, <1>3, RegistryAlone
  <1>4. ASSUME NEW hs, hs \subseteq Live, Detach(holder, hs) PROVE Registered'
    BY <1>1, <1>2, <1>4, DetachKeepsRegistered
  <1>5. ASSUME NEW h \in Holders, NEW n \in Nat, holder[h] # None
        PROVE  SameButCalls([holder EXCEPT ![h].calls = n])
    <2> DEFINE new == [holder[h] EXCEPT !.calls = n]
    <2>1. holder[h] \in HolderRecord
      BY <1>1, <1>5 DEF TypeOK
    <2>2. /\ new \in HolderRecord /\ new.on = holder[h].on
          /\ new.object_ref = holder[h].object_ref /\ new.handler_ref = holder[h].handler_ref
          /\ new.data_ref = holder[h].data_ref
      BY <2>1 DEF HolderRecord
    <2>3. [holder EXCEPT ![h].calls = n] = [holder EXCEPT ![h] = new]
      BY <1>1 DEF TypeOK
    <2>4. new # None
      BY <2>2, BindingAssumption
    <2> HIDE DEF new
    <2>5. QED
      BY <1>1, <1>5, <2>2, <2>3, <2>4 DEF TypeOK, SameButCalls
  <1>6. ASSUME NEW h \in Holders, holder[h] # None PROVE holder[h].calls \in Nat
    BY <1>1, <1>6, RefTypes DEF HolderRecord
  <1>7. ASSUME NEW h \in Closures, Emit(h) PROVE Registered'
    <2>1. h \in Holders /\ holder[h] # None
      BY <1>7 DEF Emit, Attached, Live
    <2>2. PICK n \in Nat : n = holder[h].calls + 1
      BY <1>6, <2>1
    <2>3. holder' = [holder EXCEPT ![h].calls = n] /\ registry' = registry
      BY <1>7, <2>2 DEF Emit
    <2>4. QED
      BY <1>1, <1>5, <2>1, <2>3, RegistryAlone
  <1>8. ASSUME NEW h \in Sources, Fire(h) PROVE Registered'
    <2>1. h \in Holders /\ holder[h] # None
      BY <1>8 DEF Fire, Attached, Live
    <2>2. holder' = [holder EXCEPT ![h].calls = 1] /\ registry' = registry
      BY <1>8 DEF Fire, luaVars
    <2>3. QED
      BY <1>1, <1>5, <2>1, <2>2, RegistryAlone
  <1>9. ASSUME NEW h, NEW hs, Ends(h, hs) PROVE Registered'
    <2>1. Len(running) \in DOMAIN running /\ running[Len(running)].holder = h
      <3>1. running \in Seq(Frame) /\ running # << >>
        BY <1>1, <1>9 DEF TypeOK, Frame, Ends
      <3>2. QED
        BY <1>9, <3>1, RunningFinite, EmptySeq DEF Ends, Top
    <2>2. h \in Holders
      BY <1>1, <2>1, FrameOf DEF TypeOK, Frame
    <2>3. FramesOf(h) # {}
      BY <2>1 DEF FramesOf
    <2>4. holder[h] # None /\ Cardinality(FramesOf(h)) <= holder[h].calls
      BY <2>2, <2>3 DEF Accounted, CallsCounted
    <2>5. Cardinality(FramesOf(h)) >= 1 /\ Cardinality(FramesOf(h)) \in Nat
      BY <1>1, <2>3, Finite, NotEmpty
    <2>6. PICK n \in Nat : n = holder[h].calls - 1
      BY <1>6, <2>2, <2>4, <2>5
    <2>7. Returned = [holder EXCEPT ![h].calls = n]
      BY <1>9, <2>6 DEF Returned, Ends
    <2>8. QED
      BY <1>1, <1>5, <1>9, <2>2, <2>4, <2>7, DetachKeepsRegistered DEF Ends
  <1>10. ASSUME NEW o, Unpack(o) \/ Destroy(o) PROVE Registered'
    BY <1>4, <1>10, DoomedLive DEF Unpack, Destroy
  <1>11. ASSUME NEW p, Collect(p) PROVE Registered'
    BY <1>4, <1>11, DoomedLive DEF Collect
  <1>12. ASSUME NEW h, Disconnect(h) PROVE Registered'
    BY <1>4, <1>12 DEF Disconnect, Attached
  <1>13. CASE ReturnFromClosure
    <2>1. Top.holder \in Live
      <3>1. running \in Seq(Frame) /\ running # << >>
        BY <1>1, <1>13 DEF TypeOK, Frame, ReturnFromClosure
      <3>2. Len(running) \in FramesOf(Top.holder)
        BY <3>1, RunningFinite, EmptySeq DEF FramesOf, Top
      <3>3. QED
        BY <1>13, <3>2 DEF Accounted, CallsCounted, Live, Holders, ReturnFromClosure
    <2>2. PICK o : o = holder[Top.holder].on
      OBVIOUS
    <2>3. Ends(Top.holder, Doomed(o, 1) \union (IF holder[Top.holder].attached THEN {} ELSE {Top.holder}))
      BY <1>13, <2>1, <2>2, DoomedLive DEF ReturnFromClosure, Ends
    <2>4. QED
      BY <1>9, <2>3
  <1>14. CASE ReturnFromSource
    <2>1. Top.holder \in Live
      <3>1. running \in Seq(Frame) /\ running # << >>
        BY <1>1, <1>14 DEF TypeOK, Frame, ReturnFromSource
      <3>2. Len(running) \in FramesOf(Top.holder)
        BY <3>1, RunningFinite, EmptySeq DEF FramesOf, Top
      <3>3. QED
        BY <1>14, <3>2 DEF Accounted, CallsCounted, Live, Holders, ReturnFromSource
    <2>2. PICK again \in BOOLEAN :
            Detach(Returned, IF again /\ holder[Top.holder].attached THEN {} ELSE {Top.holder})
      BY <1>14 DEF ReturnFromSource
    <2>3. Ends(Top.holder, IF again /\ holder[Top.holder].attached THEN {} ELSE {Top.holder})
      BY <1>14, <2>1, <2>2 DEF ReturnFromSource, Ends
    <2>4. QED
      BY <1>9, <2>3
  <1>15. ASSUME NEW h \in Closures, NEW p \in Proxies, NEW t \in Coroutines \union {Main},
                NEW args, Connect(h, p, t, args)
         PROVE  Registered'
    <2> DEFINE new == [on |-> proxy[p], thread |-> t, object_ref |-> NewSlots[1],
                       handler_ref |-> NewSlots[2],
                       data_ref |-> IF args = "none" THEN None ELSE NewSlots[3],
                       attached |-> TRUE, calls |-> 0]
    <2>1. new \in HolderRecord
      <3>1. NewSlots[1] \in Slots /\ NewSlots[2] \in Slots /\ NewSlots[3] \in Slots
        BY <1>1, <1>15, FreeSlots DEF Free, Connect
      <3>2. proxy[p] \in Objects \union {None}
        BY <1>1 DEF TypeOK
      <3>3. QED
        BY <3>1, <3>2 DEF HolderRecord
    <2>2. /\ holder' = [holder EXCEPT ![h] = new] /\ holder[h] = None /\ SlotsLeft /\ h \in Holders
          /\ registry' = Stored(h, <<"object", p>>, NewSlots, args)
          /\ proxy'[p] = proxy[p]
      BY <1>15 DEF Connect, Holders
    <2>3. /\ new.handler_ref = NewSlots[2] /\ new.object_ref = NewSlots[1] /\ new.on = proxy[p]
          /\ new.data_ref = IF args = "none" THEN None ELSE NewSlots[3]
      OBVIOUS
    <2> HIDE DEF new
    <2>4. QED
      BY <1>1, <2>1, <2>2, <2>3, StoresRegistered
  <1>16. ASSUME NEW h \in Sources, NEW t \in Coroutines \union {Main}, NEW args, TimeoutAdd(h, t, args)
         PROVE  Registered'
    <2> DEFINE new == [on |-> None, thread |-> t, object_ref |-> None,
                       handler_ref |-> NewSlots[2],
                       data_ref |-> IF args = "none" THEN None ELSE NewSlots[3],
                       attached |-> TRUE, calls |-> 0]
               nothing == Nil
    <2>1. new \in HolderRecord
      <3>1. NewSlots[2] \in Slots /\ NewSlots[3] \in Slots
        BY <1>1, <1>16, FreeSlots DEF Free, TimeoutAdd
      <3>2. QED
        BY <3>1 DEF HolderRecord
    <2>2. /\ holder' = [holder EXCEPT ![h] = new] /\ holder[h] = None /\ SlotsLeft /\ h \in Holders
          /\ registry' = Stored(h, nothing, NewSlots, args) /\ nothing = Nil
      BY <1>16 DEF TimeoutAdd, Holders
    <2>3. /\ new.handler_ref = NewSlots[2] /\ new.object_ref = None /\ new.on = None
          /\ new.data_ref = IF args = "none" THEN None ELSE NewSlots[3]
      OBVIOUS
    <2> HIDE DEF new, nothing
    <2>4. QED
      BY <1>1, <2>1, <2>2, <2>3, StoresRegistered
  <1>17. ASSUME NEW o, New(o) \/ Get(o) \/ Pack(o) PROVE Registered'
    BY <1>3, <1>17 DEF New, Get, Pack, luaVars
  <1>18. ASSUME NEW p, Forget(p) \/ Error \/ CollectThread(p) \/ UNCHANGED vars PROVE Registered'
    BY <1>3, <1>18 DEF Forget, Error, CollectThread, vars, luaVars
  <1>19. QED
    BY <1>7, <1>8, <1>10, <1>11, <1>12, <1>13, <1>14, <1>15, <1>16, <1>17, <1>18
    DEF Next, ProgramStep, LoopStep, Return, Gc

\* The registry holds what the handlers that are connected put there, and each
\* of its slots belongs to one of them.
THEOREM RegistryRight == Spec => []RegistryBelongs
  <1>1. Init => Registered
    BY BindingAssumption DEF Init, Registered, Holders
  <1>2. Accounted /\ Registered /\ [Next]_vars => Registered'
    BY NextRegistered
  <1>3. Accounted /\ Registered => RegistryBelongs
    BY BelongsMeans DEF Accounted
  <1>4. QED
    BY <1>1, <1>2, <1>3, ReferencesAccounted, PTL DEF Spec

\* An object is not finalized as long as a handler is connected to it: the
\* registry has a userdata of it, which the collector leaves alone, and the
\* references that others give back are not that one.
THEOREM Kept == Spec => KeptWhileConnected
  <1>1. Init => Registered
    BY BindingAssumption DEF Init, Registered, Holders
  <1>2. Accounted /\ Registered /\ [Next]_vars => Registered'
    BY NextRegistered
  <1>3. Accounted' => NoDanglingProxy'
    BY NoneDangles, PTL
  <1>4. ASSUME Accounted, Accounted', Registered, [Next]_vars
        PROVE  [\A o \in Objects : refs[o] > 0 /\ refs'[o] = 0 => HandlersOn(o) = {}]_vars
    <2> SUFFICES ASSUME NEW o \in Objects, refs'[o] = 0, NEW h \in HandlersOn(o) PROVE FALSE
      OBVIOUS
    <2>1. h \in Holders /\ holder[h] # None /\ holder[h].on = o
      BY DEF HandlersOn, Attached, Live
    <2>2. h \in Closures
      BY <1>4, <2>1, BindingAssumption DEF Registered, Holders
    <2>3. PICK p \in Proxies : registry[holder[h].object_ref] = <<"object", p>> /\ proxy[p] = o
      BY <1>4, <2>1, <2>2 DEF Registered
    <2>4. proxy'[p] = o
      <3>1. RegistryKept /\ holder[h].object_ref \in Slots
        BY <1>4, <2>1, <2>2, StepsKeepRegistry DEF Registered
      <3>2. QED
        BY <2>3, <3>1 DEF RegistryKept
    <2>5. NoDanglingProxy' /\ o # None
      BY <1>3, <1>4, BindingAssumption
    <2>6. QED
      BY <2>4, <2>5 DEF NoDanglingProxy
  <1>5. QED
    BY <1>1, <1>2, <1>4, ReferencesAccounted, PTL DEF Spec, KeptWhileConnected
=============================================================================
