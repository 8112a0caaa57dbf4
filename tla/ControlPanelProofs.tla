------------------------ MODULE ControlPanelProofs --------------------------
(***************************************************************************)
(* Proofs about ControlPanel, for any panels, widgets and nodes and any    *)
(* nesting of callbacks, if they are discreet.                             *)
(***************************************************************************)
EXTENDS ControlPanel, FiniteSetTheorems, SequenceTheorems, TLAPS

----------------------------------------------------------------------------
(* The invariant.  A widget that is just put has its parent but is in no   *)
(* list; one that is just removed has lost its parent and is still in the  *)
(* list; both have a frame of calls, which says where they are.            *)

\* n is in a list; a is b or before b in it.
Has(list, n)        == \E i \in DOMAIN list : list[i] = n
NotAfter(list, a, b) == \E i, j \in DOMAIN list : i <= j /\ list[i] = a /\ list[j] = b
Injective(list)     == \A i, j \in DOMAIN list : list[i] = list[j] => i = j

\* The frames of a widget whose parent is just changing.
Changer(i, w) == i \in DOMAIN calls /\ calls[i].op \in {"put", "remove"} /\ calls[i].widget = w

\* The panels' references on the pixbuf are counted.
WithPixbuf     == {p \in Panels : pixbuf[p]}
PixbufCounted  == IsFiniteSet(WithPixbuf) /\ Cardinality(WithPixbuf) <= pixbufRefs

NodesOnce      == \A p \in Panels : Injective(children[p])
Allocated      == \A p \in Panels, n \in Nodes : Has(children[p], n) => child[n] # None
WidgetOnce ==
    \A p, q \in Panels, m, n \in Nodes :
        Has(children[p], m) /\ Has(children[q], n) /\ child[m].widget = child[n].widget
        => p = q /\ m = n

ParentOfListed ==
    \A p \in Panels, n \in Nodes :
        Has(children[p], n) /\ ~Changing(child[n].widget) => parent[child[n].widget] = p
ListedIfParent ==
    \A p \in Panels, w \in Widgets :
        parent[w] = p /\ ~Changing(w) => \E n \in Nodes : Has(children[p], n) /\ child[n].widget = w

\* A widget that is being put is in no list yet, its node holds it already.
PutFrame(c) ==
    /\ c.node \in Nodes /\ child[c.node] # None /\ child[c.node].widget = c.widget
    /\ parent[c.widget] = c.panel
    /\ \A p \in Panels, n \in Nodes : Has(children[p], n) => child[n].widget # c.widget

\* One that is being removed is still in the list, in the node that was found.
RemoveFrame(c) ==
    /\ c.node \in Nodes /\ Has(children[c.panel], c.node) /\ child[c.node].widget = c.widget
    /\ parent[c.widget] = None

\* What forall has ahead is in the list, from the node in hand on, and is not
\* the child it calls back for.
ForallFrame(c) ==
    /\ c.node # None => Has(children[c.panel], c.node) /\ child[c.node].widget # c.widget
    /\ \A m \in c.todo : /\ c.node # None
                         /\ NotAfter(children[c.panel], c.node, m)
                         /\ child[m].widget # c.widget

FramesRight ==
    \A i \in DOMAIN calls : /\ calls[i].op = "put" => PutFrame(calls[i])
                            /\ calls[i].op = "remove" => RemoveFrame(calls[i])
                            /\ calls[i].op = "forall" => ForallFrame(calls[i])

\* No widget is put or removed while it is being put or removed.
ChangedOnce == \A i, j : \A w \in Widgets : Changer(i, w) /\ Changer(j, w) => i = j

\* What is removed in a callback of forall is what forall has called for.
RemovedIsCurrent ==
    \A f, g \in DOMAIN calls :
        f < g /\ calls[f].op = "forall" /\ calls[g].op = "remove"
        /\ calls[f].panel = calls[g].panel => calls[f].widget = calls[g].widget

ListsAgree ==
    /\ NodesOnce /\ Allocated /\ WidgetOnce
    /\ ParentOfListed /\ ListedIfParent
    /\ FramesRight /\ ChangedOnce /\ RemovedIsCurrent

Consistent == TypeOK /\ ~aborted /\ PixbufCounted /\ ListsAgree

----------------------------------------------------------------------------
(* Lists of nodes.                                                         *)

LEMMA AppendNode ==
    ASSUME NEW S, NEW list \in Seq(S), NEW e \in S
    PROVE  /\ Append(list, e) \in Seq(S)
           /\ \A n : Has(Append(list, e), n) <=> Has(list, n) \/ n = e
           /\ \A a, b : NotAfter(list, a, b) => NotAfter(Append(list, e), a, b)
           /\ Injective(list) /\ ~Has(list, e) => Injective(Append(list, e))
<1> DEFINE l == Append(list, e)
<1>1. /\ l \in Seq(S) /\ Len(list) \in Nat /\ DOMAIN list = 1 .. Len(list)
      /\ DOMAIN l = 1 .. Len(list) + 1
      /\ \A i \in 1 .. Len(list) : l[i] = list[i]
      /\ l[Len(list) + 1] = e
  BY AppendProperties, LenProperties
<1> HIDE DEF l
<1>2. \A i \in DOMAIN l : i \in DOMAIN list \/ i = Len(list) + 1
  BY <1>1
<1>3. \A n : Has(l, n) <=> Has(list, n) \/ n = e
  BY <1>1, <1>2 DEF Has
<1>4. \A a, b : NotAfter(list, a, b) => NotAfter(l, a, b)
  BY <1>1 DEF NotAfter
<1>5. Injective(list) /\ ~Has(list, e) => Injective(l)
  BY <1>1, <1>2 DEF Injective, Has
<1>6. QED BY <1>1, <1>3, <1>4, <1>5 DEF l

\* Where a node is that is in the list.
LEMMA PositionOf ==
    ASSUME NEW list, NEW n, Has(list, n)
    PROVE  Position(list, n) \in DOMAIN list /\ list[Position(list, n)] = n
  BY DEF Has, Position

LEMMA RemoveNode ==
    ASSUME NEW S, NEW list \in Seq(S), NEW n, Has(list, n), Injective(list)
    PROVE  LET rest == RemoveAt(list, Position(list, n)) IN
           /\ rest \in Seq(S)
           /\ Injective(rest)
           /\ \A m : Has(rest, m) <=> Has(list, m) /\ m # n
           /\ \A a, b : NotAfter(list, a, b) /\ a # n /\ b # n => NotAfter(rest, a, b)
<1> DEFINE k == Position(list, n)
           front == SubSeq(list, 1, k - 1)
           back  == SubSeq(list, k + 1, Len(list))
           rest  == RemoveAt(list, k)
<1>1. Len(list) \in Nat /\ DOMAIN list = 1 .. Len(list) /\ \A i \in DOMAIN list : list[i] \in S
  BY LenProperties, ElementOfSeq
<1>2. k \in 1 .. Len(list) /\ list[k] = n
  BY <1>1, PositionOf
<1> HIDE DEF k
<1>3. /\ front \in Seq(S) /\ Len(front) = k - 1
      /\ \A i \in 1 .. k - 1 : front[i] = list[i]
  <2>1. \A i \in 1 .. k - 1 : list[i] \in S
    BY <1>1, <1>2
  <2>2. k - 1 \in Int /\ 1 \in Int
    BY <1>1, <1>2
  <2>3. /\ front \in Seq(S)
        /\ Len(front) = IF 1 <= k - 1 THEN (k - 1) - 1 + 1 ELSE 0
        /\ \A i \in 1 .. (k - 1) - 1 + 1 : front[i] = list[1 + i - 1]
    BY <2>1, <2>2, SubSeqProperties
  <2>4. QED BY <2>3, <1>1, <1>2
<1>4. /\ back \in Seq(S) /\ Len(back) = Len(list) - k
      /\ \A i \in 1 .. Len(list) - k : back[i] = list[k + i]
  <2>1. \A i \in k + 1 .. Len(list) : list[i] \in S
    BY <1>1, <1>2
  <2>2. k + 1 \in Int /\ Len(list) \in Int
    BY <1>1, <1>2
  <2>3. /\ back \in Seq(S)
        /\ Len(back) = IF k + 1 <= Len(list) THEN Len(list) - (k + 1) + 1 ELSE 0
        /\ \A i \in 1 .. Len(list) - (k + 1) + 1 : back[i] = list[(k + 1) + i - 1]
    BY <2>1, <2>2, SubSeqProperties
  <2>4. QED BY <2>3, <1>1, <1>2
<1>5. rest = front \o back
  BY DEF RemoveAt
<1> HIDE DEF front, back, rest
<1>6. /\ rest \in Seq(S) /\ Len(rest) = Len(list) - 1 /\ DOMAIN rest = 1 .. Len(list) - 1
      /\ \A i \in 1 .. Len(list) - 1 : rest[i] = IF i < k THEN list[i] ELSE list[i + 1]
  <2>1. /\ rest \in Seq(S) /\ Len(rest) = (k - 1) + (Len(list) - k)
        /\ \A i \in 1 .. (k - 1) + (Len(list) - k) :
              rest[i] = IF i <= k - 1 THEN front[i] ELSE back[i - (k - 1)]
    <3>1. /\ front \o back \in Seq(S) /\ Len(front \o back) = Len(front) + Len(back)
          /\ \A i \in 1 .. Len(front) + Len(back) :
                (front \o back)[i] = IF i <= Len(front) THEN front[i] ELSE back[i - Len(front)]
      BY <1>3, <1>4, ConcatProperties
    <3>2. QED BY <3>1, <1>3, <1>4, <1>5
  <2>2. (k - 1) + (Len(list) - k) = Len(list) - 1
    BY <1>1, <1>2
  <2>3. ASSUME NEW i \in 1 .. Len(list) - 1
        PROVE  rest[i] = IF i < k THEN list[i] ELSE list[i + 1]
    <3>1. CASE i < k
      <4>1. i \in 1 .. k - 1 /\ i <= k - 1
        BY <1>1, <1>2, <3>1
      <4>2. QED BY <2>1, <2>2, <4>1, <3>1, <1>3
    <3>2. CASE ~(i < k)
      <4>1. ~(i <= k - 1) /\ i - (k - 1) \in 1 .. Len(list) - k /\ k + (i - (k - 1)) = i + 1
        BY <1>1, <1>2, <3>2
      <4>2. back[i - (k - 1)] = list[i + 1]
        BY <4>1, <1>4
      <4>3. QED BY <2>1, <2>2, <4>1, <4>2, <3>2
    <3>3. QED BY <3>1, <3>2
  <2>4. QED BY <2>1, <2>2, <2>3, LenProperties
<1> DEFINE To(i) == IF i < k THEN i ELSE i - 1
<1>7. \A i \in DOMAIN list : i # k => To(i) \in DOMAIN rest /\ rest[To(i)] = list[i]
  BY <1>1, <1>2, <1>6
<1>8. \A i, j \in DOMAIN list : i # k /\ j # k /\ i <= j => To(i) <= To(j)
  BY <1>1, <1>2
<1>9. \A i \in DOMAIN rest : \E j \in DOMAIN list :
            j # k /\ rest[i] = list[j] /\ i = To(j)
  <2>1. TAKE i \in DOMAIN rest
  <2>2. CASE i < k
    BY <2>2, <1>1, <1>2, <1>6
  <2>3. CASE ~(i < k)
    <3>1. i + 1 \in DOMAIN list /\ i + 1 # k /\ rest[i] = list[i + 1] /\ i = To(i + 1)
      BY <2>3, <1>1, <1>2, <1>6
    <3>2. QED BY <3>1
  <2>4. QED BY <2>2, <2>3
<1> HIDE DEF To
<1>10. \A i \in DOMAIN list : i # k => list[i] # n
  BY <1>1, <1>2 DEF Injective
<1>11. Injective(rest)
  BY <1>9 DEF Injective
<1>12. \A m : Has(rest, m) <=> Has(list, m) /\ m # n
  BY <1>2, <1>7, <1>9, <1>10 DEF Has
<1>13. \A a, b : NotAfter(list, a, b) /\ a # n /\ b # n => NotAfter(rest, a, b)
  BY <1>2, <1>7, <1>8 DEF NotAfter
<1>14. QED BY <1>6, <1>11, <1>12, <1>13 DEF rest, k

----------------------------------------------------------------------------
(* The stack of calls.                                                     *)

LEMMA Pushed ==
    ASSUME NEW S, NEW s \in Seq(S), NEW e \in S
    PROVE  /\ Append(s, e) \in Seq(S)
           /\ Len(s) + 1 \in DOMAIN Append(s, e) /\ Append(s, e)[Len(s) + 1] = e
           /\ \A i \in DOMAIN s : i \in DOMAIN Append(s, e) /\ Append(s, e)[i] = s[i]
           /\ \A i \in DOMAIN Append(s, e) : i \in DOMAIN s \/ i = Len(s) + 1
           /\ \A i \in DOMAIN Append(s, e) : i <= Len(s) + 1
           /\ Len(s) + 1 \notin DOMAIN s
  BY AppendProperties, LenProperties

LEMMA Popped ==
    ASSUME NEW S, NEW s \in Seq(S), s # << >>
    PROVE  /\ Front(s) \in Seq(S)
           /\ Len(s) \in DOMAIN s /\ Last(s) = s[Len(s)] /\ s[Len(s)] \in S
           /\ \A i \in DOMAIN Front(s) : i \in DOMAIN s /\ i # Len(s) /\ Front(s)[i] = s[i]
           /\ \A i \in DOMAIN s : i <= Len(s)
           /\ \A i \in DOMAIN s : i # Len(s) => i \in DOMAIN Front(s)
<1>1. Len(s) \in Nat \ {0} /\ DOMAIN s = 1 .. Len(s) /\ \A i \in 1 .. Len(s) : s[i] \in S
  BY LenProperties, EmptySeq, ElementOfSeq
<1>2. \A i \in 1 .. Len(s) - 1 : s[i] \in S
  BY <1>1
<1>3. Len(s) - 1 \in Int /\ 1 \in Int
  BY <1>1
<1>4. /\ Front(s) \in Seq(S)
      /\ Len(Front(s)) = IF 1 <= Len(s) - 1 THEN (Len(s) - 1) - 1 + 1 ELSE 0
      /\ \A i \in 1 .. (Len(s) - 1) - 1 + 1 : Front(s)[i] = s[1 + i - 1]
  BY <1>2, <1>3, SubSeqProperties DEF Front
<1> DEFINE f == Front(s)
           n == Len(s)
<1>5. /\ f \in Seq(S) /\ n \in Nat \ {0}
      /\ Len(f) = IF 1 <= n - 1 THEN (n - 1) - 1 + 1 ELSE 0
      /\ \A i \in 1 .. (n - 1) - 1 + 1 : f[i] = s[1 + i - 1]
  BY <1>1, <1>4
<1> HIDE DEF f, n
<1>6. Len(f) = n - 1 /\ DOMAIN f = 1 .. Len(f)
  BY <1>5, LenProperties
<1>7. \A i \in 1 .. n - 1 : f[i] = s[i]
  <2>1. TAKE i \in 1 .. n - 1
  <2>2. 1 + i - 1 = i /\ i \in 1 .. (n - 1) - 1 + 1
    BY <1>5
  <2>3. QED BY <1>5, <2>2
<1>8. /\ n = Len(s) /\ f = Front(s) /\ Last(s) = s[n] /\ DOMAIN s = 1 .. n
      /\ \A i \in 1 .. n : s[i] \in S
  BY <1>1 DEF Last, n, f
<1>9. QED BY <1>5, <1>6, <1>7, <1>8

\* What a consistent state is made of.
LEMMA Typed ==
    ASSUME TypeOK
    PROVE  /\ \A p \in Panels : children[p] \in Seq(Nodes)
           /\ \A n \in Nodes : child[n] # None =>
                child[n] \in [widget : Widgets, place : Places] /\ child[n].widget \in Widgets
           /\ \A w \in Widgets : parent[w] \in Panels \union {None}
           /\ calls \in Seq(Frame)
           /\ \A i \in DOMAIN calls : /\ calls[i] \in Frame
                                      /\ calls[i].op \in {"put", "remove", "forall"}
                                      /\ calls[i].panel \in Panels /\ calls[i].widget \in Widgets
                                      /\ calls[i].node \in Nodes \union {None}
                                      /\ calls[i].todo \in SUBSET Nodes
<1>1. \A i \in DOMAIN calls : calls[i] \in Frame
  BY ElementOfSeq, LenProperties DEF TypeOK
<1>2. ASSUME NEW i \in DOMAIN calls
      PROVE  /\ calls[i] \in Frame
             /\ calls[i].op \in {"put", "remove", "forall"}
             /\ calls[i].panel \in Panels /\ calls[i].widget \in Widgets
             /\ calls[i].node \in Nodes \union {None}
             /\ calls[i].todo \in SUBSET Nodes
  <2> DEFINE c == calls[i]
  <2>1. c \in Frame
    BY <1>1
  <2> HIDE DEF c
  <2>2. /\ c.op \in {"put", "remove", "forall"} /\ c.panel \in Panels /\ c.widget \in Widgets
        /\ c.node \in Nodes \union {None} /\ c.todo \in SUBSET Nodes
    BY <2>1 DEF Frame
  <2>3. QED BY <2>1, <2>2 DEF c
<1>3. ASSUME NEW n \in Nodes, child[n] # None
      PROVE  child[n] \in [widget : Widgets, place : Places] /\ child[n].widget \in Widgets
  BY <1>3 DEF TypeOK
<1>4. QED BY <1>2, <1>3 DEF TypeOK

LEMMA InList ==
    ASSUME TypeOK, NEW p \in Panels, NEW n, Has(children[p], n)
    PROVE  n \in Nodes
  BY Typed, ElementOfSeq, LenProperties DEF Has

\* The node that get_child() finds.
LEMMA Found ==
    ASSUME Consistent, NEW p \in Panels, NEW w \in Widgets
    PROVE  IF GetChild(p, w) = None
             THEN \A n \in Nodes : Has(children[p], n) => child[n].widget # w
             ELSE /\ GetChild(p, w) \in Nodes /\ Has(children[p], GetChild(p, w))
                  /\ child[GetChild(p, w)] # None /\ child[GetChild(p, w)].widget = w
<1> DEFINE list == children[p]
           at == {i \in DOMAIN list : child[list[i]].widget = w}
<1>1. GetChild(p, w) = IF at = {} THEN None
                       ELSE list[CHOOSE i \in at : \A j \in at : i <= j]
  BY DEF GetChild
<1>2. \A i \in DOMAIN list : list[i] \in Nodes /\ Has(list, list[i]) /\ i \in Nat
  BY Typed, ElementOfSeq, LenProperties DEF Has, Consistent
<1>3. CASE at = {}
  BY <1>1, <1>3 DEF Has
<1>4. CASE at # {}
  <2>1. PICK k \in at : TRUE
    BY <1>4
  <2>2. \A j \in at : j = k
    <3>1. SUFFICES ASSUME NEW j \in at PROVE j = k
      OBVIOUS
    <3>2. list[j] = list[k]
      BY <2>1, <1>2 DEF Consistent, ListsAgree, WidgetOnce
    <3>3. QED BY <3>2, <2>1 DEF Consistent, ListsAgree, NodesOnce, Injective
  <2>3. at = {k} /\ k <= k
    BY <2>1, <2>2, <1>2
  <2>4. GetChild(p, w) = list[k]
    BY <1>1, <2>3
  <2>5. list[k] \in Nodes /\ Has(list, list[k]) /\ child[list[k]].widget = w
    BY <1>2, <2>1
  <2>6. list[k] # None /\ child[list[k]] # None
    BY <2>5, PanelAssumption DEF PanelAssumption, Consistent, ListsAgree, Allocated
  <2>7. QED BY <2>4, <2>5, <2>6
<1>5. QED BY <1>3, <1>4

\* Going on from n: what is after n is not before the node that follows it.
LEMMA GoingOn ==
    ASSUME Consistent, NEW p \in Panels, NEW n \in Nodes, Has(children[p], n)
    PROVE  /\ Following(p, n) # None =>
                Following(p, n) \in Nodes /\ Has(children[p], Following(p, n)) /\ Following(p, n) # n
           /\ \A m : NotAfter(children[p], n, m) /\ m # n =>
                /\ Following(p, n) # None /\ NotAfter(children[p], Following(p, n), m)
                /\ m \in Nodes /\ Has(children[p], m)
<1> DEFINE list == children[p]
           k == Position(list, n)
<1>1. /\ Len(list) \in Nat /\ DOMAIN list = 1 .. Len(list)
      /\ \A i \in DOMAIN list : list[i] \in Nodes /\ Has(list, list[i]) /\ list[i] # None
  BY Typed, ElementOfSeq, LenProperties, PanelAssumption DEF Has, Consistent, PanelAssumption
<1>2. k \in DOMAIN list /\ list[k] = n
  BY PositionOf
<1>3. Following(p, n) = IF k = Len(list) THEN None ELSE list[k + 1]
  BY DEF Following
<1>4. \A i, j \in DOMAIN list : list[i] = list[j] => i = j
  BY DEF Consistent, ListsAgree, NodesOnce, Injective
<1> HIDE DEF k, list
<1>5. k # Len(list) => k + 1 \in DOMAIN list /\ k + 1 # k
  BY <1>1, <1>2
<1>6. Following(p, n) # None =>
          Following(p, n) \in Nodes /\ Has(list, Following(p, n)) /\ Following(p, n) # n
  BY <1>1, <1>2, <1>3, <1>4, <1>5
<1>7. ASSUME NEW m, NotAfter(list, n, m), m # n
      PROVE  /\ Following(p, n) # None /\ NotAfter(list, Following(p, n), m)
             /\ m \in Nodes /\ Has(list, m)
  <2>1. PICK i, j \in DOMAIN list : i <= j /\ list[i] = n /\ list[j] = m
    BY <1>7 DEF NotAfter
  <2>2. i = k /\ j # k
    BY <2>1, <1>2, <1>4, <1>7
  <2>3. k # Len(list) /\ k + 1 <= j
    BY <2>1, <2>2, <1>1
  <2>4. QED BY <2>1, <2>3, <1>1, <1>3, <1>5 DEF NotAfter
<1>8. QED BY <1>6, <1>7 DEF list

\* A frame of forall that has n behind it.
LEMMA NextFrame ==
    ASSUME Consistent, NEW p \in Panels, NEW n \in Nodes, Has(children[p], n),
           NEW todo \in SUBSET Nodes,
           \A m \in todo : NotAfter(children[p], n, m) /\ m # n,
           NEW c, c = AtChild(p, n, todo)
    PROVE  c \in Frame /\ c.op = "forall" /\ ForallFrame(c)
<1> USE DEF AtChild
<1>1. child[n] # None /\ child[n].widget \in Widgets
  BY Typed DEF Consistent, ListsAgree, Allocated
<1>2. Following(p, n) \in Nodes \union {None}
  BY GoingOn
<1>3. c \in Frame
  BY <1>1, <1>2 DEF Frame
<1>4. \A m \in Nodes : Has(children[p], m) /\ m # n => child[m].widget # child[n].widget
  BY DEF Consistent, ListsAgree, WidgetOnce
<1>5. ASSUME c.node # None
      PROVE  Has(children[c.panel], c.node) /\ child[c.node].widget # c.widget
  BY <1>4, <1>5, GoingOn
<1>6. ASSUME NEW m \in c.todo
      PROVE  c.node # None /\ NotAfter(children[c.panel], c.node, m) /\ child[m].widget # c.widget
  BY <1>4, GoingOn
<1>7. QED BY <1>3, <1>5, <1>6 DEF ForallFrame

----------------------------------------------------------------------------
(* What the steps do to the lists.                                         *)

\* A step that leaves the lists alone and begins, goes on with or ends a forall.
LEMMA ForallOnTop ==
    ASSUME Consistent, UNCHANGED listVars,
           \A i \in DOMAIN calls : calls[i].op # "forall" =>
                i \in DOMAIN calls' /\ calls'[i] = calls[i],
           \A i \in DOMAIN calls' :
                \/ i \in DOMAIN calls /\ calls'[i] = calls[i]
                \/ /\ calls'[i].op = "forall" /\ ForallFrame(calls'[i])
                   /\ \A g \in DOMAIN calls' : ~(i < g)
    PROVE  ListsAgree'
<1> USE DEF Consistent, ListsAgree, listVars
<1>1. \A i, w : Changer(i, w)' <=> Changer(i, w)
  BY DEF Changer
<1>2. \A w : Changing(w)' <=> Changing(w)
  BY DEF Changing
<1>3. NodesOnce' /\ Allocated' /\ WidgetOnce'
  BY DEF NodesOnce, Allocated, WidgetOnce
<1>4. ParentOfListed'
  BY <1>2 DEF ParentOfListed
<1>5. ListedIfParent'
  BY <1>2 DEF ListedIfParent
<1>6. ChangedOnce'
  BY <1>1 DEF ChangedOnce
<1>7. RemovedIsCurrent'
  BY DEF RemovedIsCurrent
<1>8. FramesRight'
  <2>1. \A c : /\ PutFrame(c)' <=> PutFrame(c)
               /\ RemoveFrame(c)' <=> RemoveFrame(c)
               /\ ForallFrame(c)' <=> ForallFrame(c)
    BY DEF PutFrame, RemoveFrame, ForallFrame
  <2>2. SUFFICES ASSUME NEW i \in DOMAIN calls'
                 PROVE  /\ calls'[i].op = "put" => PutFrame(calls'[i])
                        /\ calls'[i].op = "remove" => RemoveFrame(calls'[i])
                        /\ calls'[i].op = "forall" => ForallFrame(calls'[i])
    BY <2>1 DEF FramesRight
  <2>3. QED BY DEF FramesRight
<1>9. QED BY <1>3, <1>4, <1>5, <1>6, <1>7, <1>8

\* A frame that is right after a step, whichever it was before.
FrameRight(d) ==
    /\ d.op = "put" => PutFrame(d)
    /\ d.op = "remove" => RemoveFrame(d)
    /\ d.op = "forall" => ForallFrame(d)

LEMMA FramesAfter ==
    ASSUME \A i \in DOMAIN calls' : \E d : calls'[i] = d /\ FrameRight(d)'
    PROVE  FramesRight'
<1>1. SUFFICES ASSUME NEW i \in DOMAIN calls'
      PROVE  (/\ calls[i].op = "put" => PutFrame(calls[i])
              /\ calls[i].op = "remove" => RemoveFrame(calls[i])
              /\ calls[i].op = "forall" => ForallFrame(calls[i]))'
  BY DEF FramesRight
<1>2. PICK d : calls'[i] = d /\ FrameRight(d)'
  OBVIOUS
<1>3. QED BY <1>2 DEF FrameRight, PutFrame, RemoveFrame, ForallFrame

\* A step that begins to put w in the free node n of p.
LEMMA BeginPut ==
    ASSUME Consistent, Discreet,
           NEW p \in Panels, NEW w \in Widgets, NEW x \in Places, NEW n \in Nodes,
           NEW c, c = [op |-> "put", panel |-> p, widget |-> w, node |-> n, todo |-> {}],
           parent[w] = None, MayTouch(w), child[n] = None,
           child' = [child EXCEPT ![n] = [widget |-> w, place |-> x]],
           parent' = [parent EXCEPT ![w] = p],
           calls' = Append(calls, c),
           children' = children
    PROVE  ListsAgree'
<1>1. c \in Frame /\ c.op = "put" /\ c.panel = p /\ c.widget = w /\ c.node = n
  BY DEF Frame
<1> DEFINE top == Len(calls) + 1
<1>2. calls \in Seq(Frame)
  BY Typed DEF Consistent
<1>3. /\ top \in DOMAIN calls' /\ calls'[top] = c /\ top \notin DOMAIN calls
      /\ \A i \in DOMAIN calls : i \in DOMAIN calls' /\ calls'[i] = calls[i]
      /\ \A i \in DOMAIN calls' : i \in DOMAIN calls \/ i = top
  BY <1>1, <1>2, Pushed
<1> HIDE DEF top
<1>4. ~Changing(w)
  BY DEF MayTouch, Changing
<1>5. \A i, v : Changer(i, v)' <=> Changer(i, v) \/ (i = top /\ v = w)
  BY <1>1, <1>3 DEF Changer
<1>6. \A v : Changing(v)' <=> Changing(v) \/ v = w
  BY <1>1, <1>3 DEF Changing
<1>7. /\ child'[n] = [widget |-> w, place |-> x]
      /\ \A m \in Nodes : m # n => child'[m] = child[m]
      /\ parent'[w] = p /\ \A v \in Widgets : v # w => parent'[v] = parent[v]
  BY DEF Consistent, TypeOK
<1>8. \A q \in Panels, m \in Nodes : Has(children[q], m) =>
          /\ m # n /\ child'[m] = child[m] /\ child[m] # None
          /\ child[m].widget \in Widgets /\ child[m].widget # w
  <2>1. TAKE q \in Panels, m \in Nodes
  <2>2. HAVE Has(children[q], m)
  <2>3. child[m] # None /\ child[m].widget \in Widgets
    BY <2>2, Typed DEF Consistent, ListsAgree, Allocated
  <2>4. child[m].widget # w
    BY <2>2, <1>4, PanelAssumption
    DEF Consistent, ListsAgree, ParentOfListed, PanelAssumption
  <2>5. QED BY <2>3, <2>4, <1>7
<1>9. NodesOnce' /\ Allocated' /\ WidgetOnce'
  BY <1>8 DEF Consistent, ListsAgree, NodesOnce, Allocated, WidgetOnce
<1>10. ParentOfListed'
  BY <1>6, <1>7, <1>8 DEF Consistent, ListsAgree, ParentOfListed
<1>11. ListedIfParent'
  BY <1>6, <1>7, <1>8 DEF Consistent, ListsAgree, ListedIfParent
<1>12. ChangedOnce'
  BY <1>4, <1>5 DEF Consistent, ListsAgree, ChangedOnce, Changing, Changer
<1>13. RemovedIsCurrent'
  BY <1>1, <1>3 DEF Consistent, ListsAgree, RemovedIsCurrent
<1>14. FramesRight'
  <2>1. SUFFICES ASSUME NEW i \in DOMAIN calls'
                 PROVE  \E d : calls'[i] = d /\ FrameRight(d)'
    BY FramesAfter
  <2>2. CASE i = top
    <3>1. child'[n] # None
      BY <1>7, PanelAssumption DEF PanelAssumption
    <3>2. PutFrame(c)'
      BY <1>1, <1>7, <1>8, <3>1 DEF PutFrame
    <3>3. FrameRight(c)'
      BY <1>1, <3>2 DEF FrameRight
    <3>4. QED BY <2>2, <1>3, <3>3
  <2>3. CASE i \in DOMAIN calls
    <3>1. PICK d : d = calls[i]
      OBVIOUS
    <3>2. /\ calls'[i] = d /\ d.widget \in Widgets /\ d.panel \in Panels
          /\ d.node \in Nodes \union {None} /\ d.todo \in SUBSET Nodes
      BY <2>3, <3>1, <1>3, Typed DEF Consistent
    <3>3. /\ d.op = "put" => PutFrame(d) /\ d.widget # w
          /\ d.op = "remove" => RemoveFrame(d) /\ d.widget # w
          /\ d.op = "forall" => ForallFrame(d)
      BY <2>3, <3>1, <1>4 DEF Consistent, ListsAgree, FramesRight, Changing
    <3>4. d.op = "put" => PutFrame(d)'
      BY <3>2, <3>3, <1>7, <1>8 DEF PutFrame
    <3>5. d.op = "remove" => RemoveFrame(d)'
      BY <3>2, <3>3, <1>7, <1>8 DEF RemoveFrame
    <3>6. d.op = "forall" => ForallFrame(d)'
      <4>1. \A a, b : NotAfter(children[d.panel], a, b) => Has(children[d.panel], b)
        BY DEF NotAfter, Has
      <4>2. QED BY <3>2, <3>3, <1>8, <4>1 DEF ForallFrame
    <3>7. QED BY <3>2, <3>4, <3>5, <3>6 DEF FrameRight
  <2>4. QED BY <2>2, <2>3, <1>3
<1>15. QED BY <1>9, <1>10, <1>11, <1>12, <1>13, <1>14 DEF ListsAgree

\* The frame that is left: those below it stay as they are.
LEMMA Finished ==
    ASSUME Consistent, calls # << >>, calls' = Front(calls)
    PROVE  /\ Len(calls) \in DOMAIN calls /\ Top = calls[Len(calls)]
           /\ \A i \in DOMAIN calls' : /\ i \in DOMAIN calls /\ calls'[i] = calls[i]
                                       /\ i # Len(calls) /\ i < Len(calls)
           /\ \A i \in DOMAIN calls : i # Len(calls) => i \in DOMAIN calls' /\ calls'[i] = calls[i]
<1>1. calls \in Seq(Frame)
  BY Typed DEF Consistent
<1>2. Len(calls) \in Nat /\ DOMAIN calls = 1 .. Len(calls)
  BY <1>1, LenProperties
<1>3. /\ Len(calls) \in DOMAIN calls /\ Last(calls) = calls[Len(calls)]
      /\ \A i \in DOMAIN calls' : i \in DOMAIN calls /\ i # Len(calls) /\ calls'[i] = calls[i]
      /\ \A i \in DOMAIN calls : i <= Len(calls)
      /\ \A i \in DOMAIN calls : i # Len(calls) => i \in DOMAIN calls'
  BY <1>1, Popped
<1>4. QED BY <1>2, <1>3 DEF Top

\* The rest of put: the node of the frame c comes to the end of the list of p.
LEMMA EndPut ==
    ASSUME Consistent, calls # << >>, Top.op = "put",
           NEW c, c = Top, NEW p, p = c.panel, NEW n, n = c.node,
           children' = [children EXCEPT ![p] = Append(children[p], n)],
           calls' = Front(calls),
           child' = child, parent' = parent
    PROVE  /\ ListsAgree'
           /\ p \in Panels /\ n \in Nodes
           /\ children' \in [Panels -> Seq(Nodes)]
<1> DEFINE top == Len(calls)
           w == c.widget
<1>1. /\ top \in DOMAIN calls /\ c = calls[top]
      /\ \A i \in DOMAIN calls' : i \in DOMAIN calls /\ i # top /\ calls'[i] = calls[i]
      /\ \A i \in DOMAIN calls : i # top => i \in DOMAIN calls' /\ calls'[i] = calls[i]
  BY Finished
<1>2. p \in Panels /\ w \in Widgets /\ c.op = "put"
  BY <1>1, Typed DEF Consistent
<1>3. /\ n \in Nodes /\ child[n] # None /\ child[n].widget = w /\ parent[w] = p
      /\ \A q \in Panels, m \in Nodes : Has(children[q], m) => child[m].widget # w
  BY <1>1, <1>2 DEF Consistent, ListsAgree, FramesRight, PutFrame
<1> HIDE DEF top, w
<1>4. children[p] \in Seq(Nodes) /\ ~Has(children[p], n) /\ Injective(children[p])
  BY <1>2, <1>3, Typed DEF Consistent, ListsAgree, NodesOnce
<1>5. /\ children'[p] = Append(children[p], n)
      /\ \A q \in Panels : q # p => children'[q] = children[q]
      /\ children' \in [Panels -> Seq(Nodes)]
  BY <1>2, <1>3, <1>4, AppendNode DEF Consistent, TypeOK
<1>6. /\ Injective(children'[p])
      /\ \A q \in Panels : \A m : Has(children'[q], m) <=> Has(children[q], m) \/ (q = p /\ m = n)
      /\ \A q \in Panels : \A a, b : NotAfter(children[q], a, b) => NotAfter(children'[q], a, b)
  BY <1>2, <1>3, <1>4, <1>5, AppendNode
<1>7. \A i, v : Changer(i, v)' => Changer(i, v) /\ i # top
  BY <1>1 DEF Changer
<1>8. \A v \in Widgets : v # w => (Changing(v)' <=> Changing(v))
  BY <1>1 DEF Changing, w
<1>9. NodesOnce'
  BY <1>5, <1>6 DEF Consistent, ListsAgree, NodesOnce
<1>10. Allocated' /\ WidgetOnce'
  <2>1. Allocated'
    BY <1>3, <1>6 DEF Consistent, ListsAgree, Allocated
  <2>2. ASSUME NEW q \in Panels, NEW r \in Panels, NEW a \in Nodes, NEW b \in Nodes,
               Has(children'[q], a), Has(children'[r], b), child[a].widget = child[b].widget
        PROVE  q = r /\ a = b
    BY <2>2, <1>3, <1>6 DEF Consistent, ListsAgree, WidgetOnce
  <2>3. QED BY <2>1, <2>2 DEF WidgetOnce
<1>11. ParentOfListed'
  <2>1. \A q \in Panels, m \in Nodes : Has(children[q], m) =>
            child[m].widget \in Widgets /\ child[m].widget # w
    BY <1>3, Typed DEF Consistent, ListsAgree, Allocated
  <2>2. QED BY <2>1, <1>3, <1>6, <1>8 DEF Consistent, ListsAgree, ParentOfListed
<1>12. ListedIfParent'
  <2>1. ASSUME NEW q \in Panels, NEW v \in Widgets, parent[v] = q, ~Changing(v)'
        PROVE  \E m \in Nodes : Has(children'[q], m) /\ child[m].widget = v
    <3>1. CASE v = w
      BY <3>1, <2>1, <1>3, <1>6
    <3>2. CASE v # w
      <4>1. PICK m \in Nodes : Has(children[q], m) /\ child[m].widget = v
        BY <3>2, <2>1, <1>8 DEF Consistent, ListsAgree, ListedIfParent
      <4>2. QED BY <4>1, <1>6
    <3>3. QED BY <3>1, <3>2
  <2>2. QED BY <2>1 DEF ListedIfParent
<1>13. ChangedOnce'
  BY <1>7 DEF Consistent, ListsAgree, ChangedOnce
<1>14. RemovedIsCurrent'
  BY <1>1 DEF Consistent, ListsAgree, RemovedIsCurrent
<1>15. FramesRight'
  <2>1. SUFFICES ASSUME NEW i \in DOMAIN calls'
                 PROVE  \E d : calls'[i] = d /\ FrameRight(d)'
    BY FramesAfter
  <2>2. PICK d : d = calls[i]
    OBVIOUS
  <2>3. /\ calls'[i] = d /\ d.widget \in Widgets /\ d.panel \in Panels
        /\ d.node \in Nodes \union {None} /\ d.todo \in SUBSET Nodes
    BY <2>2, <1>1, Typed DEF Consistent
  <2>4. /\ d.op = "put" => PutFrame(d) /\ d.widget # w
        /\ d.op = "remove" => RemoveFrame(d)
        /\ d.op = "forall" => ForallFrame(d)
    <3>1. d.op = "put" => Changer(i, d.widget) /\ Changer(top, w) /\ i # top
      BY <1>1, <1>2, <2>2 DEF Changer, w
    <3>2. d.op = "put" => d.widget # w
      BY <3>1, <1>2 DEF Consistent, ListsAgree, ChangedOnce
    <3>3. QED BY <2>2, <3>2, <1>1 DEF Consistent, ListsAgree, FramesRight
  <2>5. d.op = "put" => PutFrame(d)'
    BY <2>3, <2>4, <1>3, <1>6 DEF PutFrame
  <2>6. d.op = "remove" => RemoveFrame(d)'
    BY <2>3, <2>4, <1>6 DEF RemoveFrame
  <2>7. d.op = "forall" => ForallFrame(d)'
    BY <2>3, <2>4, <1>6 DEF ForallFrame
  <2>8. QED BY <2>3, <2>5, <2>6, <2>7 DEF FrameRight
<1>16. QED BY <1>2, <1>3, <1>5, <1>9, <1>10, <1>11, <1>12, <1>13, <1>14, <1>15 DEF ListsAgree

\* A step that begins to remove w, which is in the node n of p.
LEMMA BeginRemove ==
    ASSUME Consistent, Discreet,
           NEW p \in Panels, NEW w \in Widgets, NEW n \in Nodes,
           Has(children[p], n), child[n].widget = w,
           NEW c, c = [op |-> "remove", panel |-> p, widget |-> w, node |-> n, todo |-> {}],
           parent[w] = p, MayRemove(p, w),
           parent' = [parent EXCEPT ![w] = None],
           calls' = Append(calls, c),
           children' = children, child' = child
    PROVE  ListsAgree'
<1>1. c \in Frame /\ c.op = "remove" /\ c.panel = p /\ c.widget = w /\ c.node = n
  BY DEF Frame
<1> DEFINE top == Len(calls) + 1
<1>2. calls \in Seq(Frame)
  BY Typed DEF Consistent
<1>3. /\ top \in DOMAIN calls' /\ calls'[top] = c /\ top \notin DOMAIN calls
      /\ \A i \in DOMAIN calls : i \in DOMAIN calls' /\ calls'[i] = calls[i]
      /\ \A i \in DOMAIN calls' : i \in DOMAIN calls \/ i = top
      /\ \A i \in DOMAIN calls' : ~(top < i)
  <2>1. \A i \in DOMAIN calls' : i <= top
    BY <1>1, <1>2, Pushed
  <2>2. DOMAIN calls' \subseteq Nat /\ top \in Nat
    BY <1>1, <1>2, Pushed, LenProperties
  <2>3. QED BY <1>1, <1>2, <2>1, <2>2, Pushed
<1> HIDE DEF top
<1>4. /\ ~Changing(w)
      /\ \A i \in DOMAIN calls : calls[i].op = "forall" /\ calls[i].panel = p
                                    => calls[i].widget = w
  BY DEF MayRemove, MayTouch, Changing
<1>5. \A i, v : Changer(i, v)' <=> Changer(i, v) \/ (i = top /\ v = w)
  BY <1>1, <1>3 DEF Changer
<1>6. \A v : Changing(v)' <=> Changing(v) \/ v = w
  BY <1>1, <1>3 DEF Changing
<1>7. parent'[w] = None /\ \A v \in Widgets : v # w => parent'[v] = parent[v]
  BY DEF Consistent, TypeOK
<1>8. \A q \in Panels, m \in Nodes : Has(children[q], m) => child[m].widget \in Widgets
  BY Typed DEF Consistent, ListsAgree, Allocated
<1>9. NodesOnce' /\ Allocated' /\ WidgetOnce'
  BY DEF Consistent, ListsAgree, NodesOnce, Allocated, WidgetOnce
<1>10. ParentOfListed'
  BY <1>6, <1>7, <1>8 DEF Consistent, ListsAgree, ParentOfListed
<1>11. ListedIfParent'
  BY <1>6, <1>7 DEF Consistent, ListsAgree, ListedIfParent
<1>12. ChangedOnce'
  BY <1>4, <1>5 DEF Consistent, ListsAgree, ChangedOnce, Changing, Changer
<1>13. RemovedIsCurrent'
  BY <1>1, <1>3, <1>4 DEF Consistent, ListsAgree, RemovedIsCurrent
<1>14. FramesRight'
  <2>1. SUFFICES ASSUME NEW i \in DOMAIN calls'
                 PROVE  \E d : calls'[i] = d /\ FrameRight(d)'
    BY FramesAfter
  <2>2. CASE i = top
    <3>1. RemoveFrame(c)'
      BY <1>1, <1>7 DEF RemoveFrame
    <3>2. FrameRight(c)'
      BY <1>1, <3>1 DEF FrameRight
    <3>3. QED BY <2>2, <1>3, <3>2
  <2>3. CASE i \in DOMAIN calls
    <3>1. PICK d : d = calls[i]
      OBVIOUS
    <3>2. calls'[i] = d /\ d.widget \in Widgets
      BY <2>3, <3>1, <1>3, Typed DEF Consistent
    <3>3. /\ d.op = "put" => PutFrame(d) /\ d.widget # w
          /\ d.op = "remove" => RemoveFrame(d) /\ d.widget # w
          /\ d.op = "forall" => ForallFrame(d)
      BY <2>3, <3>1, <1>4 DEF Consistent, ListsAgree, FramesRight, Changing
    <3>4. d.op = "put" => PutFrame(d)'
      BY <3>2, <3>3, <1>7 DEF PutFrame
    <3>5. d.op = "remove" => RemoveFrame(d)'
      BY <3>2, <3>3, <1>7 DEF RemoveFrame
    <3>6. d.op = "forall" => ForallFrame(d)'
      BY <3>3 DEF ForallFrame
    <3>7. QED BY <3>2, <3>4, <3>5, <3>6 DEF FrameRight
  <2>4. QED BY <2>2, <2>3, <1>3
<1>15. QED BY <1>9, <1>10, <1>11, <1>12, <1>13, <1>14 DEF ListsAgree

\* The rest of remove: the node of the frame c leaves the list of p and is freed.
LEMMA EndRemove ==
    ASSUME Consistent, calls # << >>, Top.op = "remove",
           NEW c, c = Top, NEW p, p = c.panel, NEW n, n = c.node,
           children' = [children EXCEPT ![p] = RemoveAt(children[p], Position(children[p], n))],
           child' = [child EXCEPT ![n] = None],
           calls' = Front(calls),
           parent' = parent
    PROVE  /\ ListsAgree'
           /\ p \in Panels /\ n \in Nodes
           /\ children' \in [Panels -> Seq(Nodes)]
<1> DEFINE top == Len(calls)
           w == c.widget
<1>1. /\ top \in DOMAIN calls /\ c = calls[top]
      /\ \A i \in DOMAIN calls' : i \in DOMAIN calls /\ i # top /\ i < top /\ calls'[i] = calls[i]
      /\ \A i \in DOMAIN calls : i # top => i \in DOMAIN calls' /\ calls'[i] = calls[i]
  BY Finished
<1>2. p \in Panels /\ w \in Widgets /\ c.op = "remove"
  BY <1>1, Typed DEF Consistent
<1>3. n \in Nodes /\ Has(children[p], n) /\ child[n].widget = w /\ parent[w] = None
  BY <1>1, <1>2 DEF Consistent, ListsAgree, FramesRight, RemoveFrame
<1> HIDE DEF top, w
<1>4. children[p] \in Seq(Nodes) /\ Injective(children[p])
  BY <1>2, Typed DEF Consistent, ListsAgree, NodesOnce
<1> DEFINE rest == RemoveAt(children[p], Position(children[p], n))
<1>5. /\ rest \in Seq(Nodes) /\ Injective(rest)
      /\ \A m : Has(rest, m) <=> Has(children[p], m) /\ m # n
      /\ \A a, b : NotAfter(children[p], a, b) /\ a # n /\ b # n => NotAfter(rest, a, b)
  BY <1>3, <1>4, RemoveNode
<1>6. /\ children'[p] = rest
      /\ \A q \in Panels : q # p => children'[q] = children[q]
      /\ children' \in [Panels -> Seq(Nodes)]
  BY <1>2, <1>5 DEF Consistent, TypeOK
<1> HIDE DEF rest
<1>7. \A q \in Panels : Has(children[q], n) => q = p
  BY <1>2, <1>3 DEF Consistent, ListsAgree, WidgetOnce
<1>8. /\ \A q \in Panels : \A m : Has(children'[q], m) <=> Has(children[q], m) /\ m # n
      /\ \A q \in Panels : \A a, b :
            NotAfter(children[q], a, b) /\ a # n /\ b # n => NotAfter(children'[q], a, b)
  BY <1>2, <1>5, <1>6, <1>7
<1>9. \A m \in Nodes : m # n => child'[m] = child[m]
  BY DEF Consistent, TypeOK
<1>10. \A q \in Panels, m \in Nodes : Has(children'[q], m) =>
          /\ Has(children[q], m) /\ m # n /\ child'[m] = child[m]
          /\ child[m].widget \in Widgets /\ child[m].widget # w
  <2>1. TAKE q \in Panels, m \in Nodes
  <2>2. HAVE Has(children'[q], m)
  <2>3. Has(children[q], m) /\ m # n /\ child'[m] = child[m]
    BY <2>2, <1>8, <1>9
  <2>4. child[m].widget \in Widgets
    BY <2>3, Typed DEF Consistent, ListsAgree, Allocated
  <2>5. child[m].widget # w
    BY <2>3, <1>2, <1>3 DEF Consistent, ListsAgree, WidgetOnce
  <2>6. QED BY <2>3, <2>4, <2>5
<1>11. \A i, v : Changer(i, v)' => Changer(i, v) /\ i # top
  BY <1>1 DEF Changer
<1>12. \A v \in Widgets : v # w => (Changing(v)' <=> Changing(v))
  BY <1>1 DEF Changing, w
<1>13. NodesOnce'
  BY <1>5, <1>6 DEF Consistent, ListsAgree, NodesOnce
<1>14. Allocated'
  BY <1>10 DEF Consistent, ListsAgree, Allocated
<1>15. WidgetOnce'
  BY <1>10 DEF Consistent, ListsAgree, WidgetOnce
<1>16. ParentOfListed'
  BY <1>10, <1>12 DEF Consistent, ListsAgree, ParentOfListed
<1>17. ListedIfParent'
  <2>1. ASSUME NEW q \in Panels, NEW v \in Widgets, parent[v] = q, ~Changing(v)'
        PROVE  \E m \in Nodes : Has(children'[q], m) /\ child'[m].widget = v
    <3>1. v # w
      BY <2>1, <1>3, PanelAssumption DEF PanelAssumption
    <3>2. PICK m \in Nodes : Has(children[q], m) /\ child[m].widget = v
      BY <3>1, <2>1, <1>12 DEF Consistent, ListsAgree, ListedIfParent
    <3>3. m # n
      BY <3>1, <3>2, <1>3
    <3>4. QED BY <3>2, <3>3, <1>8, <1>9
  <2>2. QED BY <2>1 DEF ListedIfParent
<1>18. ChangedOnce'
  BY <1>11 DEF Consistent, ListsAgree, ChangedOnce
<1>19. RemovedIsCurrent'
  BY <1>1 DEF Consistent, ListsAgree, RemovedIsCurrent
<1>20. FramesRight'
  <2>1. SUFFICES ASSUME NEW i \in DOMAIN calls'
                 PROVE  \E d : calls'[i] = d /\ FrameRight(d)'
    BY FramesAfter
  <2>2. PICK d : d = calls[i]
    OBVIOUS
  <2>3. /\ calls'[i] = d /\ d.widget \in Widgets /\ d.panel \in Panels
        /\ d.node \in Nodes \union {None} /\ d.todo \in SUBSET Nodes
    BY <2>2, <1>1, Typed DEF Consistent
  <2>4. /\ d.op = "put" => PutFrame(d) /\ d.widget # w
        /\ d.op = "remove" => RemoveFrame(d) /\ d.widget # w
        /\ d.op = "forall" => ForallFrame(d) /\ (d.panel = p => d.widget = w)
    <3>1. d.op \in {"put", "remove"} => Changer(i, d.widget) /\ Changer(top, w) /\ i # top
      BY <1>1, <1>2, <2>2 DEF Changer, w
    <3>2. d.op \in {"put", "remove"} => d.widget # w
      BY <3>1, <1>2 DEF Consistent, ListsAgree, ChangedOnce
    <3>3. d.op = "forall" /\ d.panel = p => d.widget = w
      BY <1>1, <1>2, <2>2 DEF Consistent, ListsAgree, RemovedIsCurrent, w
    <3>4. QED BY <2>2, <3>2, <3>3, <1>1 DEF Consistent, ListsAgree, FramesRight
  <2>5. d.op = "put" => PutFrame(d)'
    BY <2>3, <2>4, <1>3, <1>9, <1>10 DEF PutFrame
  <2>6. d.op = "remove" => RemoveFrame(d)'
    BY <2>3, <2>4, <1>3, <1>8, <1>9 DEF RemoveFrame
  <2>7. d.op = "forall" => ForallFrame(d)'
    <3>1. SUFFICES ASSUME d.op = "forall" PROVE ForallFrame(d)'
      OBVIOUS
    <3>2. \A m \in Nodes : Has(children[d.panel], m) /\ child[m].widget # d.widget => m # n
      BY <3>1, <2>3, <2>4, <1>3, <1>7
    <3>3. \A a, b : NotAfter(children[d.panel], a, b) =>
              Has(children[d.panel], a) /\ Has(children[d.panel], b)
      BY DEF NotAfter, Has
    <3>4. ASSUME d.node # None
          PROVE  /\ Has(children'[d.panel], d.node) /\ child'[d.node].widget # d.widget
                 /\ d.node # n
      BY <3>1, <3>2, <3>4, <2>3, <2>4, <1>8, <1>9 DEF ForallFrame
    <3>5. ASSUME NEW m \in d.todo
          PROVE  /\ d.node # None /\ NotAfter(children'[d.panel], d.node, m)
                 /\ child'[m].widget # d.widget
      BY <3>1, <3>2, <3>3, <3>4, <2>3, <2>4, <1>8, <1>9 DEF ForallFrame
    <3>6. QED BY <3>4, <3>5 DEF ForallFrame
  <2>8. QED BY <2>3, <2>5, <2>6, <2>7 DEF FrameRight
<1>21. QED BY <1>2, <1>3, <1>6, <1>13, <1>14, <1>15, <1>16, <1>17, <1>18, <1>19, <1>20 DEF ListsAgree

\* A move changes the place of a child, never its widget.
LEMMA Moved ==
    ASSUME Consistent, NEW n \in Nodes, child[n] # None, NEW x \in Places,
           child' = [child EXCEPT ![n].place = x],
           children' = children, parent' = parent, calls' = calls
    PROVE  ListsAgree' /\ child' \in [Nodes -> [widget : Widgets, place : Places] \union {None}]
<1>1. child[n] \in [widget : Widgets, place : Places]
  BY Typed DEF Consistent
<1>2. /\ \A m \in Nodes : m # n => child'[m] = child[m]
      /\ child'[n] = [child[n] EXCEPT !.place = x]
      /\ child' \in [Nodes -> [widget : Widgets, place : Places] \union {None}]
  BY <1>1 DEF Consistent, TypeOK
<1>3. child'[n] # None /\ child'[n].widget = child[n].widget
  BY <1>1, <1>2, PanelAssumption DEF PanelAssumption
<1>4. \A m \in Nodes : child'[m].widget = child[m].widget /\ (child[m] # None => child'[m] # None)
  BY <1>2, <1>3
<1>5. \A i, v : Changer(i, v)' <=> Changer(i, v)
  BY DEF Changer
<1>6. \A v : Changing(v)' <=> Changing(v)
  BY DEF Changing
<1>7. NodesOnce' /\ Allocated' /\ WidgetOnce'
  BY <1>4 DEF Consistent, ListsAgree, NodesOnce, Allocated, WidgetOnce
<1>8. ParentOfListed' /\ ListedIfParent'
  BY <1>4, <1>6 DEF Consistent, ListsAgree, ParentOfListed, ListedIfParent
<1>9. ChangedOnce' /\ RemovedIsCurrent'
  BY <1>5 DEF Consistent, ListsAgree, ChangedOnce, RemovedIsCurrent
<1>10. FramesRight'
  <2>1. SUFFICES ASSUME NEW i \in DOMAIN calls'
                 PROVE  \E d : calls'[i] = d /\ FrameRight(d)'
    BY FramesAfter
  <2>2. PICK d : d = calls[i]
    OBVIOUS
  <2>3. /\ calls'[i] = d /\ d.node \in Nodes \union {None} /\ d.todo \in SUBSET Nodes
        /\ (d.op = "put" => PutFrame(d)) /\ (d.op = "remove" => RemoveFrame(d))
        /\ (d.op = "forall" => ForallFrame(d))
    BY <2>2, Typed DEF Consistent, ListsAgree, FramesRight
  <2>4. d.op = "put" => PutFrame(d)'
    BY <2>3, <1>4 DEF PutFrame
  <2>5. d.op = "remove" => RemoveFrame(d)'
    BY <2>3, <1>4 DEF RemoveFrame
  <2>6. d.op = "forall" => ForallFrame(d)'
    BY <2>3, <1>4 DEF ForallFrame
  <2>7. QED BY <2>3, <2>4, <2>5, <2>6 DEF FrameRight
<1>11. QED BY <1>2, <1>7, <1>8, <1>9, <1>10 DEF ListsAgree

----------------------------------------------------------------------------
(* The steps.                                                              *)

\* Nothing happens to the lists when the picture changes.
LEMMA PictureOnly ==
    ASSUME Consistent, UNCHANGED <<listVars, calls>>
    PROVE  ListsAgree'
  BY ForallOnTop

\* One panel more, or less, holds the pixbuf.
LEMMA PixbufTaken ==
    ASSUME PixbufCounted, pixbufRefs \in Nat, NEW p \in Panels,
           pixbuf \in [Panels -> BOOLEAN],
           pixbuf' = [pixbuf EXCEPT ![p] = TRUE], pixbufRefs' = pixbufRefs + 1
    PROVE  PixbufCounted'
<1>1. WithPixbuf' = WithPixbuf \union {p}
  BY DEF WithPixbuf
<1>2. IsFiniteSet(WithPixbuf) /\ Cardinality(WithPixbuf) \in Nat
  BY FS_CardinalityType DEF PixbufCounted
<1>3. /\ IsFiniteSet(WithPixbuf \union {p})
      /\ Cardinality(WithPixbuf \union {p}) \in {Cardinality(WithPixbuf), Cardinality(WithPixbuf) + 1}
  BY <1>2, FS_AddElement
<1>4. QED BY <1>1, <1>2, <1>3 DEF PixbufCounted

LEMMA PixbufGiven ==
    ASSUME PixbufCounted, pixbufRefs \in Nat, NEW p \in Panels,
           pixbuf \in [Panels -> BOOLEAN],
           pixbuf' = [pixbuf EXCEPT ![p] = FALSE]
    PROVE  /\ pixbuf[p] => pixbufRefs - 1 \in Nat
           /\ pixbufRefs' = (IF pixbuf[p] THEN pixbufRefs - 1 ELSE pixbufRefs) => PixbufCounted'
           /\ pixbufRefs' = (IF pixbuf[p] THEN pixbufRefs + 1 ELSE pixbufRefs) => PixbufCounted'
<1>1. WithPixbuf' = WithPixbuf \ {p}
  BY DEF WithPixbuf
<1>2. IsFiniteSet(WithPixbuf) /\ Cardinality(WithPixbuf) \in Nat /\ Cardinality(WithPixbuf) <= pixbufRefs
  BY FS_CardinalityType DEF PixbufCounted
<1>3. /\ IsFiniteSet(WithPixbuf \ {p})
      /\ Cardinality(WithPixbuf \ {p})
            = IF pixbuf[p] THEN Cardinality(WithPixbuf) - 1 ELSE Cardinality(WithPixbuf)
  BY <1>2, FS_RemoveElement DEF WithPixbuf
<1>4. pixbuf[p] => Cardinality(WithPixbuf) # 0
  BY <1>2, FS_EmptySet DEF WithPixbuf
<1>5. QED BY <1>1, <1>2, <1>3, <1>4 DEF PixbufCounted

LEMMA NewStep ==
    ASSUME Consistent, NEW p \in Panels, New(p)
    PROVE  Consistent'
<1> USE DEF New
<1>1. TypeOK'
  BY DEF Consistent, TypeOK, listVars
<1>2. PixbufCounted'
  BY PixbufTaken DEF Consistent, TypeOK
<1>3. ListsAgree'
  BY PictureOnly
<1>4. QED BY <1>1, <1>2, <1>3 DEF Consistent

LEMMA RealizeStep ==
    ASSUME Consistent, NEW p \in Panels, Realize(p)
    PROVE  Consistent'
<1> USE DEF Realize, Render, UnrefPixbuf
<1>1. PixbufCounted' /\ pixbufRefs' \in Nat
  BY PixbufGiven DEF Consistent, TypeOK
<1>2. pixmap' \in [Panels -> BOOLEAN] /\ pixmapRefs' \in [Panels -> Nat]
  BY DEF Consistent, TypeOK
<1>3. realized' \in [Panels -> BOOLEAN] /\ pixbuf' \in [Panels -> BOOLEAN]
  BY DEF Consistent, TypeOK
<1>4. TypeOK'
  BY <1>1, <1>2, <1>3 DEF Consistent, TypeOK, listVars
<1>5. ListsAgree'
  BY PictureOnly
<1>6. QED BY <1>1, <1>4, <1>5 DEF Consistent

LEMMA UnrealizeStep ==
    ASSUME Consistent, NEW p \in Panels, Unrealize(p)
    PROVE  Consistent'
<1> USE DEF Unrealize
<1>1. TypeOK'
  BY DEF Consistent, TypeOK, listVars
<1>2. PixbufCounted'
  BY DEF Consistent, PixbufCounted, WithPixbuf
<1>3. ListsAgree'
  BY PictureOnly
<1>4. QED BY <1>1, <1>2, <1>3 DEF Consistent

\* Where forall begins.
LEMMA ForallBegins ==
    ASSUME Consistent, NEW p \in Panels, StartForall(p), UNCHANGED listVars
    PROVE  ListsAgree' /\ calls' \in Seq(Frame)
<1> DEFINE list == children[p]
<1>1. calls \in Seq(Frame) /\ list \in Seq(Nodes) /\ Injective(list)
  BY Typed DEF Consistent, ListsAgree, NodesOnce
<1>2. CASE list = << >>
  BY <1>1, <1>2, PictureOnly DEF StartForall
<1>3. CASE list # << >>
  <2> DEFINE n == Head(list)
             todo == ToSet(Tail(list))
  <2>1. PICK c : c = AtChild(p, n, todo)
    OBVIOUS
  <2>2. /\ Len(list) \in Nat /\ 1 \in DOMAIN list /\ DOMAIN list = 1 .. Len(list)
        /\ n = list[1] /\ n \in Nodes
        /\ Tail(list) \in Seq(Nodes) /\ DOMAIN Tail(list) = 1 .. Len(list) - 1
        /\ \A i \in 1 .. Len(list) - 1 : Tail(list)[i] = list[i + 1] /\ Tail(list)[i] \in Nodes
    <3>1. Len(list) \in Nat \ {0} /\ DOMAIN list = 1 .. Len(list)
      BY <1>1, <1>3, LenProperties, EmptySeq
    <3>2. /\ n \in Nodes /\ Tail(list) \in Seq(Nodes) /\ Len(Tail(list)) = Len(list) - 1
          /\ \A i \in 1 .. Len(Tail(list)) : Tail(list)[i] = list[i + 1]
      BY <1>1, <1>3, HeadTailProperties
    <3>3. DOMAIN Tail(list) = 1 .. Len(Tail(list))
      BY <3>2, LenProperties
    <3>4. \A i \in 1 .. Len(Tail(list)) : Tail(list)[i] \in Nodes
      BY <3>2, ElementOfSeq
    <3>5. QED BY <3>1, <3>2, <3>3, <3>4
  <2>3. Has(list, n)
    BY <2>2 DEF Has
  <2>4. todo \in SUBSET Nodes
    BY <2>2 DEF ToSet
  <2>5. ASSUME NEW m \in todo
        PROVE  NotAfter(list, n, m) /\ m # n
    <3>1. PICK i \in 1 .. Len(list) - 1 : m = list[i + 1]
      BY <2>2 DEF ToSet
    <3>2. i + 1 \in DOMAIN list /\ 1 <= i + 1 /\ i + 1 # 1
      BY <2>2
    <3>3. QED BY <3>1, <3>2, <2>2, <1>1 DEF NotAfter, Injective
  <2> HIDE DEF todo, n
  <2>6. c \in Frame /\ c.op = "forall" /\ ForallFrame(c)
    BY <2>1, <2>2, <2>3, <2>4, <2>5, NextFrame
  <2>7. calls' = Append(calls, c)
    BY <1>3, <2>1 DEF StartForall, n, todo
  <2> DEFINE top == Len(calls) + 1
  <2>8. /\ calls' \in Seq(Frame) /\ calls'[top] = c
        /\ \A i \in DOMAIN calls : i \in DOMAIN calls' /\ calls'[i] = calls[i]
        /\ \A i \in DOMAIN calls' : i \in DOMAIN calls \/ i = top
        /\ \A i \in DOMAIN calls' : i <= top
    BY <1>1, <2>6, <2>7, Pushed
  <2>9. \A g \in DOMAIN calls' : ~(top < g)
    BY <1>1, <2>8, LenProperties
  <2> HIDE DEF top
  <2>10. ListsAgree'
    <3>1. \A i \in DOMAIN calls' :
              \/ i \in DOMAIN calls /\ calls'[i] = calls[i]
              \/ /\ calls'[i].op = "forall" /\ ForallFrame(calls'[i])
                 /\ \A g \in DOMAIN calls' : ~(i < g)
      BY <2>6, <2>8, <2>9
    <3>2. QED BY <3>1, <2>8, ForallOnTop
  <2>11. QED BY <2>8, <2>10
<1>4. QED BY <1>2, <1>3

LEMMA DestroyStep ==
    ASSUME Consistent, NEW p \in Panels, Destroy(p)
    PROVE  Consistent'
<1> USE DEF Destroy
<1>1. PixbufCounted' /\ pixbufRefs' \in Nat
  <2>1. /\ pixbufRefs \in Nat /\ pixbuf \in [Panels -> BOOLEAN] /\ PixbufCounted
        /\ pixbuf' = [pixbuf EXCEPT ![p] = FALSE]
        /\ pixbufRefs' = IF pixbuf[p] THEN pixbufRefs + 1 ELSE pixbufRefs
    BY DEF Consistent, TypeOK
  <2> HIDE DEF Destroy
  <2>2. PixbufCounted'
    BY <2>1, PixbufGiven
  <2>3. QED BY <2>1, <2>2
<1>2. ListsAgree' /\ calls' \in Seq(Frame)
  BY ForallBegins
<1>3. pixmap' \in [Panels -> BOOLEAN] /\ pixmapRefs' \in [Panels -> Nat]
  BY DEF Consistent, TypeOK
<1>4. TypeOK'
  BY <1>1, <1>2, <1>3 DEF Consistent, TypeOK, listVars
<1>5. QED BY <1>1, <1>2, <1>4 DEF Consistent

LEMMA ForallStep ==
    ASSUME Consistent, NEW p \in Panels, Forall(p)
    PROVE  Consistent'
<1> USE DEF Forall
<1>1. ListsAgree' /\ calls' \in Seq(Frame)
  BY ForallBegins
<1>2. TypeOK'
  BY <1>1 DEF Consistent, TypeOK, listVars, pictureVars
<1>3. PixbufCounted'
  BY DEF Consistent, PixbufCounted, WithPixbuf, pictureVars
<1>4. QED BY <1>1, <1>2, <1>3 DEF Consistent

LEMMA PutStep ==
    ASSUME Consistent, Discreet, NEW p \in Panels, NEW w \in Widgets, NEW x \in Places, Put(p, w, x)
    PROVE  Consistent'
<1>1. PICK n \in Nodes :
          /\ child[n] = None
          /\ child' = [child EXCEPT ![n] = [widget |-> w, place |-> x]]
          /\ calls' = Append(calls, [op |-> "put", panel |-> p, widget |-> w,
                                     node |-> n, todo |-> {}])
  BY DEF Put
<1>2. PICK c : c = [op |-> "put", panel |-> p, widget |-> w, node |-> n, todo |-> {}]
  OBVIOUS
<1>3. /\ parent[w] = None /\ MayTouch(w) /\ parent' = [parent EXCEPT ![w] = p]
      /\ children' = children /\ UNCHANGED <<life, pictureVars, aborted>>
  BY DEF Put
<1>4. calls' = Append(calls, c)
  BY <1>1, <1>2
<1>5. ListsAgree'
  BY <1>1, <1>2, <1>3, <1>4, BeginPut
<1>6. calls' \in Seq(Frame)
  <2>1. c \in Frame
    BY <1>2 DEF Frame
  <2>2. QED BY <2>1, <1>4, Typed, Pushed DEF Consistent
<1>7. child' \in [Nodes -> [widget : Widgets, place : Places] \union {None}]
  BY <1>1 DEF Consistent, TypeOK
<1>8. TypeOK'
  BY <1>3, <1>6, <1>7 DEF Consistent, TypeOK, pictureVars
<1>9. PixbufCounted' /\ ~aborted'
  BY <1>3 DEF Consistent, PixbufCounted, WithPixbuf, pictureVars
<1>10. QED BY <1>5, <1>8, <1>9 DEF Consistent

\* What is left when a callback has returned is the stack it was called from.
LEMMA ReturnTyped ==
    ASSUME Consistent, calls # << >>, calls' = Front(calls)
    PROVE  calls' \in Seq(Frame)
  BY Typed, Popped DEF Consistent

LEMMA FinishPutStep ==
    ASSUME Consistent, FinishPut
    PROVE  Consistent'
<1>1. PICK c : c = Top
  OBVIOUS
<1>2. PICK p : p = c.panel
  OBVIOUS
<1>3. PICK n : n = c.node
  OBVIOUS
<1>4. /\ calls # << >> /\ Top.op = "put" /\ calls' = Front(calls)
      /\ child' = child /\ parent' = parent /\ UNCHANGED <<life, pictureVars, aborted>>
      /\ children' = [children EXCEPT ![p] = Append(children[p], n)]
  BY <1>1, <1>2, <1>3 DEF FinishPut
<1>5. ListsAgree' /\ children' \in [Panels -> Seq(Nodes)]
  BY <1>1, <1>2, <1>3, <1>4, EndPut
<1>6. calls' \in Seq(Frame)
  BY <1>4, ReturnTyped
<1>7. TypeOK'
  BY <1>4, <1>5, <1>6 DEF Consistent, TypeOK, pictureVars
<1>8. PixbufCounted' /\ ~aborted'
  BY <1>4 DEF Consistent, PixbufCounted, WithPixbuf, pictureVars
<1>9. QED BY <1>5, <1>7, <1>8 DEF Consistent

\* The assertion holds: the widget has its parent and nobody changes it, so it
\* is in the list of its parent.
LEMMA MoveStep ==
    ASSUME Consistent, Discreet, NEW p \in Panels, NEW w \in Widgets, NEW x \in Places, Move(p, w, x)
    PROVE  Consistent'
<1>1. PICK n : n = GetChild(p, w)
  OBVIOUS
<1>2. parent[w] = p /\ MayTouch(w)
  BY DEF Move
<1>3. \E m \in Nodes : Has(children[p], m) /\ child[m].widget = w
  <2>1. ~Changing(w)
    BY <1>2 DEF MayTouch, Changing
  <2>2. QED BY <1>2, <2>1 DEF Consistent, ListsAgree, ListedIfParent
<1>4. n # None /\ n \in Nodes /\ child[n] # None
  BY <1>1, <1>3, Found
<1>5. /\ child' = [child EXCEPT ![n].place = x] /\ aborted' = aborted
      /\ children' = children /\ parent' = parent /\ calls' = calls
      /\ UNCHANGED <<life, pictureVars>>
  BY <1>1, <1>4 DEF Move
<1>6. ListsAgree' /\ child' \in [Nodes -> [widget : Widgets, place : Places] \union {None}]
  BY <1>4, <1>5, Moved
<1>7. TypeOK'
  BY <1>5, <1>6 DEF Consistent, TypeOK, pictureVars
<1>8. PixbufCounted' /\ ~aborted'
  BY <1>5 DEF Consistent, PixbufCounted, WithPixbuf, pictureVars
<1>9. QED BY <1>6, <1>7, <1>8 DEF Consistent

LEMMA RemoveChildStep ==
    ASSUME Consistent, Discreet, NEW p \in Panels, NEW w \in Widgets, RemoveChild(p, w)
    PROVE  Consistent'
<1>1. PICK n : n = GetChild(p, w)
  OBVIOUS
<1>2. PICK c : c = [op |-> "remove", panel |-> p, widget |-> w, node |-> n, todo |-> {}]
  OBVIOUS
<1>3. /\ n # None /\ parent[w] = p /\ MayRemove(p, w)
      /\ parent' = [parent EXCEPT ![w] = None] /\ calls' = Append(calls, c)
      /\ children' = children /\ child' = child /\ UNCHANGED <<life, pictureVars, aborted>>
  BY <1>1, <1>2 DEF RemoveChild
<1>4. n \in Nodes /\ Has(children[p], n) /\ child[n].widget = w
  BY <1>1, <1>3, Found
<1>5. ListsAgree'
  BY <1>2, <1>3, <1>4, BeginRemove
<1>6. calls' \in Seq(Frame)
  <2>1. c \in Frame
    BY <1>2, <1>4 DEF Frame
  <2>2. QED BY <2>1, <1>3, Typed, Pushed DEF Consistent
<1>7. parent' \in [Widgets -> Panels \union {None}]
  BY <1>3 DEF Consistent, TypeOK
<1>8. TypeOK'
  BY <1>3, <1>6, <1>7 DEF Consistent, TypeOK, pictureVars
<1>9. PixbufCounted' /\ ~aborted'
  BY <1>3 DEF Consistent, PixbufCounted, WithPixbuf, pictureVars
<1>10. QED BY <1>5, <1>8, <1>9 DEF Consistent

LEMMA FinishRemoveStep ==
    ASSUME Consistent, FinishRemove
    PROVE  Consistent'
<1>1. PICK c : c = Top
  OBVIOUS
<1>2. PICK p : p = c.panel
  OBVIOUS
<1>3. PICK n : n = c.node
  OBVIOUS
<1>4. /\ calls # << >> /\ Top.op = "remove" /\ calls' = Front(calls)
      /\ child' = [child EXCEPT ![n] = None]
      /\ parent' = parent /\ UNCHANGED <<life, pictureVars, aborted>>
      /\ children' = [children EXCEPT ![p] = RemoveAt(children[p], Position(children[p], n))]
  BY <1>1, <1>2, <1>3 DEF FinishRemove, Unlink
<1>5. ListsAgree' /\ children' \in [Panels -> Seq(Nodes)]
  BY <1>1, <1>2, <1>3, <1>4, EndRemove
<1>6. calls' \in Seq(Frame)
  BY <1>4, ReturnTyped
<1>7. child' \in [Nodes -> [widget : Widgets, place : Places] \union {None}]
  BY <1>4 DEF Consistent, TypeOK
<1>8. TypeOK'
  BY <1>4, <1>5, <1>6, <1>7 DEF Consistent, TypeOK, pictureVars
<1>9. PixbufCounted' /\ ~aborted'
  BY <1>4 DEF Consistent, PixbufCounted, WithPixbuf, pictureVars
<1>10. QED BY <1>5, <1>8, <1>9 DEF Consistent

LEMMA ContinueForallStep ==
    ASSUME Consistent, ContinueForall
    PROVE  Consistent'
<1> DEFINE top == Len(calls)
<1>1. PICK d : d = Top
  OBVIOUS
<1>2. PICK n : n = d.node
  OBVIOUS
<1>3. /\ calls # << >> /\ d.op = "forall" /\ UNCHANGED <<life, pictureVars, listVars, aborted>>
      /\ calls' = IF n = None THEN Front(calls)
                  ELSE [calls EXCEPT ![top] = AtChild(d.panel, n, d.todo \ {n})]
  BY <1>1, <1>2 DEF ContinueForall
<1>4. calls \in Seq(Frame) /\ top \in DOMAIN calls /\ d = calls[top] /\ top \in Nat
      /\ DOMAIN calls = 1 .. top
  BY <1>1, <1>3, Typed, Popped, LenProperties DEF Consistent, Top
<1>5. ListsAgree' /\ calls' \in Seq(Frame)
  <2>1. CASE n = None
    <3>1. calls' = Front(calls)
      BY <2>1, <1>3
    <3>2. \A i \in DOMAIN calls : calls[i].op # "forall" => i \in DOMAIN calls' /\ calls'[i] = calls[i]
      BY <3>1, <1>1, <1>3, <1>4, Finished
    <3>3. \A i \in DOMAIN calls' : i \in DOMAIN calls /\ calls'[i] = calls[i]
      BY <3>1, <1>3, Finished
    <3>4. ListsAgree'
      BY <1>3, <3>2, <3>3, ForallOnTop
    <3>5. QED BY <3>1, <3>4, <1>3, ReturnTyped
  <2>2. CASE n # None
    <3>1. PICK p : p = d.panel
      OBVIOUS
    <3>2. PICK todo : todo = d.todo \ {n}
      OBVIOUS
    <3>3. PICK c : c = AtChild(p, n, todo)
      OBVIOUS
    <3>4. /\ d \in Frame /\ p \in Panels /\ n \in Nodes /\ d.todo \in SUBSET Nodes
          /\ ForallFrame(d)
      BY <2>2, <3>1, <1>2, <1>3, <1>4, Typed DEF Consistent, ListsAgree, FramesRight
    <3>5. /\ Has(children[p], n) /\ todo \in SUBSET Nodes
          /\ \A m \in todo : NotAfter(children[p], n, m) /\ m # n
      BY <2>2, <3>1, <3>2, <3>4, <1>2 DEF ForallFrame
    <3>6. c \in Frame /\ c.op = "forall" /\ ForallFrame(c)
      BY <3>3, <3>4, <3>5, NextFrame
    <3>7. calls' = [calls EXCEPT ![top] = c]
      BY <2>2, <3>1, <3>2, <3>3, <1>3
    <3>8. /\ calls' \in Seq(Frame) /\ DOMAIN calls' = DOMAIN calls /\ calls'[top] = c
          /\ \A i \in DOMAIN calls : i # top => calls'[i] = calls[i]
      BY <1>4, <3>6, <3>7, ExceptSeq, LenProperties
    <3>9. \A g \in DOMAIN calls' : ~(top < g)
      BY <1>4, <3>8
    <3> HIDE DEF top
    <3>10. \A i \in DOMAIN calls : calls[i].op # "forall" => i \in DOMAIN calls' /\ calls'[i] = calls[i]
      BY <1>3, <1>4, <3>8
    <3>11. \A i \in DOMAIN calls' :
              \/ i \in DOMAIN calls /\ calls'[i] = calls[i]
              \/ /\ calls'[i].op = "forall" /\ ForallFrame(calls'[i])
                 /\ \A g \in DOMAIN calls' : ~(i < g)
      BY <3>6, <3>8, <3>9
    <3>12. ListsAgree'
      BY <1>3, <3>10, <3>11, ForallOnTop
    <3>13. QED BY <3>8, <3>12
  <2>3. QED BY <2>1, <2>2
<1>6. TypeOK'
  BY <1>3, <1>5 DEF Consistent, TypeOK, pictureVars, listVars
<1>7. PixbufCounted' /\ ~aborted'
  BY <1>3 DEF Consistent, PixbufCounted, WithPixbuf, pictureVars
<1>8. QED BY <1>5, <1>6, <1>7 DEF Consistent

LEMMA InitConsistent == Init => Consistent
<1> SUFFICES ASSUME Init PROVE Consistent
  OBVIOUS
<1> USE DEF Init
<1>1. \A p \in Panels : children[p] = << >> /\ \A n : ~Has(children[p], n)
  BY DEF Has
<1>2. calls = << >> /\ DOMAIN calls = {}
  OBVIOUS
<1>3. TypeOK
  <2>1. << >> \in Seq(Nodes) /\ << >> \in Seq(Frame)
    BY EmptySeq
  <2>2. /\ life \in [Panels -> {"UNBORN", "ALIVE", "DESTROYED"}]
        /\ realized \in [Panels -> BOOLEAN] /\ pixbuf \in [Panels -> BOOLEAN]
        /\ pixmap \in [Panels -> BOOLEAN]
        /\ pixbufRefs \in Nat /\ pixmapRefs \in [Panels -> Nat]
    OBVIOUS
  <2>3. /\ children \in [Panels -> Seq(Nodes)]
        /\ child \in [Nodes -> [widget : Widgets, place : Places] \union {None}]
        /\ parent \in [Widgets -> Panels \union {None}]
        /\ calls \in Seq(Frame) /\ aborted \in BOOLEAN
    BY <2>1
  <2>4. QED BY <2>2, <2>3 DEF TypeOK
<1>4. PixbufCounted
  <2>1. WithPixbuf = {}
    BY DEF WithPixbuf
  <2>2. QED BY <2>1, FS_EmptySet DEF PixbufCounted
<1>5. NodesOnce
  BY <1>1 DEF NodesOnce, Injective
<1>6. Allocated /\ WidgetOnce /\ ParentOfListed
  BY <1>1 DEF Allocated, WidgetOnce, ParentOfListed
<1>7. ListedIfParent
  BY PanelAssumption DEF ListedIfParent, PanelAssumption
<1>8. FramesRight /\ ChangedOnce /\ RemovedIsCurrent
  BY <1>2 DEF FramesRight, ChangedOnce, RemovedIsCurrent, Changer
<1>9. QED BY <1>3, <1>4, <1>5, <1>6, <1>7, <1>8 DEF Consistent, ListsAgree

LEMMA NextConsistent == Discreet /\ Consistent /\ [Next]_vars => Consistent'
<1> SUFFICES ASSUME Discreet, Consistent, [Next]_vars PROVE Consistent'
  OBVIOUS
<1>1. ASSUME NEW p \in Panels, New(p) PROVE Consistent'
  BY <1>1, NewStep
<1>2. ASSUME NEW p \in Panels, Realize(p) PROVE Consistent'
  BY <1>2, RealizeStep
<1>3. ASSUME NEW p \in Panels, Unrealize(p) PROVE Consistent'
  BY <1>3, UnrealizeStep
<1>4. ASSUME NEW p \in Panels, Destroy(p) PROVE Consistent'
  BY <1>4, DestroyStep
<1>5. ASSUME NEW p \in Panels, Forall(p) PROVE Consistent'
  BY <1>5, ForallStep
<1>6. ASSUME NEW p \in Panels, NEW w \in Widgets, NEW x \in Places, Put(p, w, x) PROVE Consistent'
  BY <1>6, PutStep
<1>7. ASSUME NEW p \in Panels, NEW w \in Widgets, NEW x \in Places, Move(p, w, x) PROVE Consistent'
  BY <1>7, MoveStep
<1>8. ASSUME NEW p \in Panels, NEW w \in Widgets, RemoveChild(p, w) PROVE Consistent'
  BY <1>8, RemoveChildStep
<1>9. CASE FinishPut
  BY <1>9, FinishPutStep
<1>10. CASE FinishRemove
  BY <1>10, FinishRemoveStep
<1>11. CASE ContinueForall
  BY <1>11, ContinueForallStep
<1>12. CASE UNCHANGED vars
  <2>1. UNCHANGED <<life, pictureVars, listVars, calls, aborted>>
    BY <1>12 DEF vars
  <2>2. TypeOK'
    BY <2>1 DEF Consistent, TypeOK, pictureVars, listVars
  <2>3. PixbufCounted' /\ ~aborted'
    BY <2>1 DEF Consistent, PixbufCounted, WithPixbuf, pictureVars
  <2>4. QED BY <2>1, <2>2, <2>3, PictureOnly DEF Consistent
<1>13. QED
  BY <1>1, <1>2, <1>3, <1>4, <1>5, <1>6, <1>7, <1>8, <1>9, <1>10, <1>11, <1>12 DEF Next

----------------------------------------------------------------------------
(* What follows from the invariant.                                        *)

LEMMA ListsMatch == Consistent => ListMatchesParent
<1> SUFFICES ASSUME Consistent, NEW w \in Widgets, NEW p \in Panels, ~Changing(w)
             PROVE  Cardinality({i \in DOMAIN children[p] : child[children[p][i]] # None
                                                             /\ child[children[p][i]].widget = w})
                        = IF parent[w] = p THEN 1 ELSE 0
  BY DEF ListMatchesParent
<1> DEFINE list == children[p]
           at == {i \in DOMAIN list : child[list[i]] # None /\ child[list[i]].widget = w}
<1>1. \A i \in DOMAIN list : list[i] \in Nodes /\ Has(list, list[i])
  BY Typed, ElementOfSeq, LenProperties DEF Consistent, Has
<1>2. CASE parent[w] = p
  <2>1. PICK n \in Nodes : Has(list, n) /\ child[n].widget = w
    BY <1>2 DEF Consistent, ListsAgree, ListedIfParent
  <2>2. PICK i \in DOMAIN list : list[i] = n
    BY <2>1 DEF Has
  <2>3. i \in at
    BY <2>1, <2>2 DEF Consistent, ListsAgree, Allocated
  <2>4. ASSUME NEW j \in at
        PROVE  j = i
    <3>1. list[j] = n
      BY <2>1, <1>1 DEF Consistent, ListsAgree, WidgetOnce
    <3>2. QED BY <3>1, <2>2 DEF Consistent, ListsAgree, NodesOnce, Injective
  <2>5. at = {i}
    BY <2>3, <2>4
  <2>6. QED BY <2>5, <1>2, FS_Singleton
<1>3. CASE parent[w] # p
  <2>1. at = {}
    BY <1>1, <1>3 DEF Consistent, ListsAgree, ParentOfListed
  <2>2. QED BY <2>1, <1>3, FS_EmptySet
<1>4. QED BY <1>2, <1>3

LEMMA AllReached == Consistent => ForallReachesAll
<1> SUFFICES ASSUME Consistent, NEW i \in DOMAIN calls, calls[i].op = "forall"
             PROVE  LET list  == children[calls[i].panel]
                        next  == calls[i].node
                        ahead == {list[j] : j \in {j \in DOMAIN list : \E k \in 1 .. j : list[k] = next}}
                    IN
                    /\ next # None => next \in ToSet(list) /\ child[next] # None
                    /\ calls[i].todo \intersect ToSet(list) \subseteq ahead
  BY DEF ForallReachesAll
<1> DEFINE list  == children[calls[i].panel]
           next  == calls[i].node
           ahead == {list[j] : j \in {j \in DOMAIN list : \E k \in 1 .. j : list[k] = next}}
<1>1. /\ ForallFrame(calls[i]) /\ calls[i].panel \in Panels
      /\ next \in Nodes \union {None} /\ list \in Seq(Nodes)
  BY Typed DEF Consistent, ListsAgree, FramesRight
<1>2. ASSUME next # None
      PROVE  next \in ToSet(list) /\ child[next] # None
  <2>1. Has(list, next)
    BY <1>1, <1>2 DEF ForallFrame
  <2>2. QED BY <1>1, <1>2, <2>1 DEF ToSet, Has, Consistent, ListsAgree, Allocated
<1>3. ASSUME NEW m \in calls[i].todo
      PROVE  m \in ahead
  <2>1. NotAfter(list, next, m)
    BY <1>1, <1>3 DEF ForallFrame
  <2>2. PICK k, j \in DOMAIN list : k <= j /\ list[k] = next /\ list[j] = m
    BY <2>1 DEF NotAfter
  <2>3. k \in 1 .. j
    BY <1>1, <2>2, LenProperties
  <2>4. QED BY <2>2, <2>3
<1>4. QED BY <1>2, <1>3

\* The invariant of the panels, for any numbers of panels, widgets, nodes and
\* callbacks inside callbacks: put, remove, move, forall and destroy keep lists,
\* nodes, parent pointers and the operations under way in step.
THEOREM PanelsConsistent == ASSUME Discreet PROVE Spec => []Consistent
<1>1. Init => Consistent
  BY InitConsistent
<1>2. Consistent /\ [Next]_vars => Consistent'
  BY NextConsistent
<1>3. QED BY <1>1, <1>2, PTL DEF Spec

\* Types: no operation works on a freed node, and the references on the pixbuf
\* that the panels share never run out.
THEOREM TypeCorrect == ASSUME Discreet PROVE Spec => []TypeOK
<1>1. Consistent => TypeOK
  BY DEF Consistent
<1>2. QED BY <1>1, PanelsConsistent, PTL

\* gtk_control_panel_put() and _remove(): however callbacks nest, the list of a
\* panel and the parent pointers of the widgets agree.
THEOREM ListsMatchParents == ASSUME Discreet PROVE Spec => []ListMatchesParent
  BY ListsMatch, PanelsConsistent, PTL

\* gtk_control_panel_forall(): the node in hand is never freed by a callback,
\* and no child is left out.
THEOREM AllReachedAlways == ASSUME Discreet PROVE Spec => []ForallReachesAll
  BY AllReached, PanelsConsistent, PTL

\* gtk_control_panel_move_internal(): the assertion holds.
THEOREM NeverAborts == ASSUME Discreet PROVE Spec => []ChildAsserted
<1>1. Consistent => ChildAsserted
  BY DEF Consistent, ChildAsserted
<1>2. QED BY <1>1, PanelsConsistent, PTL

=============================================================================
