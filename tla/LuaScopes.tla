------------------------------ MODULE LuaScopes ------------------------------
(***************************************************************************)
(* gui/lua/lparser.c: variables, upvalues, blocks, goto, labels and break: *)
(* what its one pass over the text must know before it has seen the rest.  *)
(* The text is any sequence of the statements that matter; expressions and *)
(* the code for them are left out.  Where the parser looks at the token    *)
(* after a label, "ahead" says what the text goes on with.                 *)
(***************************************************************************)
EXTENDS Integers, Sequences, FiniteSets, SequencesExt, FiniteSetsExt

CONSTANTS VariableNames, \* of variables
          LabelNames,    \* of labels
          MaxNesting,    \* bound: blocks and functions in each other
          Menus          \* bounds of the text: [all, most], its length and how many of each kind

\* No name is one that the parser gives to a variable of its own.
ASSUME ScopesAssumption ==
    \A n \in VariableNames : n \notin {"(for index)", "(for limit)", "(for step)"}

\* The LexState ls: fs, the FuncStates, that of the main function first; label
\* and gt, the lists of Dyndata; jump, of each goto its place, where it goes (0
\* at first) and from which register on it closes upvalues (None: it does not);
\* closes, the other jumps that close upvalues; error, what semerror() says.
VARIABLES ls,
          found,    \* the variable that the name used last stands for, 0 of a global
          ahead,    \* "any"; "end": only labels and an end; "more": another statement
          text,     \* history: the statements, each with the openings of its blocks
          menu      \* the bounds of this text

parserVars == <<ls, found, ahead, text, menu>>

None == -1
Pos == Len(text) + 1    \* of the statement that is parsed
F(P) == Last(P.fs)
BL(P) == Last(F(P).bl)
WithF(P, f) == [P EXCEPT !.fs[Len(P.fs)] = f]

EnterBlock(P, isloop) ==
    WithF(P, [F(P) EXCEPT !.bl = Append(@,
        [isloop |-> isloop, nactvar |-> Len(F(P).actvar), upval |-> FALSE,
         firstlabel |-> Len(P.label), firstgoto |-> Len(P.gt)])])
\* "owner" is the variable that has the function for its value, when it is done.
OpenFunc(P, owner) ==
    EnterBlock([P EXCEPT !.fs = Append(@, [bl |-> << >>, actvar |-> << >>, ups |-> << >>,
                                           owner |-> owner])], FALSE)

----------------------------------------------------------------------------
(* Names.  A variable is told by the position of the statement it is from. *)
Var(n) == [name |-> n, at |-> Pos]
Hidden(n) == [name |-> n, at |-> 0]
AdjustLocalVars(P, variables) == WithF(P, [F(P) EXCEPT !.actvar = @ \o variables])

NamedIn(variables, n) == {i \in DOMAIN variables : variables[i].name = n}
\* A mistake to look for: of two variables with the name, the first one.
SearchFirst(f, n) == IF NamedIn(f.actvar, n) = {} THEN 0 ELSE Min(NamedIn(f.actvar, n))
SearchVar(f, n) == IF NamedIn(f.actvar, n) = {} THEN 0 ELSE Max(NamedIn(f.actvar, n))
SearchUpvalue(f, n) == IF NamedIn(f.ups, n) = {} THEN 0 ELSE Min(NamedIn(f.ups, n))

\* A mistake to look for: the mark is put on the innermost block.
MarkInnermost(f, v) == [f EXCEPT !.bl[Len(f.bl)].upval = TRUE]
MarkUpval(f, v) == [f EXCEPT !.bl[Max({i \in DOMAIN f.bl : f.bl[i].nactvar < v})].upval = TRUE]

\* singlevaraux() of the function at depth d, with base in the innermost one only:
\* the FuncStates after it, and a register, an upvalue, or neither of them.
SingleVarAux(fs, n) ==
    LET At[d \in 0..Len(fs)] ==
          LET v == SearchVar(fs[d], n)
              u == SearchUpvalue(fs[d], n)
              r == At[d - 1]
              up == [name |-> n, instack |-> r.k = "local", idx |-> r.info]
          IN  CASE d = 0 -> [fs |-> fs, k |-> "void", info |-> 0]
                [] d > 0 /\ v # 0 -> [fs |-> IF d = Len(fs) THEN fs ELSE [fs EXCEPT ![d] = MarkUpval(@, v)],
                                      k |-> "local", info |-> v]
                [] d > 0 /\ v = 0 /\ u # 0 -> [fs |-> fs, k |-> "upval", info |-> u]
                [] OTHER -> IF r.k = "void" THEN r
                            ELSE [fs |-> [r.fs EXCEPT ![d].ups = Append(@, up)],
                                  k |-> "upval", info |-> Len(fs[d].ups) + 1]
    IN  At[Len(fs)]

\* What the code finds there when it runs: closures take their upvalues from the
\* registers or from the upvalues of the function that makes them.
Upvalues(fs) ==
    LET Of[d \in DOMAIN fs] ==
          [i \in DOMAIN fs[d].ups |->
             LET up == fs[d].ups[i]
             IN  IF up.instack THEN fs[d - 1].actvar[up.idx].at ELSE Of[d - 1][up.idx]]
    IN  Of
Denotes(r) ==
    CASE r.k = "void" -> 0
      [] r.k = "local" -> Last(r.fs).actvar[r.info].at
      [] OTHER -> Upvalues(r.fs)[Len(r.fs)][r.info]

----------------------------------------------------------------------------
(* Labels and gotos.  After an error nothing is done any more.             *)
Entry(P, name) == [name |-> name, at |-> Pos, nactvar |-> Len(F(P).actvar)]
PatchClose(P, at, level) == [P EXCEPT !.jump[at].close = level]

\* The goto gd, which is no longer or not yet pending, goes to lb.
CloseGoto(P, gd, lb) ==
    IF gd.nactvar < lb.nactvar THEN [P EXCEPT !.error = "jumps into the scope"]
    ELSE [P EXCEPT !.jump[gd.at].to = lb.at]

\* findlabel(): a label that the innermost block already has.
Visible(P, name) ==
    {i \in (BL(P).firstlabel + 1)..Len(P.label) : P.label[i].name = name}
FindLabel(P, gd) ==
    LET lb == P.label[Min(Visible(P, gd.name))]
        leaves == gd.nactvar > lb.nactvar /\ (BL(P).upval \/ Len(P.label) > BL(P).firstlabel)
    IN  CloseGoto(IF leaves THEN PatchClose(P, gd.at, lb.nactvar) ELSE P, gd, lb)

Pend(P, gd) == [P EXCEPT !.gt = Append(@, gd)]
\* The pending gotos from "first" on, in order: Visit closes one or pends it again.
ForEachGoto(P, first, Visit(_, _)) ==
    LET gts == SubSeq(P.gt, first + 1, Len(P.gt))
        After[i \in 0..Len(gts)] ==
          CASE i = 0 -> [P EXCEPT !.gt = SubSeq(@, 1, first)]
            [] i > 0 /\ After[i - 1].error # "" -> After[i - 1]
            [] OTHER -> Visit(After[i - 1], gts[i])
    IN  After[Len(gts)]

FindGotos(P, lb) ==
    LET Visit(Q, gd) == IF gd.name = lb.name THEN CloseGoto(Q, gd, lb) ELSE Pend(Q, gd)
    IN  ForEachGoto(P, BL(P).firstgoto, Visit)

\* The gotos that are pending when the block bl is left, with the level of bl.
\* (A mistake to look for: they keep the level they were met at.)
ExportedAsMet(gd, bl) == gd
Exported(gd, bl) == IF gd.nactvar > bl.nactvar THEN [gd EXCEPT !.nactvar = bl.nactvar] ELSE gd
MoveGotosOut(P, bl) ==
    LET Visit(Q, gd) ==
          LET out == Exported(gd, bl)
              R == IF gd.nactvar > bl.nactvar /\ bl.upval THEN PatchClose(Q, gd.at, bl.nactvar) ELSE Q
          IN  IF Visible(R, gd.name) = {} THEN Pend(R, out) ELSE FindLabel(R, out)
    IN  ForEachGoto(P, bl.firstgoto, Visit)

BreakLabel(P) == FindGotos(P, Entry(P, "break"))
\* leaveblock(): all but the gotos; the block of a function closes nothing.
CloseUpvalues(P, bl) ==
    IF Len(F(P).bl) > 1 /\ bl.upval
    THEN [P EXCEPT !.closes = @ \union {[at |-> Pos, level |-> bl.nactvar, back |-> FALSE]}]
    ELSE P
RemoveVars(Q, bl) ==
    [WithF(Q, [F(Q) EXCEPT !.bl = Front(@), !.actvar = SubSeq(@, 1, bl.nactvar)])
       EXCEPT !.label = SubSeq(@, 1, bl.firstlabel)]
LeaveBlock(P) ==
    LET bl == BL(P)
        closed == CloseUpvalues(P, bl)
        Q == IF bl.isloop THEN BreakLabel(closed) ELSE closed
        left == RemoveVars(Q, bl)
    IN  CASE P.error # "" -> P
          [] P.error = "" /\ Q.error # "" -> Q
          [] P.error = "" /\ Q.error = "" /\ Len(F(P).bl) > 1 -> MoveGotosOut(left, bl)
          [] OTHER -> IF bl.firstgoto < Len(Q.gt) THEN [left EXCEPT !.error = "no visible label"]
                      ELSE left

CloseFunc(P) ==
    LET Q == LeaveBlock(P)
        outer == [Q EXCEPT !.fs = Front(@)]
    IN  IF Q.error # "" \/ outer.fs = << >> THEN [Q EXCEPT !.fs = IF Q.error = "" THEN << >> ELSE @]
        ELSE AdjustLocalVars(outer, F(Q).owner)

\* repeatstat(): the jump back closes what the scope block has for upvalues.
Until(P) ==
    LET bl2 == BL(P)
        back == IF bl2.upval THEN {[at |-> Pos, level |-> bl2.nactvar, back |-> TRUE]} ELSE {}
    IN  LeaveBlock([P EXCEPT !.closes = @ \union back])

----------------------------------------------------------------------------
(* Statements.  Of the blocks that one opens or closes, the text has the   *)
(* place where they were opened.                                           *)
Functions == {"function", "local function", "local = function"}
Path == IF text = << >> THEN << >>
        ELSE LET s == Last(text) IN IF s.opens THEN Append(s.path, Len(text)) ELSE s.path
Opening == IF Path = << >> THEN "main" ELSE text[Last(Path)].kind
Statement(kind, name, opens) ==
    [kind |-> kind, name |-> name, path |-> Path, opens |-> opens, last |-> FALSE]

Parses(s, P) ==
    /\ ls.error = "" /\ ls.fs # << >>
    /\ Len(text) < menu.all /\ s.kind \in DOMAIN menu.most
    /\ Cardinality({i \in DOMAIN text : text[i].kind = s.kind}) < menu.most[s.kind]
    /\ ahead = "end" => s.kind \in {"end", "label"}
    /\ s.kind # "label" => ahead' = "any"
    /\ ahead = "more" => s.kind # "end"
    /\ s.opens => Len(Path) < MaxNesting
    /\ text' = Append(text, s) /\ menu' = menu
    /\ ls' = P

ParserInit == /\ ls = OpenFunc([fs |-> << >>, label |-> << >>, gt |-> << >>, jump |-> << >>,
                          closes |-> {}, error |-> ""], << >>)
        /\ found = 0 /\ ahead = "any" /\ text = << >> /\ menu \in Menus

Local(n) == /\ Parses(Statement("local", n, FALSE), AdjustLocalVars(ls, <<Var(n)>>))
            /\ UNCHANGED found
Use(n) == LET r == SingleVarAux(ls.fs, n)
          IN  /\ Parses(Statement("use", n, FALSE), [ls EXCEPT !.fs = r.fs])
              /\ found' = Denotes(r)

Do == Parses(Statement("do", "", TRUE), EnterBlock(ls, FALSE)) /\ UNCHANGED found
WhileStat == /\ Parses(Statement("while", "", TRUE), EnterBlock(EnterBlock(ls, TRUE), FALSE))
             /\ UNCHANGED found
Repeat == /\ Parses(Statement("repeat", "", TRUE), EnterBlock(EnterBlock(ls, TRUE), FALSE))
          /\ UNCHANGED found
For(n) ==
    LET control == AdjustLocalVars(EnterBlock(ls, TRUE),
                                   <<Hidden("(for index)"), Hidden("(for limit)"), Hidden("(for step)")>>)
        scope == AdjustLocalVars(EnterBlock(control, FALSE), <<Var(n)>>)
    IN  Parses(Statement("for", n, TRUE), EnterBlock(scope, FALSE)) /\ UNCHANGED found

Function == Parses(Statement("function", "", TRUE), OpenFunc(ls, << >>)) /\ UNCHANGED found
LocalFunc(n) == /\ Parses(Statement("local function", n, TRUE), OpenFunc(AdjustLocalVars(ls, <<Var(n)>>), << >>))
                /\ UNCHANGED found
\* local n = function: the variable is there when the function has been read.
LocalStat(n) == /\ Parses(Statement("local = function", n, TRUE), OpenFunc(ls, <<Var(n)>>))
                /\ UNCHANGED found

BlockEnd ==
    LET P == CASE Opening = "do" -> LeaveBlock(ls)
               [] Opening = "while" -> LeaveBlock(LeaveBlock(ls))
               [] Opening = "repeat" -> LeaveBlock(Until(ls))
               [] Opening = "for" -> LeaveBlock(LeaveBlock(LeaveBlock(ls)))
               [] OTHER -> CloseFunc(ls)
    IN  /\ Parses([Statement("end", "", FALSE) EXCEPT !.path = IF @ = << >> THEN @ ELSE Front(@)], P)
        /\ UNCHANGED found

\* gotostat(), of a break too.
Goto(l) ==
    LET gd == Entry(ls, l)
        Q == [ls EXCEPT !.jump = [i \in DOMAIN @ \union {Pos} |->
                                    IF i = Pos THEN [to |-> 0, close |-> None] ELSE @[i]]]
    IN  /\ Parses(Statement("goto", l, FALSE), IF Visible(Q, l) = {} THEN Pend(Q, gd) ELSE FindLabel(Q, gd))
        /\ UNCHANGED found

\* labelstat(), with no statement but labels after it in the block, or with some.
Label(l, last) ==
    LET lb == [Entry(ls, l) EXCEPT !.nactvar = IF last THEN BL(ls).nactvar ELSE @]
        Q == IF Visible(ls, l) # {} THEN [ls EXCEPT !.error = "already defined"]
             ELSE FindGotos([ls EXCEPT !.label = Append(@, lb)], lb)
    IN  /\ ahead # "any" => last = (ahead = "end")
        /\ last => Opening # "repeat"
        /\ ahead' = IF last THEN "end" ELSE IF Opening = "repeat" THEN "any" ELSE "more"
        /\ Parses([Statement("label", l, FALSE) EXCEPT !.last = last], Q)
        /\ UNCHANGED found

ParserNext ==
    \/ \E n \in VariableNames : Local(n) \/ Use(n) \/ For(n) \/ LocalFunc(n) \/ LocalStat(n)
    \/ Do \/ WhileStat \/ Repeat \/ Function \/ BlockEnd
    \/ \E l \in LabelNames \union {"break"} : Goto(l)
    \/ \E l \in LabelNames, last \in BOOLEAN : Label(l, last)
ParserSpec == ParserInit /\ [][ParserNext]_parserVars

----------------------------------------------------------------------------
(* What the text means, read with all of it in hand.                       *)
Kind(i) == text[i].kind
FunctionOf(path) == LET I == {i \in ToSet(path) : Kind(i) \in Functions}
                    IN  IF I = {} THEN 0 ELSE Max(I)
\* Where block i has ended, or 0.
EndOf(i) == LET E == {e \in (i + 1)..Len(text) : Kind(e) = "end" /\ text[e].path = text[i].path}
            IN  IF E = {} THEN 0 ELSE Min(E)
Declares == {"local", "for", "local function", "local = function"}
\* From where on the variable of statement d can be seen, and in which block.
Since(d) == IF Kind(d) = "local = function" THEN EndOf(d) ELSE d
BlockOf(d) == IF Kind(d) = "for" THEN Append(text[d].path, d) ELSE text[d].path
Seen(p) == {d \in 1..(p - 1) : /\ Kind(d) \in Declares /\ Since(d) \in 1..(p - 1)
                              /\ IsPrefix(BlockOf(d), text[p].path)}
Active(p) == {d \in Seen(p) : FunctionOf(BlockOf(d)) = FunctionOf(text[p].path)}
Means(p) == LET D == {d \in Seen(p) : text[d].name = text[p].name} IN IF D = {} THEN 0 ELSE Max(D)
Captured(d) == \E u \in DOMAIN text : /\ Kind(u) = "use" /\ Means(u) = d
                                      /\ FunctionOf(text[u].path) # FunctionOf(BlockOf(d))
\* The registers up to and with that of d: a for has three besides its own.
Register(d) == LET D == {c \in Active(Since(d)) : Since(c) < Since(d)} \union {d}
               IN  Cardinality(D) + 3 * Cardinality({c \in D : Kind(c) = "for"})

\* The label of a goto, or the end of the loop of a break; 0 if there is none.
Target(g) ==
    LET f == FunctionOf(text[g].path)
        Labels == {t \in DOMAIN text : /\ Kind(t) = "label" /\ text[t].name = text[g].name
                                       /\ IsPrefix(text[t].path, text[g].path)
                                       /\ FunctionOf(text[t].path) = f}
        Loops == {i \in ToSet(text[g].path) : i > f /\ Kind(i) \in {"while", "repeat", "for"}}
    IN  CASE text[g].name = "break" -> IF Loops = {} THEN 0 ELSE EndOf(Max(Loops))
          [] text[g].name # "break" /\ Labels # {} ->
                CHOOSE t \in Labels : \A u \in Labels : Len(text[u].path) <= Len(text[t].path)
          [] OTHER -> 0
\* At the end of a block its variables are no longer there.
Allowed(g, t) == {d \in Active(t) : ~(text[t].last /\ BlockOf(d) = text[t].path)} \subseteq Active(g)
Gotos == {g \in DOMAIN text : Kind(g) = "goto"}

\* A name stands for the variable declared last in the innermost block that has
\* one, through whatever functions are between, whichever of them have used it
\* before; not yet for one whose value is being read.
NamesResolved == text # << >> /\ Last(text).kind = "use" => found = Means(Len(text))

\* Each goto of a function that has been read goes to the label of the innermost
\* block around it that has the label, wherever in it, and a break to the end of
\* the innermost loop; what is refused could not be done: a label twice in a
\* block, a jump into the scope of a variable, a jump to nowhere.
GotosRight ==
    /\ ls.error = "" =>
        \A g \in Gotos :
            (LET f == FunctionOf(text[g].path) IN IF f = 0 THEN ls.fs = << >> ELSE EndOf(f) # 0) =>
                Target(g) # 0 /\ Allowed(g, Target(g)) /\ ls.jump[g].to = Target(g)
    /\ ls.error = "already defined" =>
        \E i, j \in DOMAIN text : /\ i < j /\ Kind(i) = "label" /\ Kind(j) = "label"
                                  /\ text[i].name = text[j].name /\ text[i].path = text[j].path
    /\ ls.error = "jumps into the scope" => \E g \in Gotos : Target(g) # 0 /\ ~Allowed(g, Target(g))
    /\ ls.error = "no visible label" => \E g \in Gotos : Target(g) = 0

\* Wherever a block is left, at its end, by the jump back of a repeat or by a
\* goto met before or after the closure was, the upvalues of its variables are
\* closed, and those of no variable that is still there.
UpvaluesClosed ==
    LET Closes(left, kept, levels) ==
            /\ \A d \in left : Captured(d) => \E l \in levels : Register(d) > l
            /\ \A d \in kept, l \in levels : Register(d) <= l
        Levels(e, back) == {c.level : c \in {c \in ls.closes : c.at = e /\ c.back = back}}
    IN  ls.error = "" =>
        /\ \A o \in DOMAIN text : Kind(o) \in {"do", "while", "repeat", "for"} /\ EndOf(o) # 0 =>
              LET own == {d \in DOMAIN text : /\ Kind(d) \in Declares /\ Since(d) # 0
                                              /\ BlockOf(d) = Append(text[o].path, o)}
              IN  /\ Closes(own, Active(EndOf(o)), Levels(EndOf(o), FALSE))
                  /\ Kind(o) = "repeat" => Closes(own, Active(EndOf(o)), Levels(EndOf(o), TRUE))
        /\ \A g \in Gotos : LET j == ls.jump[g] IN j.to # 0 =>
              Closes(Active(g) \ Active(j.to), Active(g) \intersect Active(j.to),
                     IF j.close = None THEN {} ELSE {j.close})
=============================================================================
