----------------------------- MODULE LuaPatterns -----------------------------
(***************************************************************************)
(* gui/lua/lstrlib.c: pattern matching, with string.find, match, gmatch    *)
(* and gsub, against a definition of what a pattern stands for.  A pattern *)
(* is given to the functions as its characters, and to the definition as   *)
(* the items it was put together from.  A position is an index from 1 up   *)
(* to one past the end, where a string has its NUL.                        *)
(***************************************************************************)
EXTENDS Integers, Sequences, SequencesExt, FiniteSets, TLC

CONSTANTS Calls,         \* what the program may call: see ARGUMENTS below
          MaxCaptures    \* LUA_MAXCAPTURES

\* ARGUMENTS.  A call is [f, src, items, anchor, init, repl, max]: the function;
\* the subject; the items of the pattern and whether a "^" comes before them;
\* init of find and match; the replacement and max_s of gsub.  A replacement is
\* [kind, news, has]: a string of the characters news; or a table, or a
\* function that looks its first argument up in one, where the texts of has
\* have the value "x".

FAILED == 0       \* NULL
ERROR == -1       \* luaL_error()
UNFINISHED == -1  \* CAP_UNFINISHED
POSITION == -2    \* CAP_POSITION
NUL == "\\0"
At(str, i) == IF i \in DOMAIN str THEN str[i] ELSE NUL

----------------------------------------------------------------------------
(* Classes of characters, in the order of their codes.                     *)
Codes == <<NUL, " ", "%", "(", ")", "-", "1", "A", "]", "^", "a", "b">>
Code(c) == CHOOSE i \in DOMAIN Codes : Codes[i] = c
IsClass == [a |-> {"A", "a", "b"}, d |-> {"1"}, l |-> {"a", "b"}, u |-> {"A"}, s |-> {" "},
            p |-> {"%", "(", ")", "-", "]", "^"}]
Complements == [A |-> "a", D |-> "d", L |-> "l", U |-> "u", S |-> "s", P |-> "p"]

MatchClass(c, cl) ==
    CASE cl \in DOMAIN IsClass -> c \in IsClass[cl]
      [] cl \in DOMAIN Complements -> c \notin IsClass[Complements[cl]]
      [] OTHER -> c = cl

\* The next position after the class that begins at p, or ERROR.
RECURSIVE BracketEnd(_, _)
BracketEnd(P, p) ==    \* do ... while (*p != ']')
    IF p > Len(P) THEN ERROR
    ELSE LET q == IF P[p] = "%" /\ p < Len(P) THEN p + 2 ELSE p + 1
         IN  IF At(P, q) = "]" THEN q + 1 ELSE BracketEnd(P, q)
ClassEnd(P, p) ==
    CASE P[p] = "%" -> IF p = Len(P) THEN ERROR ELSE p + 2
      [] P[p] = "[" -> BracketEnd(P, IF At(P, p + 1) = "^" THEN p + 2 ELSE p + 1)
      [] OTHER -> p + 1

\* Whether c is one of what stands between p and the "]" at ec.
RECURSIVE InBracket(_, _, _, _)
InBracket(c, P, p, ec) ==
    CASE p >= ec -> FALSE
      [] p < ec /\ P[p] = "%" -> MatchClass(c, P[p + 1]) \/ InBracket(c, P, p + 2, ec)
      [] p < ec /\ P[p] # "%" /\ P[p + 1] = "-" /\ p + 2 < ec ->
            Code(c) \in Code(P[p])..Code(P[p + 2]) \/ InBracket(c, P, p + 3, ec)
      [] OTHER -> c = P[p] \/ InBracket(c, P, p + 1, ec)
MatchBracketClass(c, P, p, ec) ==
    IF P[p + 1] = "^" THEN ~InBracket(c, P, p + 2, ec) ELSE InBracket(c, P, p + 1, ec)

SingleMatch(c, P, p, ep) ==
    CASE P[p] = "." -> TRUE
      [] P[p] = "%" -> MatchClass(c, P[p + 1])
      [] P[p] = "[" -> MatchBracketClass(c, P, p, ep - 1)
      [] OTHER -> c = P[p]

----------------------------------------------------------------------------
(* A MatchState is passed on also where a match fails: what a failed match *)
(* has done to the captures must have been undone.                         *)
MatchState(S, P) ==
    [src |-> S, pat |-> P, level |-> 0, capture |-> [l \in 1..MaxCaptures |-> [init |-> 0, len |-> 0]]]
Result(at, m) == [at |-> at, m |-> m]

\* matchbalance(): the position after the "e" that balances the "b" at s.
RECURSIVE Balanced(_, _, _, _, _)
Balanced(S, s, b, e, cont) ==
    CASE s > Len(S) -> FAILED
      [] s <= Len(S) /\ S[s] = e -> IF cont = 1 THEN s + 1 ELSE Balanced(S, s + 1, b, e, cont - 1)
      [] s <= Len(S) /\ S[s] # e -> Balanced(S, s + 1, b, e, IF S[s] = b THEN cont + 1 ELSE cont)
MatchBalance(m, s, p) ==
    IF p >= Len(m.pat) THEN ERROR
    ELSE IF At(m.src, s) # m.pat[p] THEN FAILED
    ELSE Balanced(m.src, s + 1, m.pat[p], m.pat[p + 1], 1)

Unfinished(m) == {l \in 1..m.level : m.capture[l].len = UNFINISHED}
CaptureToClose(m) == CHOOSE l \in Unfinished(m) : \A k \in Unfinished(m) : k <= l

MatchCapture(m, s, l) ==
    IF l \notin (1..m.level) \ Unfinished(m) THEN ERROR
    ELSE LET c == m.capture[l]
         IN  IF c.len # POSITION /\ Len(m.src) + 1 - s >= c.len
                /\ SubSeq(m.src, c.init, c.init + c.len - 1) = SubSeq(m.src, s, s + c.len - 1)
             THEN s + c.len ELSE FAILED

Digits == <<"1", "2">>
Singles(m, s, p, ep) == s <= Len(m.src) /\ SingleMatch(m.src[s], m.pat, p, ep)
RECURSIVE Match(_, _, _), LongestFirst(_, _, _, _), MinExpand(_, _, _, _), Run(_, _, _, _)

\* max_expand(): the longest run, and back from it.
Run(m, s, p, ep) == IF Singles(m, s, p, ep) THEN 1 + Run(m, s + 1, p, ep) ELSE 0
LongestFirst(m, s, i, ep) ==
    LET r == Match(m, s + i, ep + 1)
    IN  IF r.at # FAILED \/ i = 0 THEN r ELSE LongestFirst(r.m, s, i - 1, ep)
MaxExpand(m, s, p, ep) == LongestFirst(m, s, Run(m, s, p, ep), ep)

MinExpand(m, s, p, ep) ==
    LET r == Match(m, s, ep + 1)
    IN  IF r.at # FAILED \/ ~Singles(m, s, p, ep) THEN r ELSE MinExpand(r.m, s + 1, p, ep)

StartCapture(m, s, p, what) ==
    IF m.level >= MaxCaptures THEN Result(ERROR, m)
    ELSE LET r == Match([m EXCEPT !.level = @ + 1,
                                  !.capture[m.level + 1] = [init |-> s, len |-> what]], s, p)
         IN  IF r.at = FAILED THEN Result(FAILED, [r.m EXCEPT !.level = @ - 1]) ELSE r
\* A mistake to look for: a capture stays closed when the rest does not match.
EndCaptureForGood(m, s, p) ==
    IF Unfinished(m) = {} THEN Result(ERROR, m)
    ELSE LET l == CaptureToClose(m)
         IN  Match([m EXCEPT !.capture[l].len = s - m.capture[l].init], s, p)
EndCapture(m, s, p) ==
    IF Unfinished(m) = {} THEN Result(ERROR, m)
    ELSE LET l == CaptureToClose(m)
             r == Match([m EXCEPT !.capture[l].len = s - m.capture[l].init], s, p)
         IN  IF r.at = FAILED THEN Result(FAILED, [r.m EXCEPT !.capture[l].len = UNFINISHED]) ELSE r

Go(at, m, p) == IF at \in {FAILED, ERROR} THEN Result(at, m) ELSE Match(m, at, p)

\* The class at p with the suffix after it.
Default(m, s, p) ==
    LET ep == ClassEnd(m.pat, p)
        suffix == At(m.pat, ep)
        matches == Singles(m, s, p, ep)
        once == IF matches THEN Match(m, s + 1, ep + 1) ELSE Result(FAILED, m)
    IN  CASE ep = ERROR -> Result(ERROR, m)
          [] ep # ERROR /\ suffix = "?" -> IF once.at # FAILED THEN once ELSE Match(once.m, s, ep + 1)
          [] ep # ERROR /\ suffix = "*" -> MaxExpand(m, s, p, ep)
          [] ep # ERROR /\ suffix = "+" ->
                IF matches THEN MaxExpand(m, s + 1, p, ep) ELSE Result(FAILED, m)
          [] ep # ERROR /\ suffix = "-" -> MinExpand(m, s, p, ep)
          [] OTHER -> IF matches THEN Match(m, s + 1, ep) ELSE Result(FAILED, m)
Frontier(m, s, p) ==
    LET ep == ClassEnd(m.pat, p) IN
    CASE At(m.pat, p) # "[" \/ ep = ERROR -> Result(ERROR, m)
      [] OTHER -> IF MatchBracketClass(At(m.src, s - 1), m.pat, p, ep - 1)
                     \/ ~MatchBracketClass(At(m.src, s), m.pat, p, ep - 1)
                  THEN Result(FAILED, m) ELSE Match(m, s, ep)
Match(m, s, p) ==
    LET c == At(m.pat, p)
        d == At(m.pat, p + 1)
    IN  CASE p > Len(m.pat) -> Result(s, m)
          [] c = "(" -> IF d = ")" THEN StartCapture(m, s, p + 2, POSITION)
                                   ELSE StartCapture(m, s, p + 1, UNFINISHED)
          [] c = ")" -> EndCapture(m, s, p + 1)
          [] c = "$" /\ p = Len(m.pat) -> Result(IF s > Len(m.src) THEN s ELSE FAILED, m)
          [] c = "%" /\ d = "b" -> Go(MatchBalance(m, s, p + 2), m, p + 4)
          [] c = "%" /\ d = "f" -> Frontier(m, s, p + 2)
          [] c = "%" /\ Contains(Digits, d) ->
                Go(MatchCapture(m, s, CHOOSE l \in DOMAIN Digits : Digits[l] = d), m, p + 2)
          [] OTHER -> Default(m, s, p)

----------------------------------------------------------------------------
(* What is handed to the program: a text, or a position, or ERROR.         *)
Text(t) == [at |-> 0, text |-> t]
Place(i) == [at |-> i, text |-> << >>]
None == "nil"

OneCapture(m, i, s, e) ==    \* push_onecapture(); i counts from 1
    CASE i > m.level -> IF i = 1 THEN Text(SubSeq(m.src, s, e - 1)) ELSE Place(ERROR)
      [] i <= m.level /\ m.capture[i].len = UNFINISHED -> Place(ERROR)
      [] i <= m.level /\ m.capture[i].len = POSITION -> Place(m.capture[i].init)
      [] OTHER -> LET c == m.capture[i] IN Text(SubSeq(m.src, c.init, c.init + c.len - 1))
PushCaptures(m, whole, s, e) ==
    [i \in 1..(IF m.level = 0 /\ whole THEN 1 ELSE m.level) |-> OneCapture(m, i, s, e)]
Failing(captures) == \E i \in DOMAIN captures : captures[i].at = ERROR

Found(s, e, captures) ==
    IF Failing(captures) THEN [result |-> "error"]
    ELSE [result |-> "found", from |-> s, to |-> e, captures |-> captures]
NotFound == [result |-> None]
Error == [result |-> "error"]

PosRelat(pos, len) == IF pos >= 0 THEN pos ELSE IF -pos > len THEN 0 ELSE len + pos + 1

Specials == {"^", "$", "*", "+", "?", ".", "(", "[", "%", "-"}
\* The first place from s1 on where S2 is.
LMemFind(S, s1, S2) ==
    LET at == {s \in s1..(Len(S) + 1 - Len(S2)) : SubSeq(S, s, s + Len(S2) - 1) = S2}
    IN  IF at = {} THEN NotFound
        ELSE LET s == CHOOSE s \in at : \A r \in at : s <= r IN Found(s, s + Len(S2), << >>)

\* The loop of find, of match and of gmatch: the first s1 where it matches.
RECURSIVE FirstMatch(_, _, _)
FirstMatch(m, s1, anchor) ==
    LET Loop(r) == IF r.at = FAILED /\ s1 <= Len(m.src) /\ ~anchor THEN FirstMatch(r.m, s1 + 1, anchor)
                   ELSE [s |-> s1, e |-> r.at, m |-> r.m]
    IN  Loop(Match([m EXCEPT !.level = 0], s1, 1))

PatternOf(call) == FlattenSeq([i \in DOMAIN call.items |-> call.items[i].text])
WithAnchor(call) == (IF call.anchor THEN <<"^">> ELSE << >>) \o PatternOf(call)

Answered(r, whole) ==
    CASE r.e = ERROR -> Error
      [] r.e = FAILED -> NotFound
      [] OTHER -> Found(r.s, r.e, PushCaptures(r.m, whole, r.s, r.e))

StrFindAux(call, find) ==
    LET len  == Len(call.src)
        rel  == PosRelat(call.init, len)
        init == IF rel < 1 THEN 1 ELSE rel
        P    == WithAnchor(call)
        anchor == At(P, 1) = "^"
    IN  CASE init > len + 1 -> NotFound
          [] init <= len + 1 /\ find /\ ToSet(P) \intersect Specials = {} -> LMemFind(call.src, init, P)
          [] OTHER -> Answered(FirstMatch(MatchState(call.src, IF anchor THEN Tail(P) ELSE P), init, anchor),
                               ~find)

\* What gmatch_aux() answers until the loop ends; a "^" is not skipped here.
RECURSIVE GMatchAux(_, _)
GMatchAux(m, src) ==
    LET Loop(r, here) == IF here \in {NotFound, Error} THEN <<here>>
                         ELSE <<here>> \o GMatchAux(r.m, IF r.e = r.s THEN r.e + 1 ELSE r.e)
        Answer(r) == Loop(r, Answered(r, TRUE))
    IN  IF src > Len(m.src) + 1 THEN <<NotFound>> ELSE Answer(FirstMatch(m, src, FALSE))

\* The characters that add_s() makes of the replacement, from news[i] on.
Spelled(c) == IF c.at = 0 THEN c.text ELSE <<ToString(c.at)>>
RECURSIVE AddS(_, _, _, _, _)
AddS(m, news, i, s, e) ==
    LET d == At(news, i + 1)
        c == IF d = "0" THEN Text(SubSeq(m.src, s, e - 1))
             ELSE IF Contains(Digits, d)
             THEN OneCapture(m, CHOOSE l \in DOMAIN Digits : Digits[l] = d, s, e)
             ELSE IF d = "%" THEN Text(<<"%">>) ELSE Place(ERROR)
        rest == AddS(m, news, IF news[i] = "%" THEN i + 2 ELSE i + 1, s, e)
    IN  CASE i > Len(news) -> Text(<< >>)
          [] i <= Len(news) /\ news[i] # "%" ->
                IF rest.at = ERROR THEN rest ELSE Text(<<news[i]>> \o rest.text)
          [] OTHER -> IF c.at = ERROR \/ rest.at = ERROR THEN Place(ERROR)
                      ELSE Text(Spelled(c) \o rest.text)
AddValue(m, repl, s, e) ==
    LET args == IF repl.kind = "function" THEN PushCaptures(m, TRUE, s, e)
                                          ELSE <<OneCapture(m, 1, s, e)>>
    IN  CASE repl.kind = "string" -> AddS(m, repl.news, 1, s, e)
          [] repl.kind # "string" /\ Failing(args) -> Place(ERROR)
          [] OTHER -> IF args[1].at = 0 /\ args[1].text \in repl.has THEN Text(<<"x">>)
                      ELSE Text(SubSeq(m.src, s, e - 1))

\* What the loop copies at src besides a replacement.
Copied(m, src, at) == IF at <= src /\ src <= Len(m.src) THEN <<m.src[src]>> ELSE << >>

\* The while of str_gsub(), at src with n substitutions made and b in the buffer.
RECURSIVE GSubFrom(_, _, _, _, _)
GSubFrom(m, src, n, b, c) ==
    LET Done(text, from, k) == [result |-> "done", text |-> text \o SubSeq(m.src, from, Len(m.src)), n |-> k]
        Loop(r, v) ==
            LET count == IF r.at = FAILED THEN n ELSE n + 1
                next == IF r.at > src THEN r.at ELSE src + 1
                buffer == b \o v.text \o Copied(m, src, r.at)
            IN  CASE ERROR \in {r.at, v.at} -> Error
                  [] ERROR \notin {r.at, v.at} /\ (c.anchor \/ next > Len(m.src) + 1) ->
                        Done(buffer, next, count)
                  [] OTHER -> GSubFrom(r.m, next, count, buffer, c)
        Substitute(r) == Loop(r, IF r.at \in {FAILED, ERROR} THEN Text(<< >>)
                                 ELSE AddValue(r.m, c.repl, src, r.at))
    IN  IF n >= c.max THEN Done(b, src, n) ELSE Substitute(Match([m EXCEPT !.level = 0], src, 1))

----------------------------------------------------------------------------
VARIABLES call,     \* a call, with its arguments
          answer    \* its answers: of gmatch all, to the last; << >> before it is made

vars == <<call, answer>>

Init == call \in Calls /\ answer = << >>

Find == call.f = "find" /\ answer' = <<StrFindAux(call, TRUE)>>
FindMatch == call.f = "match" /\ answer' = <<StrFindAux(call, FALSE)>>
GMatch == call.f = "gmatch" /\ answer' = GMatchAux(MatchState(call.src, WithAnchor(call)), 1)
GSub == call.f = "gsub" /\ answer' = <<GSubFrom(MatchState(call.src, PatternOf(call)), 1, 0, << >>, call)>>

Next == answer = << >> /\ UNCHANGED call /\ (Find \/ FindMatch \/ GMatch \/ GSub)
Spec == Init /\ [][Next]_vars

----------------------------------------------------------------------------
(* What a pattern stands for.  A path goes through the items of a pattern: *)
(* path[1] is where it begins in the subject, path[k + 1] where it is      *)
(* after item k.  Nothing here tries and goes back: of all the paths there *)
(* are, one is preferred.                                                  *)

\* The items of the groups of the pattern, in the order they are opened.
Groups(items) == LET I == {i \in DOMAIN items : items[i].kind \in {"open", "position"}}
                 IN  SetToSortSeq(I, <)
Depth(items, i, j) == Cardinality({k \in i..j : items[k].kind = "open"})
                        - Cardinality({k \in i..j : items[k].kind = "close"})
Closing(items, i) == {j \in i..Len(items) : items[j].kind = "close" /\ Depth(items, i, j) = 0}
WellFormed(items) ==
    /\ \A i \in DOMAIN items :
        /\ items[i].kind # "broken"
        /\ items[i].kind = "close" => Depth(items, 1, i) >= 0
        /\ items[i].kind = "back" =>
                /\ items[i].group \in DOMAIN Groups(items)
                /\ LET g == Groups(items)[items[i].group]
                   IN  g < i /\ (items[g].kind = "open" => \E j \in Closing(items, g) : j < i)
    /\ Depth(items, 1, Len(items)) = 0 /\ Len(Groups(items)) <= MaxCaptures

GroupText(S, items, path, g) ==
    SubSeq(S, path[g], path[CHOOSE j \in Closing(items, g) : \A k \in Closing(items, g) : j <= k] - 1)
Balances(t, pair) ==
    LET Count(c, n) == Cardinality({i \in 1..n : t[i] = c})
    IN  /\ Len(t) >= 2 /\ t[1] = pair[1] /\ t[Len(t)] = pair[2]
        /\ IF pair[1] = pair[2] THEN Count(pair[1], Len(t)) = 2
           ELSE /\ Count(pair[1], Len(t)) = Count(pair[2], Len(t))
                /\ \A n \in 1..(Len(t) - 1) : Count(pair[1], n) > Count(pair[2], n)

\* Whether item k may end at e when the path has come to it.
Admits(S, items, path, k, e) ==
    LET it == items[k]
        s  == path[k]
    IN  CASE it.kind = "one" ->
                /\ \A i \in s..(e - 1) : S[i] \in it.set
                /\ it.rep = "" => e = s + 1
                /\ it.rep = "?" => e <= s + 1
                /\ it.rep = "+" => e > s
          [] it.kind = "back" ->
                LET g == Groups(items)[it.group] IN
                items[g].kind = "open" /\ SubSeq(S, s, e - 1) = GroupText(S, items, path, g)
          [] it.kind = "balance" -> Balances(SubSeq(S, s, e - 1), it.pair)
          [] it.kind = "frontier" -> e = s /\ At(S, s - 1) \notin it.set /\ At(S, s) \in it.set
          [] it.kind = "end" -> e = s /\ s = Len(S) + 1
          [] OTHER -> e = s
RECURSIVE Paths(_, _, _, _)
Paths(S, items, start, k) ==
    IF k = 0 THEN {<<start>>}
    ELSE UNION {{Append(path, e) : e \in {e \in Last(path)..(Len(S) + 1) : Admits(S, items, path, k, e)}}
                : path \in Paths(S, items, start, k - 1)}
Preferred(items, p, q) ==
    LET k == CHOOSE k \in DOMAIN p : p[k] # q[k] /\ \A j \in 1..(k - 1) : p[j] = q[j]
    IN  p = q \/ IF items[k - 1].kind = "one" /\ items[k - 1].rep = "-" THEN p[k] < q[k] ELSE p[k] > q[k]

CapturesOf(S, items, path) ==
    [n \in DOMAIN Groups(items) |->
        LET g == Groups(items)[n]
        IN  IF items[g].kind = "position" THEN Place(path[g]) ELSE Text(GroupText(S, items, path, g))]
\* The match in S that begins first from s on, or only at s.
TheMatch(S, items, s, anchor) ==
    LET AllFrom(b) == Paths(S, items, b, Len(items))
        Best(all) == CHOOSE p \in all : \A q \in all : Preferred(items, p, q)
        Taken(path) == Found(path[1], Last(path), CapturesOf(S, items, path))
        FirstOf(starts) ==
            IF starts = {} THEN NotFound
            ELSE Taken(Best(AllFrom(CHOOSE b \in starts : \A c \in starts : b <= c)))
    IN  FirstOf({b \in s..(IF anchor /\ s <= Len(S) THEN s ELSE Len(S) + 1) : AllFrom(b) # {}})
Whole(S, m) == IF m.captures = << >> THEN <<Text(SubSeq(S, m.from, m.to - 1))>> ELSE m.captures
WithWhole(S, m) == IF m.result = "found" THEN [m EXCEPT !.captures = Whole(S, m)] ELSE m

Start(c) == CASE c.init > 0 -> c.init [] c.init = 0 -> 1
              [] OTHER -> IF Len(c.src) + c.init < 0 THEN 1 ELSE Len(c.src) + c.init + 1
\* The matches, one after the other: each begins no earlier than the last one
\* ended, and past it when that was empty.
RECURSIVE AllMatches(_, _, _, _)
AllMatches(S, items, s, anchor) ==
    LET After(m) ==
            IF m.result # "found" THEN << >>
            ELSE <<m>> \o IF anchor THEN << >>
                           ELSE AllMatches(S, items, IF m.to = m.from THEN m.to + 1 ELSE m.to, FALSE)
    IN  After(TheMatch(S, items, s, anchor))
Caret == [text |-> <<"^">>, kind |-> "one", set |-> {"^"}, rep |-> ""]

Replacement(c, m) ==
    LET whole == Text(SubSeq(c.src, m.from, m.to - 1))
        args == Whole(c.src, m)
        Stands(k) == CASE k \notin DOMAIN c.repl.news \/ c.repl.news[k] = "%" -> << >>
                       [] k > 1 /\ c.repl.news[k - 1] = "%" ->
                            IF c.repl.news[k] = "0" THEN whole.text
                            ELSE Spelled(args[CHOOSE l \in DOMAIN args : Digits[l] = c.repl.news[k]])
                       [] OTHER -> <<c.repl.news[k]>>
    IN  IF c.repl.kind = "string" THEN FlattenSeq([k \in DOMAIN c.repl.news |-> Stands(k)])
        ELSE IF args[1].at = 0 /\ args[1].text \in c.repl.has THEN <<"x">> ELSE whole.text
Replaced(c, all) ==
    LET ms == SubSeq(all, 1, IF c.max < Len(all) THEN c.max ELSE Len(all))
        Before(k) == SubSeq(c.src, IF k = 1 THEN 1 ELSE ms[k - 1].to,
                            IF k > Len(ms) THEN Len(c.src) ELSE ms[k].from - 1)
    IN  [result |-> "done", n |-> Len(ms),
         text |-> FlattenSeq([k \in 1..(Len(ms) + 1) |->
                     Before(k) \o IF k > Len(ms) THEN << >> ELSE Replacement(c, ms[k])])]

\* find and match answer the leftmost match and, of the matches there, the one
\* with the longest (of "-", the shortest) repetitions, the first item's before
\* the next's, with what the groups have taken: no capture that a failed try has
\* left behind and none missing.  A pattern that is not well formed is never
\* taken for a match (unless find has taken it as it stands).
FindRight ==
    answer # << >> /\ call.f \in {"find", "match"} =>
        LET plain == call.f = "find" /\ ToSet(WithAnchor(call)) \intersect Specials = {}
            m == TheMatch(call.src, call.items, Start(call), call.anchor)
        IN  IF WellFormed(call.items)
            THEN answer = <<IF call.f = "find" THEN m ELSE WithWhole(call.src, m)>>
            ELSE plain \/ answer[1].result # "found"

\* gmatch and gsub take the matches one after the other, an empty one where
\* there is no other and none twice; gsub replaces max_s of them, keeps the rest
\* of the subject as it was and counts them.
LoopsRight ==
    answer # << >> /\ WellFormed(call.items) =>
        /\ call.f = "gmatch" =>
            LET items == (IF call.anchor THEN <<Caret>> ELSE << >>) \o call.items
                all == AllMatches(call.src, items, 1, FALSE)
            IN  answer = [k \in DOMAIN all |-> WithWhole(call.src, all[k])] \o <<NotFound>>
        /\ call.f = "gsub" => answer = <<Replaced(call, AllMatches(call.src, call.items, 1, call.anchor))>>
=============================================================================
