------------------------------ MODULE YSscanf -------------------------------
(***************************************************************************)
(* y_vsscanf() of util/y_sscanf.c: one step for each item of the format.   *)
(* The format is given as the items that its characters spell, the buffer  *)
(* as characters.  log keeps what each item has taken of the buffer.       *)
(***************************************************************************)
EXTENDS YSscanfItems

VARIABLES
    buffer, format,
    bp,            \* index of the next character of the buffer
    args,          \* pointers taken with va_arg()
    conversions,   \* the result
    log,           \* of each item that is done: [from, to, value], to excluded
    ended          \* an item has failed

vars == <<buffer, format, bp, args, conversions, log, ended>>

Item == format[Len(log) + 1]
Nothing == "nothing"

IsSpace(c) == c \in {" ", "\t", "\n", "\r", "\f"}

HexValue == DigitValue @@ ("a" :> 10 @@ "b" :> 11 @@ "c" :> 12 @@ "d" :> 13 @@ "e" :> 14 @@ "f" :> 15)
                       @@ ("A" :> 10 @@ "B" :> 11 @@ "C" :> 12 @@ "D" :> 13 @@ "E" :> 14 @@ "F" :> 15)
IsHex(c) == c \in DOMAIN HexValue

HexNumber(t) == FoldLeft(LAMBDA n, c : 16 * n + HexValue[c], 0, t)

\* Where a field of the given width that begins at bp ends at the latest; 0 is
\* no width.
LimitPastWidth(width) ==
    IF width = 0 \/ bp + width > Len(buffer) THEN Len(buffer) + 1 ELSE bp + width + 1
Limit(width) ==
    IF width = 0 \/ bp + width > Len(buffer) THEN Len(buffer) + 1 ELSE bp + width

\* Whether an item that scans a run of characters takes c.
Takes(conv, c) ==
    CASE conv = "space" -> IsSpace(c)
      [] conv = "c" -> TRUE
      [] conv = "d" -> IsDigit(c)
      [] conv = "x" -> IsHex(c)
      [] conv = "s" -> ~IsSpace(c)

\* Where the characters that it takes, from buffer[from] on, end.
Run(conv, from, limit) ==
    CHOOSE j \in from .. limit :
        /\ \A k \in from .. j - 1 : Takes(conv, buffer[k])
        /\ j = limit \/ ~Takes(conv, buffer[j])

\* Conversion to an int32_t.
ToInt32(n) == ((n + Int32) % (2 * Int32)) - Int32

Accept(to, value) ==
    /\ bp' = to
    /\ log' = Append(log, [from |-> bp, to |-> to, value |-> value])
    /\ UNCHANGED <<buffer, format, ended>>

Fail == ended' = TRUE /\ UNCHANGED <<buffer, format, bp, log>>

\* "if (!skip)": the pointer is taken and the conversion counts.
StoreUnlessSkipped ==
    /\ args' = IF Item.skip THEN args ELSE args + 1
    /\ conversions' = IF Item.skip THEN conversions ELSE conversions + 1

----------------------------------------------------------------------------
Scan(conv) == ~ended /\ Len(log) < Len(format) /\ Item.conv = conv

Space ==
    /\ Scan("space")
    /\ Accept(Run("space", bp, Len(buffer) + 1), Nothing)
    /\ UNCHANGED <<args, conversions>>

Literal ==
    /\ Scan("literal") \/ Scan("%")
    /\ IF At(buffer, bp) = Item.char THEN Accept(bp + 1, Nothing) ELSE Fail
    /\ UNCHANGED <<args, conversions>>

\* Whether %c has converted something.
Counts(to) == to > bp /\ ~Item.skip

Characters ==
    LET to == Run("c", bp, Limit(IF Item.width = 0 THEN 1 ELSE Item.width)) IN
    /\ Scan("c")
    /\ args' = args + 1
    /\ conversions' = IF Counts(to) THEN conversions + 1 ELSE conversions
    /\ Accept(to, SubSeq(buffer, bp, to - 1))

\* What %d and %x have in common: nothing is taken if there are no digits.
Integer(n, found, to) ==
    IF found
      THEN StoreUnlessSkipped /\ Accept(to, [s |-> IF Item.big THEN n ELSE ToInt32(n), e |-> 0])
      ELSE Fail /\ UNCHANGED <<args, conversions>>

Decimal ==
    LET from == IF At(buffer, bp) = "-" THEN bp + 1 ELSE bp
        to   == Run("d", from, Limit(Item.width))
    IN /\ Scan("d")
       /\ Integer(SignOf(buffer, bp) * Number(buffer, from, to), to > from, to)

Hexadecimal ==
    LET to == Run("x", bp, Limit(Item.width)) IN
    /\ Scan("x")
    /\ Integer(HexNumber(SubSeq(buffer, bp, to - 1)), to > bp, to)

Float ==
    LET r == Atof(SubSeq(buffer, bp, Len(buffer))) IN
    /\ Scan("f")
    /\ IF r.used = 0 THEN Fail /\ UNCHANGED <<args, conversions>>
       ELSE StoreUnlessSkipped /\ Accept(bp + r.used, [s |-> r.s, e |-> r.e])

\* %n does not count as a conversion.
Position ==
    /\ Scan("n")
    /\ args' = IF Item.skip THEN args ELSE args + 1
    /\ UNCHANGED conversions
    /\ Accept(bp, [s |-> bp - 1, e |-> 0])

\* %s takes its pointer first.
Word ==
    LET to == Run("s", bp, Limit(Item.width)) IN
    /\ Scan("s")
    /\ args' = args + 1
    /\ IF Item.width = 0 \/ to = bp
         THEN Fail /\ UNCHANGED conversions
         ELSE /\ Accept(to, SubSeq(buffer, bp, to - 1))
              /\ conversions' = IF Item.skip THEN conversions ELSE conversions + 1

BadCharacter == Scan("bad") /\ Fail /\ UNCHANGED <<args, conversions>>

Init ==
    /\ \E case \in Cases : buffer = case.buffer /\ format = case.format
    /\ bp = 1 /\ args = 0 /\ conversions = 0
    /\ log = << >> /\ ended = FALSE

Next == Space \/ Literal \/ Characters \/ Decimal \/ Hexadecimal \/ Float
          \/ Position \/ Word \/ BadCharacter

Spec == Init /\ [][Next]_vars

----------------------------------------------------------------------------
(* Properties.                                                             *)

TypeOK ==
    /\ bp \in 1 .. Len(buffer) + 1
    /\ conversions \in 0 .. args
    /\ ended \in BOOLEAN
    /\ \A i \in DOMAIN log :
         format[i].conv \in {"d", "x"} /\ ~format[i].big =>
             log[i].value.s \in -Int32 .. Int32 - 1

Fits(t, item) == item.width = 0 \/ Len(t) <= item.width

\* The texts that an item stands for.
Matches(t, item) ==
    CASE item.conv = "space" -> \A i \in DOMAIN t : IsSpace(t[i])
      [] item.conv \in {"literal", "%"} -> t = <<item.char>>
      [] item.conv = "c" -> Len(t) <= (IF item.width = 0 THEN 1 ELSE item.width)
      [] item.conv = "d" -> /\ t # << >> /\ IsDigit(Last(t)) /\ Fits(t, item)
                            /\ \A i \in DOMAIN t : IsDigit(t[i]) \/ (i = 1 /\ t[1] = "-")
      [] item.conv = "x" -> t # << >> /\ (\A i \in DOMAIN t : IsHex(t[i])) /\ Fits(t, item)
      [] item.conv = "f" -> IsNumber(t)
      [] item.conv = "n" -> t = << >>
      [] item.conv = "s" -> /\ t # << >> /\ (\A i \in DOMAIN t : ~IsSpace(t[i]))
                            /\ item.width > 0 /\ Fits(t, item)
      [] OTHER -> FALSE

\* Where the texts for an item that begin at i may end, excluded.
Ends(i, item) == {j \in i .. Len(buffer) + 1 : Matches(SubSeq(buffer, i, j - 1), item)}

Bare(i, item) == item.conv = "f" /\ BarePoint(SubSeq(buffer, i, Len(buffer)))

\* The items share out the buffer from its start without a gap, each with the
\* longest text it stands for; and an item fails only where there is none, or
\* the exponent of a number is cut short.
LongestMatch ==
    /\ \A i \in DOMAIN log : ~Bare(log[i].from, format[i]) =>
         /\ log[i].from = IF i = 1 THEN 1 ELSE log[i - 1].to
         /\ log[i].to \in Ends(log[i].from, format[i])
         /\ \A j \in Ends(log[i].from, format[i]) : j <= log[i].to
    /\ ended => \/ Ends(bp, Item) = {}
                \/ Item.conv = "f" /\ \E j \in Ends(bp, Item) : At(buffer, j) \in {"e", "E"}

\* What is stored is the number that the text spells: of an integer as much as
\* its type holds, of a number with a point or exponent what the significand
\* has room for.
ValuesRight ==
    \A i \in DOMAIN log :
        LET t == SubSeq(buffer, log[i].from, log[i].to - 1)
            v == log[i].value
        IN CASE format[i].conv = "d" -> (v.s - Exact(t).s * SignOf(t, 1)) % (2 * Int32) = 0
             [] format[i].conv = "f" -> Bare(log[i].from, format[i]) \/ IsValueOf(v, t)
             [] format[i].conv = "n" -> v.s = Len(SubSeq(buffer, 1, log[i].to - 1))
             [] OTHER -> TRUE

\* The significand never overflows its integer, neither while it takes digits
\* nor while it takes up the exponent.
NoOverflow ==
    \A i \in DOMAIN log : format[i].conv = "f" => AbsoluteValue(log[i].value.s) <= IntMax

Storing == {i \in DOMAIN format : format[i].conv \in {"c", "d", "f", "s", "x"} /\ ~format[i].skip}
Filled  == {i \in DOMAIN log : i \in Storing /\ log[i].from < log[i].to}

\* "the number of sucessful conversions": a caller who is told n finds the
\* results of the first n conversions that store, though %c may find nothing
\* and scanning goes on.
FilledInOrder ==
    /\ conversions = Cardinality(Filled)
    /\ \A i \in Filled : \A j \in Storing : j < i => j \in Filled

=============================================================================
