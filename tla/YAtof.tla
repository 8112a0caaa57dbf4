------------------------------- MODULE YAtof --------------------------------
(***************************************************************************)
(* y_atof() of util/y_sscanf.c: a decimal number at the start of a string, *)
(* with the decimal point of the locale or ".".  The significand is an     *)
(* int64_t, here with IntMax for INT64_MAX; digits that do not fit only    *)
(* shift the exponent.  The final scaling with doubles is left out: the    *)
(* result is s * 10^e as an exact number.                                  *)
(***************************************************************************)
EXTENDS Integers, SequencesExt

CONSTANTS DecimalPoint, \* of the locale
          IntMax        \* INT64_MAX

ASSUME AtofAssumption == IntMax \in Nat /\ IntMax >= 19

DigitValue == [c \in {"0", "1", "2", "3", "4", "5", "6", "7", "8", "9"} |->
                 CHOOSE n \in 0 .. 9 : ToString(n) = c]
IsDigit(c) == c \in DOMAIN DigitValue

\* The character at z[i]; a string ends with NUL.
At(z, i) == IF i <= Len(z) THEN z[i] ELSE "NUL"

\* Where the digits that begin at z[i], if any, end.
RunEnd(z, i) == CHOOSE j \in i .. Len(z) + 1 :
                    /\ ~IsDigit(At(z, j))
                    /\ \A k \in i .. j - 1 : IsDigit(z[k])
ZerosEnd(z, i) == CHOOSE j \in i .. Len(z) + 1 :
                    /\ At(z, j) # "0"
                    /\ \A k \in i .. j - 1 : z[k] = "0"

AfterSign(z, i) == IF At(z, i) \in {"-", "+"} THEN i + 1 ELSE i
SignOf(z, i)    == IF At(z, i) = "-" THEN -1 ELSE 1

\* Whether the significand has room for one more digit.
Room(s) == s < (IntMax - 9) \div 10

\* The significand s with as many of the digits z[i .. j-1] as there is room
\* for, and how many those are.
Significand(s, z, i, j) ==
    FoldLeft(LAMBDA acc, c : IF Room(acc.s)
                               THEN [s |-> 10 * acc.s + DigitValue[c], kept |-> acc.kept + 1]
                               ELSE acc,
             [s |-> s, kept |-> 0], SubSeq(z, i, j - 1))

Number(z, i, j) == FoldLeft(LAMBDA n, c : 10 * n + DigitValue[c], 0, SubSeq(z, i, j - 1))

Failed == [used |-> 0, s |-> 0, e |-> 0]

\* The exponent at z[i], if there is one, on top of d.
Exponent(z, i, s, d) ==
    IF At(z, i) \notin {"e", "E"} THEN [used |-> i - 1, s |-> s, e |-> d]
    ELSE LET from == AfterSign(z, i + 1)
             end  == RunEnd(z, from)
         IN IF end = from THEN Failed       \* malformed exponent
            ELSE [used |-> end - 1, s |-> s, e |-> SignOf(z, i + 1) * Number(z, from, end) + d]

\* y_atof() up to the sign: how many characters it has used, significand and
\* exponent.
Unsigned(z) ==
    LET start == AfterSign(z, 1)
        first == ZerosEnd(z, start)
        point == RunEnd(z, first)
        whole == Significand(0, z, first, point)
        d     == (point - first) - whole.kept
        end   == RunEnd(z, point + 1)
        all   == Significand(whole.s, z, point + 1, end)
    IN IF At(z, point) \in {".", DecimalPoint} THEN Exponent(z, end, all.s, d - all.kept)
       ELSE IF point = start THEN Failed   \* no significand digits converted
       ELSE Exponent(z, point, whole.s, d)

DropZeros(r, n) == [r EXCEPT !.s = @ \div 10 ^ n, !.e = @ + n]

\* "attempt to reduce exponent": until the significand is full, or has no more
\* zeros to give.
Reduced(r) ==
    LET up   == CHOOSE k \in 0 .. r.e :
                    /\ k = r.e \/ r.s * 10 ^ k >= IntMax \div 10
                    /\ \A j \in 0 .. k - 1 : r.s * 10 ^ j < IntMax \div 10
        down == CHOOSE k \in 0 .. -r.e :
                    /\ k = -r.e \/ r.s % 10 ^ (k + 1) # 0
                    /\ r.s % 10 ^ k = 0
    IN IF r.s = 0 THEN [r EXCEPT !.e = 0]
       ELSE IF r.e > 0 THEN [r EXCEPT !.s = @ * 10 ^ up, !.e = @ - up]
       ELSE DropZeros(r, down)

Atof(z) == LET r == Reduced(Unsigned(z)) IN [r EXCEPT !.s = SignOf(z, 1) * @]

----------------------------------------------------------------------------
(* The number that a string denotes, by the grammar of strtod().           *)

IsSignificand(t) ==
    /\ \E i \in DOMAIN t : IsDigit(t[i])
    /\ \A i \in DOMAIN t : \/ IsDigit(t[i])
                           \/ t[i] \in {".", DecimalPoint}
                           \/ i = 1 /\ t[1] \in {"-", "+"}
    /\ Cardinality({i \in DOMAIN t : t[i] \in {".", DecimalPoint}}) <= 1

IsExponent(t) ==
    /\ t # << >> /\ t[1] \in {"e", "E"} /\ IsDigit(Last(t))
    /\ \A i \in 2 .. Len(t) : IsDigit(t[i]) \/ (i = 2 /\ t[2] \in {"-", "+"})

\* t is a number whose significand ends with t[m].
EndsSignificand(t, m) ==
    /\ IsSignificand(SubSeq(t, 1, m))
    /\ m = Len(t) \/ IsExponent(SubSeq(t, m + 1, Len(t)))

IsNumber(t) == \E m \in DOMAIN t : EndsSignificand(t, m)

\* A point without a digit: y_atof() converts it to 0, or to 0 times a power
\* of ten, though it has "no significand digits converted".
BarePoint(z) ==
    LET i == AfterSign(z, 1) IN At(z, i) \in {".", DecimalPoint} /\ ~IsDigit(At(z, i + 1))

\* The number t, exactly: its digits without the point, and the power of ten
\* that the point and the exponent make.
Exact(t) ==
    LET m      == CHOOSE m \in DOMAIN t : EndsSignificand(t, m)
        digits == SelectSeq(SubSeq(t, 1, m), IsDigit)
        places == Cardinality({i \in 1 .. m : /\ IsDigit(t[i])
                                              /\ \E j \in 1 .. i : t[j] \in {".", DecimalPoint}})
        power  == IF m = Len(t) THEN 0
                  ELSE SignOf(t, m + 2) * Number(t, AfterSign(t, m + 2), Len(t) + 1)
    IN [s |-> Number(digits, 1, Len(digits) + 1), e |-> power - places]

AbsoluteValue(n) == IF n < 0 THEN -n ELSE n

\* r is the number t, but for digits that have no room: then it is closer to 0
\* by less than one part in (IntMax - 9) / 10.
IsValueOf(r, t) ==
    LET number == Exact(t)
        unit   == IF r.e < number.e THEN r.e ELSE number.e
        got    == AbsoluteValue(r.s) * 10 ^ (r.e - unit)
        exact  == number.s * 10 ^ (number.e - unit)
    IN IF number.s = 0 THEN r.s = 0
       ELSE /\ (r.s < 0) = (t[1] = "-")
            /\ got <= exact
            /\ (exact - got) * ((IntMax - 9) \div 10) < exact \/ exact = got

=============================================================================
