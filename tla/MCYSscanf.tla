----------------------------- MODULE MCYSscanf ------------------------------
(***************************************************************************)
(* Instances of YSscanf for TLC: %f on every short string that looks like  *)
(* a number, and every short format on every short buffer.                 *)
(***************************************************************************)
EXTENDS YSscanfItems

CONSTANTS FloatChars, MaxFloat,    \* strings for %f
          BufferChars, MaxBuffer,  \* buffers for the formats
          Items, MaxItems          \* formats

Plain(c) == [conv |-> c, skip |-> FALSE, width |-> 0, big |-> FALSE, char |-> ""]

Char(c)     == [Plain("literal") EXCEPT !.char = c]
Percent     == [Plain("%") EXCEPT !.char = "%"]
Wide(c, w)  == [Plain(c) EXCEPT !.width = w]
Long(c)     == [Plain(c) EXCEPT !.big = TRUE]
Skipped(c, w) == [Wide(c, w) EXCEPT !.skip = TRUE]

MCItems == {Plain("space"), Char("a"), Percent, Plain("bad"),
            Plain("c"), Wide("c", 2), Plain("d"), Wide("d", 1), Wide("d", 2), Long("d"),
            Plain("f"), Plain("n"), Plain("s"), Wide("s", 2), Plain("x"), Wide("x", 1),
            Skipped("c", 0), Skipped("d", 0), Skipped("f", 0), Skipped("n", 0), Skipped("s", 2)}

Strings(chars, n) == UNION {[1 .. m -> chars] : m \in 0 .. n}

\* Those that take part in the longest formats.
MCMain == Items \ {Percent, Plain("bad"), Plain("space"), Wide("c", 2), Wide("d", 2), Long("d"), Wide("x", 1),
                   Skipped("c", 0), Skipped("f", 0), Skipped("n", 0), Skipped("s", 2)}
Formats == Strings(Items, MaxItems - 1) \union [1 .. MaxItems -> MCMain]

MCCases == [buffer : Strings(FloatChars, MaxFloat), format : {<<Plain("f")>>}]
    \union [buffer : Strings(BufferChars, MaxBuffer), format : Formats]

=============================================================================
