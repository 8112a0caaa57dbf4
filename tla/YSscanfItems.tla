---------------------------- MODULE YSscanfItems ----------------------------
(***************************************************************************)
(* What y_vsscanf() of util/y_sscanf.c is called with: a buffer, and a     *)
(* format as the items that its characters spell.                          *)
(***************************************************************************)
EXTENDS YAtof

CONSTANTS Cases,  \* the calls: a buffer and a format each
          Int32   \* 2^31; int64_t holds whatever the buffers spell

\* "%" "*" width "l" conv, or conv is "space", "literal" (of char) or "bad".
ItemRecord == [conv : {"space", "literal", "%", "c", "d", "f", "n", "s", "x", "bad"},
               skip : BOOLEAN, width : Nat, big : BOOLEAN, char : STRING]

ASSUME SscanfAssumption ==
    /\ Int32 \in Nat \ {0}
    /\ \A case \in Cases : \A i \in DOMAIN case.format : case.format[i] \in ItemRecord
=============================================================================
