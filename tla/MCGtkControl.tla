---------------------------- MODULE MCGtkControl ----------------------------
(***************************************************************************)
(* Instances of GtkControl for TLC.  5, where it is used, is a gdouble     *)
(* that a gfloat does not hold, and the upper bound of the adjustments.    *)
(* Two knobs, one of them delayed, share an adjustment, or one control of  *)
(* any kind is moved between two.                                          *)
(***************************************************************************)
EXTENDS GtkControl

CONSTANTS OtherControl, OtherAdjustment

\* Half way between the bounds: a gfloat above Lower if there is room for one.
MCMiddle == [u \in Uppers \union {Lower} |-> IF u = Lower THEN Lower ELSE 3]

Untouched(a) == /\ value[a] = Lower /\ heard[a] = Lower /\ upper[a] \in Uppers
                /\ \A c \in Controls : adjustment[c] # a
Within == \/ life[OtherControl] = "UNBORN"
          \/ /\ Untouched(OtherAdjustment)
             /\ \A c \in Controls : life[c] # "UNBORN" =>
                   type[c] = "ROTARY" /\ policy[c] # "DISCONTINUOUS"
             /\ life[OtherControl] = "ALIVE"
             /\ policy[OtherControl] = "DELAYED" \/ state[OtherControl] = "IDLE"

MCSpec == Init /\ [][Next /\ Within']_vars /\ Fairness
=============================================================================
