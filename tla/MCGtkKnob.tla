----------------------------- MODULE MCGtkKnob ------------------------------
(***************************************************************************)
(* Instances of GtkKnob for TLC.  A gfloat holds 0 and 3; 5 is a gdouble   *)
(* that a gfloat does not hold, and the upper bound, so narrowing a value  *)
(* clamped to it rounds it.  Two knobs share an adjustment, or one knob is *)
(* moved between two, but not both at once: that has too many states.      *)
(***************************************************************************)
EXTENDS GtkKnob

CONSTANTS OtherKnob, OtherAdjustment

Untouched(a) == /\ value[a] = Lower /\ heard[a] = Lower /\ upper[a] \in Uppers
                /\ \A k \in Knobs : adjustment[k] # a
Within == life[OtherKnob] = "UNBORN" \/ Untouched(OtherAdjustment)

MCSpec == Init /\ [][Next /\ Within']_vars /\ Fairness
=============================================================================
