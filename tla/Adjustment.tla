----------------------------- MODULE Adjustment -----------------------------
(***************************************************************************)
(* The numbers a GtkAdjustment holds, as the range widgets of libwhy       *)
(* handle them.  A GtkAdjustment stores its value and its bounds as        *)
(* gdouble; GtkKnob and GtkControl compute in gfloat.  Doubles is a small  *)
(* piece of the gdouble grid, written as integers, and Floats the coarser  *)
(* grid of those that a gfloat can hold.                                   *)
(***************************************************************************)
EXTENDS Integers

CONSTANTS Doubles,   \* the gdouble values told apart
          Floats     \* those of them that are exactly a gfloat

Distance(x, y) == IF x < y THEN y - x ELSE x - y

\* f is a gfloat that no other gfloat is closer to v than.
IsNearest(f, v) == \A g \in Floats : Distance(f, v) <= Distance(g, v)

ASSUME FloatAssumption ==
    /\ Doubles \subseteq Int
    /\ Floats \subseteq Doubles
    /\ \A v \in Doubles : \E f \in Floats : IsNearest(f, v)

\* The conversion the C assignment "gfloat = gdouble" performs.
ToFloat(v) == CHOOSE f \in Floats : IsNearest(f, v)

\* GLib's MIN and MAX macros, nested the way every clamp of libwhy nests them:
\* MAX (MIN (v, upper), lower).
Clamp(v, lower, upper) ==
    LET least == IF v < upper THEN v ELSE upper
    IN  IF least > lower THEN least ELSE lower

=============================================================================
