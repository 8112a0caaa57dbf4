--------------------------- MODULE AnnouncedValue ---------------------------
(***************************************************************************)
(* What a range widget of libwhy promises the listeners of its             *)
(* adjustments: whoever follows "value_changed" knows the value, or the    *)
(* widget owes an announcement of it, or the program took part in a way    *)
(* that forfeits the announcement.  The widgets' update policies, timers,  *)
(* pointer gestures and old_value are ways to keep this promise.           *)
(***************************************************************************)
CONSTANTS Adjustments, Doubles

VARIABLES value,   \* of each adjustment, its value
          heard,   \* ... the value last announced to the listeners
          claim    \* ... whether the present value is still to be announced

vars == <<value, heard, claim>>

TypeOK ==
    /\ value \in [Adjustments -> Doubles]
    /\ heard \in [Adjustments -> Doubles]
    /\ claim \in [Adjustments -> {"SETTLED", "OWED", "FORFEITED"}]

Init == TypeOK /\ heard = value /\ claim = [a \in Adjustments |-> "SETTLED"]

\* The listeners hear the value.  The widget may owe them another announcement.
Announce(a) == heard'[a] = value'[a] /\ claim'[a] # "FORFEITED"

\* The value changes, or does not, and the listeners hear nothing.
Silence(a) ==
    /\ heard'[a] = heard[a]
    /\ \/ claim'[a] = "FORFEITED"
       \/ claim[a] # "FORFEITED" /\ claim'[a] = "OWED"
       \/ claim[a] # "FORFEITED" /\ claim'[a] = "SETTLED" /\ value'[a] = heard[a]

Next == TypeOK' /\ \A a \in Adjustments : Announce(a) \/ Silence(a)

Spec == Init /\ [][Next]_vars

\* The listeners hear every change in the end, unless it is forfeited.
Kept ==
    \A a \in Adjustments :
        value[a] # heard[a] ~> (value[a] = heard[a] \/ claim[a] = "FORFEITED")

=============================================================================
