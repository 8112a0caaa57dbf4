--------------------------- MODULE MCYgtkClasses ---------------------------
(* The classes of gui/ygtk.c on small programs: which instances they make. *)
EXTENDS YgtkClasses, TLC

\* One of every way to come by an object, and one whose parent in the class
\* data is not that of its type.
MCWanted == {"GtkDialog", "GtkTextView", "GtkKnob", "surface", "cairo"}
\* Which of the userdata it is makes no difference.
MCSymmetry == Permutations(Userdata)
=============================================================================
