--------------------------- MODULE MCControlPanel ---------------------------
(***************************************************************************)
(* Instances of ControlPanel for TLC.                                      *)
(***************************************************************************)
EXTENDS ControlPanel, TLC

Symmetry == Permutations(Panels) \union Permutations(Widgets) \union Permutations(Nodes)

=============================================================================
