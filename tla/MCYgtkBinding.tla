--------------------------- MODULE MCYgtkBinding ----------------------------
(***************************************************************************)
(* Instances of YgtkBinding for TLC.                                       *)
(***************************************************************************)
EXTENDS YgtkBinding

=============================================================================
