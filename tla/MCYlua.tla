------------------------------- MODULE MCYlua -------------------------------
(***************************************************************************)
(* Instances of Ylua for TLC: every command line of up to MaxWords.        *)
(***************************************************************************)
EXTENDS Ylua

CONSTANT MaxWords

MCCommands == UNION {[1 .. n -> Words] : n \in 0 .. MaxWords}

=============================================================================
