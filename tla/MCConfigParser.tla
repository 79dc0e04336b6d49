-------------------------- MODULE MCConfigParser ----------------------------
(* Instances of ConfigParser for TLC.                                      *)
EXTENDS ConfigGrammar

CONSTANTS MaxChars, MaxMarks

(* Every text over all kinds of characters, and longer ones over those     *)
(* that build statements and blocks.                                       *)
MCTexts ==
  BoundedSeq(Chars, MaxChars) \cup BoundedSeq({"{", "}", ";"} \cup Letters, MaxMarks)

=============================================================================
