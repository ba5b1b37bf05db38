------------------------------- MODULE MCComments -------------------------------
(***************************************************************************)
(* Comments for TLC: every text of at most MaxLength characters, and every *)
(* longer one that is only slashes, stars and newlines.                    *)
(***************************************************************************)
EXTENDS Comments

CONSTANTS MaxLength, MaxLong

Character == {"/", "*", "#", " ", "\n", "a"}

AllTexts ==
  UNION {[1 .. n -> Character] : n \in 0 .. MaxLength}
  \cup UNION {[1 .. n -> {"/", "*", "\n"}] : n \in MaxLength + 1 .. MaxLong}
===============================================================================
