-------------------------- MODULE MCStreamRedactor --------------------------
(* Patterns shaped like password and ssn: no pattern begins with the end of    *)
(* another, but one contains the beginning of the other.                      *)
EXTENDS StreamRedactor
\* The longer pattern begins with a character of two bytes and contains the
\* beginning of the other one.
ShortAndLong == << <<1, 1, 2>>, <<8, 9, 1, 3>> >>
SameCase == [c \in Alphabet |-> c]
\* What the theorems about the output assume.
ASSUME OutputAssumption == Separate /\ OneCase
=============================================================================
