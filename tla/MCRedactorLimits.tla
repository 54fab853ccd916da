-------------------------- MODULE MCRedactorLimits --------------------------
(* Alphabets and patterns that are not in one case, or not separate.          *)
EXTENDS StreamRedactor
OneShort == << <<1, 1, 2>> >>
SelfOverlap == << <<1, 2, 1>> >>
SameCase == [c \in Alphabet |-> c]
\* 5 is the capital of 1.
Capital == [c \in Alphabet |-> IF c = 5 THEN 1 ELSE c]
=============================================================================
