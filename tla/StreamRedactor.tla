--------------------------- MODULE StreamRedactor ---------------------------
(***************************************************************************)
(* The streaming redactor (engine.rs): patterns are replaced in a response   *)
(* that arrives in chunks, with a suffix held back while it could begin a    *)
(* pattern or is an incomplete UTF-8 character.  The reference is           *)
(* redact_text, which sees the whole text at once.                          *)
(*                                                                         *)
(* Bytes are numbers; a replacement is one negative number per pattern.      *)
(* Characters have one byte, or two: Lead and Cont.                         *)
(***************************************************************************)
EXTENDS Integers, Sequences, FiniteSetsExt

CONSTANTS
  Alphabet,     \* bytes that occur
  Lower,        \* ASCII lower case of every byte
  Lead, Cont,   \* first and second byte of a two-byte character
  Patterns,     \* EngineState.patterns
  Capacities,   \* values max_capacity may have
  MaxChunk,     \* bound: longest chunk of the upstream
  MaxFed        \* bound: bytes of a response

ASSUME PatternAssumption ==
  /\ Lower \in [Alphabet -> Alphabet]
  /\ Patterns \in Seq(Seq(Alphabet)) /\ \A i \in DOMAIN Patterns : Patterns[i] # <<>>
  /\ Lead # Cont
  /\ Capacities \subseteq Nat \ {0} /\ MaxChunk \in Nat \ {0} /\ MaxFed \in Nat

VARIABLES
  capacity, \* max_capacity of the redactor
  fed,      \* history: what the upstream has sent
  pending,  \* StreamRedactor.pending
  out,      \* output segments, put together
  status    \* "open", "finished", or the error that ended the response

vars == <<capacity, fed, pending, out, status>>

Take(t, n) == SubSeq(t, 1, n)
Drop(t, n) == SubSeq(t, n + 1, Len(t))

\* ends_with: the bytes of s are the last ones of t.
Ends(s, t) ==
  /\ Len(s) <= Len(t)
  /\ \A i \in 1 .. Len(s) : s[i] = t[Len(t) - Len(s) + i]

-----------------------------------------------------------------------------
(***************************************************************************)
(* Matching.  find_iter of an AhoCorasick with the standard match kind: from *)
(* left to right, a match is reported as soon as a pattern ends (the longest  *)
(* of those that end there), and the search goes on behind it.               *)
(***************************************************************************)
Lowered(t) == [i \in DOMAIN t |-> Lower[t[i]]]

PatternsEnding(t) ==
  {i \in DOMAIN Patterns : Ends(Lowered(Patterns[i]), Lowered(t))}
Longest(E) == CHOOSE i \in E : \A j \in E : Len(Patterns[i]) >= Len(Patterns[j])

\* Fault: the replacement of the next pattern.
ReplacementNext(i) == <<-(i + 1)>>
Replacement(i) == <<-i>>

\* One byte more: `run` is the text behind the last match.
Scan(found, c) ==
  LET run == Append(found.run, c)
      E == PatternsEnding(run)
  IN  IF E = {}
      THEN [text |-> found.text, run |-> run]
      ELSE [text |-> found.text \o Take(run, Len(run) - Len(Patterns[Longest(E)]))
                                \o Replacement(Longest(E)),
            run |-> <<>>]

\* What has been found of a text after each of its bytes.
Found(t) ==
  LET found[n \in 0 .. Len(t)] ==
        IF n = 0 THEN [text |-> <<>>, run |-> <<>>] ELSE Scan(found[n - 1], t[n])
  IN  found

\* redact_text of a whole text, redact_source of the safe part of a source.
Redact(t) ==
  LET found == Found(t)[Len(t)]
  IN  found.text \o found.run

-----------------------------------------------------------------------------
(***************************************************************************)
(* How much of a text may be released.                                     *)
(***************************************************************************)
MaxPatternLen == Max({0} \cup {Len(Patterns[i]) : i \in DOMAIN Patterns})

\* The text ends with the first n bytes of a longer pattern.  The comparison is
\* of bytes: unlike the search, it does not ignore case.
Begun(t, n, i) == n < Len(Patterns[i]) /\ Ends(Take(Patterns[i], n), t)

\* Longest proper prefix of a pattern that the text ends with.
Retain(t) ==
  Max({0} \cup {n \in 1 .. MaxPatternLen - 1 : \E i \in DOMAIN Patterns : Begun(t, n, i)})

CharBoundary(t, k) == k = 0 \/ k = Len(t) \/ t[k + 1] # Cont

\* Faults: a suffix that begins a pattern is released; too much is held back.
BoundaryEager(t) == IF Len(t) <= MaxPatternLen THEN 0 ELSE Len(t)
BoundaryTimid(t) == IF Len(t) <= 2 * MaxPatternLen THEN 0 ELSE Len(t) - Retain(t)

\* determine_safe_boundary_state
SafeBoundary(t) ==
  IF Len(t) <= MaxPatternLen THEN 0
  ELSE IF \E i \in DOMAIN Patterns : Ends(Patterns[i], t) THEN Len(t)
  ELSE Max({k \in 0 .. Len(t) - Retain(t) : CharBoundary(t, k)})

-----------------------------------------------------------------------------
(***************************************************************************)
(* UTF-8.                                                                  *)
(***************************************************************************)
WellFormed(t) ==
  \A i \in 1 .. Len(t) :
    /\ t[i] = Lead => i < Len(t) /\ t[i + 1] = Cont
    /\ t[i] = Cont => i > 1 /\ t[i - 1] = Lead

\* A pattern is a String.
ASSUME PatternsWellFormed == \A i \in DOMAIN Patterns : WellFormed(Patterns[i])

\* The text breaks off inside its last character.
Incomplete(t) == t # <<>> /\ t[Len(t)] = Lead /\ WellFormed(Take(t, Len(t) - 1))

\* from_utf8: the length of the valid text, or an error.
Invalid == -1
\* Fault: a character cut by a chunk is an error.
ValidLenStrict(t) == IF WellFormed(t) THEN Len(t) ELSE Invalid
ValidLen(t) ==
  CASE WellFormed(t) -> Len(t)
    [] Incomplete(t) -> Len(t) - 1
    [] OTHER -> Invalid

-----------------------------------------------------------------------------
Init ==
  /\ capacity \in Capacities
  /\ fed = <<>> /\ pending = <<>> /\ out = <<>> /\ status = "open"

\* Fault: the bytes held back are released as they are.
FailFlushes(error, held) ==
  /\ status' = error
  /\ pending' = held
  /\ out' = out \o pending

\* The call returns an error, which ends the response: its output is lost.
Fail(error, held) ==
  /\ status' = error
  /\ pending' = held
  /\ UNCHANGED out

\* push: process_source(pending and chunk, false)
Push(chunk) ==
  /\ status = "open"
  /\ Len(fed) + Len(chunk) <= MaxFed
  /\ fed' = fed \o chunk
  /\ LET source == pending \o chunk
         valid == ValidLen(source)
         safe == SafeBoundary(Take(source, valid))
     IN  \/ valid = Invalid /\ Fail("invalid_utf8", <<>>)
         \/ /\ valid # Invalid /\ Len(source) - safe > capacity
            /\ Fail("buffer_limit", Drop(source, safe))
         \/ /\ valid # Invalid /\ Len(source) - safe <= capacity
            /\ out' = out \o Redact(Take(source, safe))
            /\ pending' = Drop(source, safe)
            /\ UNCHANGED status
  /\ UNCHANGED capacity

\* finish: process_source(pending, true)
Finish ==
  /\ status = "open"
  /\ \/ ValidLen(pending) # Len(pending) /\ Fail("truncated", <<>>)
     \/ /\ ValidLen(pending) = Len(pending)
        /\ out' = out \o Redact(pending)
        /\ pending' = <<>>
        /\ status' = "finished"
  /\ UNCHANGED <<capacity, fed>>

Chunks == UNION {[1 .. n -> Alphabet] : n \in 1 .. MaxChunk}

Next == (\E chunk \in Chunks : Push(chunk)) \/ Finish

Spec == Init /\ [][Next]_vars

-----------------------------------------------------------------------------
TypeOK ==
  /\ capacity \in Capacities
  /\ {fed, pending} \subseteq Seq(Alphabet)
  /\ out \in Seq(Alphabet \cup {-i : i \in DOMAIN Patterns})
  /\ status \in {"open", "finished", "invalid_utf8", "truncated", "buffer_limit"}

\* What the patterns and the alphabet must satisfy for streaming to change
\* nothing: no pattern begins the way one ends, and there is one case.  The
\* built-in patterns, password, secret and ssn, are separate.
Separate ==
  \A i, j \in DOMAIN Patterns : \A n \in 1 .. MaxPatternLen - 1 :
    n < Len(Patterns[j]) => ~Begun(Patterns[j], n, i)
OneCase == \A c \in Alphabet : Lower[c] = c

\* Streaming changes nothing: whatever the chunks, what was released and what
\* the held bytes will become is redact_text of everything received.  So no
\* pattern split over chunks is released, none is replaced twice, and no other
\* byte is lost or altered.
StreamMatchesWhole ==
  status \in {"open", "finished"} => out \o Redact(pending) = Redact(fed)

\* A response that fails has released nothing but redacted text.
FailureReleasesPrefix ==
  status \in {"invalid_utf8", "truncated", "buffer_limit"} =>
    \E n \in 0 .. Len(Redact(fed)) : out = Take(Redact(fed), n)

\* Text is rejected exactly when it is not UTF-8: a character cut by a chunk is
\* no error unless the response ends there.
Utf8Exact ==
  /\ status = "open" => WellFormed(fed) \/ Incomplete(fed)
  /\ status = "finished" => WellFormed(fed)
  /\ status = "invalid_utf8" => ~WellFormed(fed) /\ ~Incomplete(fed)
  /\ status = "truncated" => Incomplete(fed)

\* Never more than the longest pattern and an incomplete character is held back,
\* so BufferLimitExceeded is out of reach for a capacity of that size.
\* The one byte stands for a character of two bytes; UTF-8 has up to four, and three.
HeldBackBounded ==
  /\ Len(pending) <= MaxPatternLen + 1
  /\ capacity > MaxPatternLen => status # "buffer_limit"
=============================================================================
