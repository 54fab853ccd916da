------------------------ MODULE StreamRedactorProofs ------------------------
(***************************************************************************)
(* The streaming redactor, for every set of patterns, alphabet and capacity. *)
(***************************************************************************)
EXTENDS StreamRedactor, SequenceTheorems, WellFoundedInduction, TLAPS

\* The provers a step is given to in turn, with their time limits in seconds.
USE SMTT(20), SMTT(30), ZenonT(20), SMTT(40), SMTT(50), SMTT(60)

-----------------------------------------------------------------------------
(***************************************************************************)
(* Numbers and sequences.                                                  *)
(***************************************************************************)
\* Every set of natural numbers has a least element.
LEMMA LeastNatural ==
  ASSUME NEW T \in SUBSET Nat, T # {}
  PROVE  \E n \in T : \A m \in T : n <= m
<1> DEFINE R == OpToRel(<, Nat)
<1>1. IsWellFoundedOn(R, Nat)
  BY NatLessThanWellFounded, Zenon
<1>2. PICK n \in T : \A m \in T : ~(<<m, n>> \in R)
  <2> HIDE DEF R
  <2> QED
    BY <1>1, WFMin, Zenon
<1>3. \A m \in T : m < n => <<m, n>> \in R
  BY DEF OpToRel
<1> HIDE DEF R
<1>4. \A m \in T : ~(m < n)
  BY <1>2, <1>3, Zenon
<1>5. \A m \in T : m \in Nat /\ n \in Nat
  OBVIOUS
<1>6. \A m \in T : n <= m
  BY <1>4, <1>5
<1>7. QED
  BY <1>6

\* Induction on the numbers up to N, over a set of them.
LEMMA UpTo ==
  ASSUME NEW N \in Nat, NEW T \in SUBSET (0 .. N),
         0 \in T, \A n \in 1 .. N : n - 1 \in T => n \in T
  PROVE  \A n \in 0 .. N : n \in T
<1> DEFINE Rest == (0 .. N) \ T
<1>1. SUFFICES ASSUME Rest # {} PROVE FALSE
  OBVIOUS
<1>2. Rest \in SUBSET Nat
  OBVIOUS
<1>3. PICK n \in Rest : \A m \in Rest : n <= m
  <2> HIDE DEF Rest
  <2> QED
    BY <1>1, <1>2, LeastNatural
<1>4. n \in 1 .. N /\ n - 1 \in 0 .. N /\ n \notin T
  BY <1>3
<1>5. n - 1 \notin Rest
  BY <1>2, <1>3, <1>4
<1>6. n - 1 \in T
  BY <1>4, <1>5
<1> QED
  BY <1>4, <1>6

\* A set of natural numbers with a bound has a greatest element.
LEMMA MaxIs ==
  ASSUME NEW T \in SUBSET Nat, T # {}, NEW b \in Nat, \A n \in T : n <= b
  PROVE  Max(T) \in T /\ \A n \in T : n <= Max(T)
<1> DEFINE D == {d \in Nat : b - d \in T}
<1>1. PICK n \in T : TRUE
  BY Zenon
<1>2. b - n \in Nat /\ b - (b - n) = n
  OBVIOUS
<1>3. b - n \in D
  BY <1>2
<1>4. PICK d \in D : \A e \in D : d <= e
  <2>1. D \in SUBSET Nat /\ D # {}
    BY <1>3
  <2> HIDE DEF D
  <2> QED
    BY <2>1, LeastNatural
<1>5. ASSUME NEW m \in T
      PROVE  m <= b - d
  <2>1. b - m \in Nat /\ b - (b - m) = m
    OBVIOUS
  <2>2. b - m \in D
    BY <2>1
  <2>3. d <= b - m
    BY <1>4, <2>2
  <2> QED
    BY <2>3
<1>6. \E x \in T : \A y \in T : x >= y
  BY <1>5
<1> QED
  BY <1>6, Zenon DEF Max

LEMMA TakeIs ==
  ASSUME NEW S, NEW t \in Seq(S), NEW n \in 0 .. Len(t)
  PROVE  /\ Take(t, n) \in Seq(S) /\ Len(Take(t, n)) = n
         /\ \A i \in 1 .. n : Take(t, n)[i] = t[i]
  BY DEF Take

LEMMA DropIs ==
  ASSUME NEW S, NEW t \in Seq(S), NEW n \in 0 .. Len(t)
  PROVE  /\ Drop(t, n) \in Seq(S) /\ Len(Drop(t, n)) = Len(t) - n
         /\ \A i \in 1 .. Len(t) - n : Drop(t, n)[i] = t[n + i]
  BY DEF Drop

LEMMA TakeDrop ==
  ASSUME NEW S, NEW t \in Seq(S), NEW n \in 0 .. Len(t)
  PROVE  Take(t, n) \o Drop(t, n) = t
<1>1. 1 \in 1 .. Len(t) + 1 /\ n \in 1 - 1 .. Len(t) /\ Len(t) \in n .. Len(t)
  OBVIOUS
<1>2. SubSeq(t, 1, n) \o SubSeq(t, n + 1, Len(t)) = SubSeq(t, 1, Len(t))
  BY <1>1, ConcatAdjacentSubSeq, Zenon
<1>3. QED
  BY <1>2, SubSeqFull, Zenon DEF Take, Drop

LEMMA TakeAll ==
  ASSUME NEW S, NEW t \in Seq(S)
  PROVE  /\ Take(t, Len(t)) = t /\ Drop(t, Len(t)) = <<>>
         /\ Take(t, 0) = <<>> /\ Drop(t, 0) = t
  BY SubSeqFull DEF Take, Drop

LEMMA TakeStep ==
  ASSUME NEW S, NEW t \in Seq(S), NEW n \in 1 .. Len(t)
  PROVE  Take(t, n) = Append(Take(t, n - 1), t[n]) /\ t[n] \in S
<1> DEFINE u == Take(t, n)
           v == Append(Take(t, n - 1), t[n])
<1>1. t[n] \in S /\ Take(t, n - 1) \in Seq(S) /\ Len(Take(t, n - 1)) = n - 1
  BY DEF Take
<1>2. u \in Seq(S) /\ Len(u) = n /\ v \in Seq(S) /\ Len(v) = n
  BY <1>1, TakeIs
<1>3. ASSUME NEW i \in 1 .. n PROVE u[i] = v[i]
  BY <1>1 DEF Take
<1> HIDE DEF u, v
<1>4. u = v
  BY <1>2, <1>3, SeqEqual, Zenon
<1> QED
  BY <1>1, <1>4 DEF u, v

-----------------------------------------------------------------------------
(***************************************************************************)
(* The patterns, and how much of a text is held back.                      *)
(***************************************************************************)
LEMMA PatternIs ==
  ASSUME NEW i \in DOMAIN Patterns
  PROVE  /\ Patterns[i] \in Seq(Alphabet) /\ Len(Patterns[i]) \in Nat /\ Len(Patterns[i]) > 0
         /\ Patterns[i][1] # Cont
         /\ WellFormed(Patterns[i])
<1>1. Patterns[i] \in Seq(Alphabet) /\ Patterns[i] # <<>>
  BY PatternAssumption
<1>2. Len(Patterns[i]) \in Nat /\ Len(Patterns[i]) > 0
  BY <1>1
<1>3. WellFormed(Patterns[i])
  BY PatternsWellFormed
<1>4. Patterns[i][1] # Cont
  BY <1>2, <1>3 DEF WellFormed
<1> QED
  BY <1>1, <1>2, <1>3, <1>4

\* The patterns are finitely many, so their lengths have a bound.
LEMMA LengthsBounded ==
  \E b \in Nat : \A i \in DOMAIN Patterns : Len(Patterns[i]) <= b
<1> DEFINE Bounded(n) == \E b \in Nat : \A i \in 1 .. n : Len(Patterns[i]) <= b
           T == {n \in 0 .. Len(Patterns) : Bounded(n)}
<1>0. Len(Patterns) \in Nat /\ DOMAIN Patterns = 1 .. Len(Patterns)
  BY PatternAssumption
<1>1. 0 \in T
  BY <1>0
<1>2. ASSUME NEW n \in 1 .. Len(Patterns), n - 1 \in T
      PROVE  n \in T
  <2>1. PICK b \in Nat : \A i \in 1 .. n - 1 : Len(Patterns[i]) <= b
    BY <1>2
  <2>2. Len(Patterns[n]) \in Nat
    BY <1>0, PatternIs
  <2>3. b + Len(Patterns[n]) \in Nat
    BY <2>2
  <2>4. ASSUME NEW i \in 1 .. n
        PROVE  Len(Patterns[i]) <= b + Len(Patterns[n])
    <3>1. Len(Patterns[i]) \in Nat
      BY <1>0, PatternIs
    <3> QED
      BY <2>1, <2>2, <3>1
  <2>5. Bounded(n)
    BY <2>3, <2>4, Zenon
  <2> HIDE DEF Bounded
  <2> QED
    BY <1>0, <2>5
<1>3. Len(Patterns) \in T
  <2>1. T \in SUBSET (0 .. Len(Patterns)) /\ Len(Patterns) \in 0 .. Len(Patterns)
    BY <1>0
  <2> HIDE DEF T
  <2> QED
    BY <1>0, <1>1, <1>2, <2>1, UpTo, Zenon
<1>4. PICK b \in Nat : \A i \in 1 .. Len(Patterns) : Len(Patterns[i]) <= b
  BY <1>3, Zenon
<1> QED
  BY <1>0, <1>4, Zenon

LEMMA MaxPatternLenIs ==
  MaxPatternLen \in Nat /\ \A i \in DOMAIN Patterns : Len(Patterns[i]) <= MaxPatternLen
<1> DEFINE T == {0} \cup {Len(Patterns[i]) : i \in DOMAIN Patterns}
<1>1. T \in SUBSET Nat /\ T # {}
  BY PatternIs
<1>2. PICK b \in Nat : \A i \in DOMAIN Patterns : Len(Patterns[i]) <= b
  BY LengthsBounded
<1>3. \A n \in T : n <= b
  BY <1>2
<1>4. \A i \in DOMAIN Patterns : Len(Patterns[i]) \in T
  OBVIOUS
<1>5. MaxPatternLen = Max(T)
  BY DEF MaxPatternLen
<1> HIDE DEF T
<1>6. Max(T) \in T /\ \A n \in T : n <= Max(T)
  BY <1>1, <1>3, MaxIs, Zenon
<1> QED
  BY <1>1, <1>4, <1>5, <1>6, Zenon

LEMMA RetainIs ==
  ASSUME NEW t \in Seq(Alphabet)
  PROVE  /\ Retain(t) \in Nat
         /\ Retain(t) > 0 => Retain(t) < MaxPatternLen
         /\ Retain(t) > 0 => \E i \in DOMAIN Patterns : Begun(t, Retain(t), i)
         /\ \A i \in DOMAIN Patterns : \A n \in Nat \ {0} : Begun(t, n, i) => n <= Retain(t)
<1> DEFINE T == {0} \cup {n \in 1 .. MaxPatternLen - 1 :
                            \E i \in DOMAIN Patterns : Begun(t, n, i)}
<1>1. T \in SUBSET Nat /\ T # {} /\ \A n \in T : n <= MaxPatternLen
  BY MaxPatternLenIs
<1>2. Retain(t) = Max(T)
  BY DEF Retain
<1>3. Max(T) \in T /\ \A n \in T : n <= Max(T)
  <2> HIDE DEF T
  <2> QED
    BY <1>1, MaxPatternLenIs, MaxIs, Zenon
<1>4. ASSUME NEW i \in DOMAIN Patterns, NEW n \in Nat \ {0}, Begun(t, n, i)
      PROVE  n \in T
  <2>1. n < Len(Patterns[i]) /\ Len(Patterns[i]) <= MaxPatternLen /\ Len(Patterns[i]) \in Nat
    BY <1>4, MaxPatternLenIs, PatternIs DEF Begun
  <2>2. n \in 1 .. MaxPatternLen - 1
    BY <2>1, MaxPatternLenIs
  <2> QED
    BY <1>4, <2>2
<1>5. Max(T) > 0 =>
        Max(T) \in 1 .. MaxPatternLen - 1 /\ \E i \in DOMAIN Patterns : Begun(t, Max(T), i)
  BY <1>3
<1> HIDE DEF T
<1>6. Max(T) \in Nat
  BY <1>1, <1>3, Zenon
<1>7. \A i \in DOMAIN Patterns : \A n \in Nat \ {0} : Begun(t, n, i) => n <= Max(T)
  BY <1>3, <1>4
<1> QED
  BY <1>2, <1>5, <1>6, <1>7, MaxPatternLenIs

\* A pattern that the text breaks off in begins between two characters.
LEMMA RetainAtChar ==
  ASSUME NEW t \in Seq(Alphabet), Retain(t) <= Len(t)
  PROVE  CharBoundary(t, Len(t) - Retain(t))
<1> DEFINE r == Retain(t)
<1>1. r \in Nat /\ Len(t) \in Nat
  BY RetainIs
<1>2. CASE r = 0
  BY <1>1, <1>2 DEF CharBoundary
<1>3. CASE r # 0
  <2>1. PICK i \in DOMAIN Patterns : Begun(t, r, i)
    BY <1>1, <1>3, RetainIs
  <2> DEFINE p == Patterns[i]
             q == Take(p, r)
  <2> HIDE DEF r
  <2>2. p \in Seq(Alphabet) /\ p[1] # Cont /\ Len(p) \in Nat
    BY PatternIs
  <2>3. r \in 0 .. Len(p) /\ Ends(q, t)
    BY <1>1, <2>1, <2>2 DEF Begun
  <2> HIDE DEF p
  <2>4. q \in Seq(Alphabet) /\ Len(q) = r /\ q[1] = p[1]
    BY <1>1, <1>3, <2>2, <2>3, TakeIs
  <2> HIDE DEF q
  <2>5. \A j \in 1 .. Len(q) : q[j] = t[Len(t) - Len(q) + j]
    BY <2>3, <2>4 DEF Ends
  <2>6. q[1] = t[Len(t) - r + 1]
    BY <1>1, <1>3, <2>4, <2>5
  <2> QED
    BY <2>2, <2>4, <2>6 DEF CharBoundary, r
<1> QED
  BY <1>2, <1>3

\* determine_safe_boundary_state: the text is cut between two characters, at most
\* as many bytes as the longest pattern has are held back, and the cut is at the
\* beginning, or behind a pattern, or before the longest beginning of one.
LEMMA BoundaryIs ==
  ASSUME NEW t \in Seq(Alphabet)
  PROVE  /\ SafeBoundary(t) \in 0 .. Len(t)
         /\ CharBoundary(t, SafeBoundary(t))
         /\ Len(t) - SafeBoundary(t) <= MaxPatternLen
         /\ \/ SafeBoundary(t) = 0
            \/ /\ SafeBoundary(t) = Len(t) /\ t # <<>>
               /\ \E i \in DOMAIN Patterns : Ends(Patterns[i], t)
            \/ SafeBoundary(t) = Len(t) - Retain(t)
<1> DEFINE Whole == \E i \in DOMAIN Patterns : Ends(Patterns[i], t)
           K == {k \in 0 .. Len(t) - Retain(t) : CharBoundary(t, k)}
<1>0. Len(t) \in Nat /\ MaxPatternLen \in Nat /\ Retain(t) \in Nat
  BY MaxPatternLenIs, RetainIs
<1>1. CASE Len(t) <= MaxPatternLen
  <2>1. SafeBoundary(t) = 0
    BY <1>1 DEF SafeBoundary
  <2> QED
    BY <1>0, <1>1, <2>1 DEF CharBoundary
<1>2. CASE Len(t) > MaxPatternLen /\ Whole
  <2>1. SafeBoundary(t) = Len(t)
    BY <1>0, <1>2 DEF SafeBoundary
  <2>2. t # <<>>
    BY <1>0, <1>2
  <2>3. CharBoundary(t, Len(t)) /\ Len(t) - Len(t) <= MaxPatternLen /\ Len(t) \in 0 .. Len(t)
    BY <1>0 DEF CharBoundary
  <2> QED
    BY <1>2, <2>1, <2>2, <2>3, Zenon
<1>3. CASE Len(t) > MaxPatternLen /\ ~Whole
  <2>1. SafeBoundary(t) = Max(K)
    BY <1>0, <1>3 DEF SafeBoundary
  <2>2. Retain(t) <= Len(t) /\ Retain(t) <= MaxPatternLen
    BY <1>0, <1>3, RetainIs
  <2>3. Len(t) - Retain(t) \in Nat /\ Len(t) - Retain(t) \in K
    BY <1>0, <2>2, RetainAtChar
  <2>4. K \in SUBSET Nat /\ \A k \in K : k <= Len(t) - Retain(t)
    BY <1>0, <2>3
  <2>5. PICK b \in Nat : b = Len(t) - Retain(t)
    BY <2>3
  <2> HIDE DEF K
  <2>6. Max(K) \in K /\ \A k \in K : k <= Max(K)
    BY <2>3, <2>4, <2>5, MaxIs, Zenon
  <2>7. Max(K) = b
    <3>1. b \in K
      BY <2>3, <2>5
    <3>2. PICK m \in Nat : m = Max(K)
      BY <2>4, <2>6, Zenon
    <3>3. m <= b /\ b <= m
      BY <2>4, <2>5, <2>6, <3>1, <3>2
    <3> QED
      BY <3>2, <3>3
  <2>8. SafeBoundary(t) = Len(t) - Retain(t)
    BY <2>1, <2>5, <2>7
  <2>9. CharBoundary(t, Len(t) - Retain(t))
    BY <2>2, RetainAtChar
  <2> QED
    BY <1>0, <2>2, <2>8, <2>9
<1> QED
  BY <1>0, <1>1, <1>2, <1>3

-----------------------------------------------------------------------------
(***************************************************************************)
(* The search.                                                             *)
(***************************************************************************)
\* What a released text is made of.
Marks == Alphabet \cup {-i : i \in DOMAIN Patterns}

Searched == [text : Seq(Marks), run : Seq(Alphabet)]
Start == [text |-> <<>>, run |-> <<>>]

LEMMA LoweredIs ==
  ASSUME NEW t \in Seq(Alphabet)
  PROVE  Lowered(t) \in Seq(Alphabet) /\ Len(Lowered(t)) = Len(t)
<1>1. \A i \in 1 .. Len(t) : Lower[t[i]] \in Alphabet
  BY PatternAssumption
<1> QED
  BY <1>1 DEF Lowered

LEMMA EndingIs ==
  ASSUME NEW t \in Seq(Alphabet), NEW i \in PatternsEnding(t)
  PROVE  i \in DOMAIN Patterns /\ Len(Patterns[i]) <= Len(t)
<1>1. i \in DOMAIN Patterns /\ Ends(Lowered(Patterns[i]), Lowered(t))
  BY DEF PatternsEnding
<1>2. /\ Lowered(t) \in Seq(Alphabet) /\ Len(Lowered(t)) = Len(t)
      /\ Lowered(Patterns[i]) \in Seq(Alphabet)
      /\ Len(Lowered(Patterns[i])) = Len(Patterns[i])
  BY <1>1, LoweredIs, PatternIs
<1>3. Len(Lowered(Patterns[i])) <= Len(Lowered(t))
  BY <1>1, <1>2 DEF Ends
<1> QED
  BY <1>1, <1>2, <1>3

LEMMA LongestIs ==
  ASSUME NEW E \in SUBSET DOMAIN Patterns, E # {}
  PROVE  Longest(E) \in E
<1> DEFINE T == {Len(Patterns[i]) : i \in E}
<1>1. T \in SUBSET Nat /\ T # {} /\ \A n \in T : n <= MaxPatternLen
  BY PatternIs, MaxPatternLenIs, Zenon
<1>2. Max(T) \in T /\ \A n \in T : n <= Max(T)
  <2> HIDE DEF T
  <2> QED
    BY <1>1, MaxPatternLenIs, MaxIs, Zenon
<1>3. PICK i \in E : Len(Patterns[i]) = Max(T)
  BY <1>2
<1>4. \A j \in E : Len(Patterns[j]) <= Max(T)
  BY <1>2
<1>5. \A j \in E : Len(Patterns[i]) >= Len(Patterns[j])
  <2> HIDE DEF T
  <2> QED
    BY <1>3, <1>4, PatternIs
<1> QED
  BY <1>5 DEF Longest

\* A byte more: the text behind the last match grows by it, or a match ends
\* there and nothing is behind it.
LEMMA ScanIs ==
  ASSUME NEW f \in Searched, NEW c \in Alphabet,
         NEW run \in Seq(Alphabet), run = Append(f.run, c),
         NEW E, E = PatternsEnding(run)
  PROVE  /\ E = {} => Scan(f, c) = [text |-> f.text, run |-> run]
         /\ E # {} => \E i \in DOMAIN Patterns : \E n \in 0 .. Len(run) :
                        /\ i = Longest(E) /\ n = Len(run) - Len(Patterns[i])
                        /\ Scan(f, c) = [text |-> f.text \o Take(run, n) \o Replacement(i),
                                         run |-> <<>>]
         /\ Scan(f, c) \in Searched
         /\ Scan(f, c).run = run \/ Scan(f, c).run = <<>>
<1>1. E \in SUBSET DOMAIN Patterns
  BY DEF PatternsEnding
<1>2. CASE E = {}
  <2>1. Scan(f, c) = [text |-> f.text, run |-> run]
    BY <1>2, Zenon DEF Scan
  <2>2. Scan(f, c) \in Searched /\ Scan(f, c).run = run
    BY <2>1 DEF Searched
  <2> QED
    BY <1>2, <2>1, <2>2, Zenon
<1>3. CASE E # {}
  <2>1. PICK i \in DOMAIN Patterns : i = Longest(E) /\ i \in E
    BY <1>1, <1>3, LongestIs
  <2>2. Len(Patterns[i]) <= Len(run) /\ Len(Patterns[i]) \in Nat /\ Len(Patterns[i]) > 0
    BY <2>1, EndingIs, PatternIs, Zenon
  <2>3. PICK n \in 0 .. Len(run) : n = Len(run) - Len(Patterns[i])
    <3>1. Len(run) - Len(Patterns[i]) \in 0 .. Len(run)
      BY <2>2
    <3> QED
      BY <3>1, Zenon
  <2>4. Scan(f, c) = [text |-> f.text \o Take(run, n) \o Replacement(i), run |-> <<>>]
    BY <1>3, <2>1, <2>3, Zenon DEF Scan
  <2>5. Take(run, n) \in Seq(Marks)
    <3>1. Take(run, n) \in Seq(Alphabet)
      BY TakeIs, Zenon
    <3> QED
      BY <3>1 DEF Marks
  <2>6. Replacement(i) \in Seq(Marks)
    <3>1. -i \in Marks
      BY DEF Marks
    <3> QED
      BY <3>1 DEF Replacement
  <2>7. f.text \o Take(run, n) \o Replacement(i) \in Seq(Marks)
    BY <2>5, <2>6 DEF Searched
  <2>8. Scan(f, c) \in Searched /\ Scan(f, c).run = <<>>
    BY <2>4, <2>7 DEF Searched
  <2> QED
    BY <1>3, <2>1, <2>3, <2>4, <2>8, Zenon
<1> QED
  BY <1>2, <1>3, Zenon

\* The recursive function of a search exists: it can be extended byte by byte.
Searches(t, n, g) ==
  g = [k \in 0 .. n |-> IF k = 0 THEN Start ELSE Scan(g[k - 1], t[k])]

LEMMA SearchExists ==
  ASSUME NEW t \in Seq(Alphabet)
  PROVE  \E g : Searches(t, Len(t), g)
<1> DEFINE Exists(n) == \E g : Searches(t, n, g)
           T == {n \in 0 .. Len(t) : Exists(n)}
<1>1. Exists(0)
  <2> DEFINE g == [k \in 0 .. 0 |-> Start]
  <2>1. g = [k \in 0 .. 0 |-> IF k = 0 THEN Start ELSE Scan(g[k - 1], t[k])]
    OBVIOUS
  <2> QED
    BY <2>1, Zenon DEF Searches
<1>2. ASSUME NEW n \in 0 .. Len(t), n # 0, Exists(n - 1)
      PROVE  Exists(n)
  <2>1. PICK g : Searches(t, n - 1, g)
    BY <1>2
  <2>2. /\ \A k \in 0 .. n - 1 : g[k] = IF k = 0 THEN Start ELSE Scan(g[k - 1], t[k])
    BY <2>1 DEF Searches
  <2> DEFINE h == [k \in 0 .. n |-> IF k = n THEN Scan(g[n - 1], t[n]) ELSE g[k]]
             H(k) == IF k = 0 THEN Start ELSE Scan(h[k - 1], t[k])
  <2>3. ASSUME NEW k \in 0 .. n
        PROVE  h[k] = H(k)
    <3>1. CASE k = n
      <4>1. n - 1 \in 0 .. n /\ n - 1 # n
        BY <1>2
      <4>2. h[n - 1] = g[n - 1]
        BY <4>1
      <4>3. h[k] = Scan(g[n - 1], t[n])
        BY <3>1
      <4> HIDE DEF h
      <4> QED
        BY <1>2, <3>1, <4>2, <4>3
    <3>2. CASE k # n /\ k # 0
      <4>1. k \in 0 .. n - 1 /\ k - 1 \in 0 .. n /\ k - 1 # n
        BY <1>2, <3>2
      <4>2. h[k] = g[k] /\ h[k - 1] = g[k - 1]
        BY <3>2, <4>1
      <4> HIDE DEF h
      <4>3. g[k] = Scan(g[k - 1], t[k])
        BY <2>2, <3>2, <4>1
      <4> QED
        BY <3>2, <4>2, <4>3
    <3>3. CASE k # n /\ k = 0
      <4>1. h[k] = g[k]
        BY <3>3
      <4>2. k \in 0 .. n - 1
        BY <1>2, <3>3
      <4> HIDE DEF h
      <4> QED
        BY <2>2, <3>3, <4>1, <4>2
    <3> QED
      BY <3>1, <3>2, <3>3
  <2>4. h = [k \in 0 .. n |-> h[k]]
    OBVIOUS
  <2> HIDE DEF h
  <2>5. h = [k \in 0 .. n |-> H(k)]
    BY <2>3, <2>4, Zenon
  <2> QED
    BY <2>5, Zenon DEF Searches
<1>3. Len(t) \in T
  <2> HIDE DEF Exists
  <2>1. Len(t) \in Nat /\ Len(t) \in 0 .. Len(t) /\ T \in SUBSET (0 .. Len(t)) /\ 0 \in T
    BY <1>1
  <2>2. \A n \in 1 .. Len(t) : n - 1 \in T => n \in T
    BY <1>2
  <2> HIDE DEF T
  <2> QED
    BY <2>1, <2>2, UpTo, Zenon
<1> QED
  BY <1>3, Zenon

LEMMA FoundStep ==
  ASSUME NEW t \in Seq(Alphabet)
  PROVE  /\ Found(t)[0] = Start
         /\ \A n \in 1 .. Len(t) : Found(t)[n] = Scan(Found(t)[n - 1], t[n])
<1>1. Found(t) = CHOOSE g : Searches(t, Len(t), g)
  BY Zenon DEF Found, Searches, Start
<1>2. Searches(t, Len(t), Found(t))
  BY <1>1, SearchExists, Zenon
<1>3. \A k \in 0 .. Len(t) :
        Found(t)[k] = IF k = 0 THEN Start ELSE Scan(Found(t)[k - 1], t[k])
  <2> DEFINE g == Found(t)
  <2>1. g = [k \in 0 .. Len(t) |-> IF k = 0 THEN Start ELSE Scan(g[k - 1], t[k])]
    BY <1>2, Zenon DEF Searches
  <2> HIDE DEF g
  <2>2. \A k \in 0 .. Len(t) : g[k] = IF k = 0 THEN Start ELSE Scan(g[k - 1], t[k])
    BY <2>1
  <2> QED
    BY <2>2 DEF g
<1>4. Len(t) \in Nat
  OBVIOUS
<1> QED
  BY <1>3, <1>4

\* What is found of the beginning of a text does not depend on the rest.
LEMMA FoundFront ==
  ASSUME NEW s \in Seq(Alphabet), NEW t \in Seq(Alphabet)
  PROVE  \A n \in 0 .. Len(s) : Found(s \o t)[n] = Found(s)[n]
<1> DEFINE T == {n \in 0 .. Len(s) : Found(s \o t)[n] = Found(s)[n]}
<1>1. /\ s \o t \in Seq(Alphabet) /\ Len(s \o t) = Len(s) + Len(t)
      /\ Len(s) \in Nat /\ Len(t) \in Nat /\ 0 \in 0 .. Len(s)
  OBVIOUS
<1>2. 0 \in T
  <2>1. Found(s \o t)[0] = Start /\ Found(s)[0] = Start /\ 0 \in 0 .. Len(s)
    BY <1>1, FoundStep, Zenon
  <2> QED
    BY <2>1, Zenon
<1>3. ASSUME NEW n \in 1 .. Len(s), n - 1 \in T
      PROVE  n \in T
  <2>1. (s \o t)[n] = s[n] /\ n \in 1 .. Len(s \o t)
    BY <1>1
  <2>2. Found(s \o t)[n] = Scan(Found(s \o t)[n - 1], (s \o t)[n])
    BY <1>1, <2>1, FoundStep, Zenon
  <2>3. Found(s)[n] = Scan(Found(s)[n - 1], s[n])
    BY FoundStep
  <2>4. Found(s \o t)[n - 1] = Found(s)[n - 1]
    BY <1>3, Zenon
  <2>5. Found(s \o t)[n] = Found(s)[n]
    BY <2>1, <2>2, <2>3, <2>4, Zenon
  <2> QED
    BY <1>1, <2>5
<1>4. T \in SUBSET (0 .. Len(s))
  OBVIOUS
<1>5. \A n \in 0 .. Len(s) : n \in T
  <2> HIDE DEF T
  <2> QED
    BY <1>1, <1>2, <1>3, <1>4, UpTo, Zenon
<1> QED
  BY <1>5

\* What is found of a whole text.
All(t) == Found(t)[Len(t)]

LEMMA AllEmpty == All(<<>>) = Start /\ Start \in Searched
<1>1. <<>> \in Seq(Alphabet) /\ Len(<<>>) = 0
  OBVIOUS
<1>2. Start \in Searched
  BY DEF Start, Searched
<1> QED
  BY <1>1, <1>2, FoundStep, Zenon DEF All

LEMMA AllStep ==
  ASSUME NEW t \in Seq(Alphabet), NEW c \in Alphabet
  PROVE  All(Append(t, c)) = Scan(All(t), c)
<1> DEFINE u == <<c>>
           s == t \o u
           n == Len(t)
           m == Len(s)
<1>1. /\ u \in Seq(Alphabet) /\ s \in Seq(Alphabet) /\ s = Append(t, c)
      /\ n \in Nat /\ n \in 0 .. Len(t)
      /\ m \in Nat /\ m \in 1 .. Len(s) /\ m - 1 = n /\ s[m] = c
  OBVIOUS
<1> HIDE DEF u, s, n, m
<1>4. Found(s)[m] = Scan(Found(s)[m - 1], s[m])
  BY <1>1, FoundStep, Zenon
<1>5. Found(s)[n] = Found(t)[n]
  BY <1>1, FoundFront, Zenon DEF s
<1>6. Found(s)[m] = Scan(Found(t)[n], c)
  BY <1>1, <1>4, <1>5, Zenon
<1> QED
  BY <1>1, <1>6, Zenon DEF All, n, m

LEMMA SuffixAppend ==
  ASSUME NEW s \in Seq(Alphabet), NEW t \in Seq(Alphabet), NEW c \in Alphabet, Ends(s, t)
  PROVE  Ends(Append(s, c), Append(t, c)) /\ Ends(<<>>, Append(t, c))
<1> DEFINE u == Append(s, c)
           v == Append(t, c)
<1>1. Len(s) <= Len(t) /\ \A i \in 1 .. Len(s) : s[i] = t[Len(t) - Len(s) + i]
  BY DEF Ends
<1>2. /\ u \in Seq(Alphabet) /\ Len(u) = Len(s) + 1
      /\ v \in Seq(Alphabet) /\ Len(v) = Len(t) + 1
      /\ <<>> \in Seq(Alphabet) /\ Len(<<>>) = 0
      /\ Len(s) \in Nat /\ Len(t) \in Nat
  OBVIOUS
<1>3. ASSUME NEW i \in 1 .. Len(u)
      PROVE  u[i] = v[Len(v) - Len(u) + i]
  BY <1>1, <1>2
<1> HIDE DEF u, v
<1>4. Ends(u, v) /\ Ends(<<>>, v)
  BY <1>1, <1>2, <1>3 DEF Ends
<1> QED
  BY <1>2, <1>4, Zenon DEF u, v

\* Induction on a sequence of bytes, over a set of them.
LEMMA ByteByByte ==
  ASSUME NEW T \in SUBSET Seq(Alphabet), <<>> \in T,
         \A s \in T : \A c \in Alphabet : Append(s, c) \in T
  PROVE  \A t \in Seq(Alphabet) : t \in T
<1> TAKE t \in Seq(Alphabet)
<1> DEFINE U == {n \in 0 .. Len(t) : Take(t, n) \in T}
<1>1. Len(t) \in Nat /\ Len(t) \in 0 .. Len(t) /\ 0 \in 0 .. Len(t)
  OBVIOUS
<1>2. 0 \in U
  BY <1>1, TakeAll
<1>3. ASSUME NEW n \in 1 .. Len(t), n - 1 \in U
      PROVE  n \in U
  <2>1. Take(t, n) = Append(Take(t, n - 1), t[n]) /\ t[n] \in Alphabet
    BY TakeStep, Zenon
  <2>0. n \in 0 .. Len(t)
    OBVIOUS
  <2>2. Take(t, n - 1) \in T
    BY <1>3, Zenon
  <2>3. Take(t, n) \in T
    BY <2>1, <2>2, Zenon
  <2> QED
    BY <2>0, <2>3, Zenon
<1>4. U \in SUBSET (0 .. Len(t))
  BY Zenon
<1>5. Len(t) \in U
  <2> HIDE DEF U
  <2> QED
    BY <1>1, <1>2, <1>3, <1>4, UpTo, Zenon
<1> QED
  BY <1>5, TakeAll, Zenon

\* What is found of a text: the text behind the last match is the end of it.
LEMMA AllIs ==
  ASSUME NEW t \in Seq(Alphabet)
  PROVE  /\ All(t) \in Searched /\ Ends(All(t).run, t)
         /\ All(t).text \in Seq(Marks) /\ All(t).run \in Seq(Alphabet)
         /\ Len(All(t).run) <= Len(t)
<1> DEFINE Good(s) == All(s) \in Searched /\ Ends(All(s).run, s)
           T == {s \in Seq(Alphabet) : Good(s)}
<1>1. <<>> \in T
  <2>1. <<>> \in Seq(Alphabet) /\ Start.run = <<>> /\ Ends(<<>>, <<>>)
    BY DEF Start, Ends
  <2>2. Ends(<<>>, <<>>)
    BY <2>1, Zenon
  <2> QED
    BY <2>1, <2>2, AllEmpty, Zenon
<1>2. ASSUME NEW s \in T, NEW c \in Alphabet
      PROVE  Append(s, c) \in T
  <2>1. s \in Seq(Alphabet) /\ Append(s, c) \in Seq(Alphabet)
    OBVIOUS
  <2> DEFINE f == All(s)
             run == Append(f.run, c)
             E == PatternsEnding(run)
  <2>2. f \in Searched /\ Ends(f.run, s)
    BY <1>2, Zenon
  <2>3. All(Append(s, c)) = Scan(f, c)
    BY <2>1, AllStep, Zenon
  <2> HIDE DEF f
  <2>4. f.run \in Seq(Alphabet) /\ run \in Seq(Alphabet)
    BY <2>2 DEF Searched
  <2>5. Ends(run, Append(s, c)) /\ Ends(<<>>, Append(s, c))
    BY <2>1, <2>2, <2>4, SuffixAppend, Zenon
  <2>6. /\ Scan(f, c) \in Searched
        /\ Scan(f, c).run = run \/ Scan(f, c).run = <<>>
    <3> HIDE DEF run, E
    <3>1. run = Append(f.run, c) /\ E = PatternsEnding(run)
      BY DEF run, E
    <3> QED
      BY <2>2, <2>4, <3>1, ScanIs, ZenonT(40)
  <2> QED
    BY <2>1, <2>3, <2>5, <2>6, Zenon
<1>3. t \in T
  <2>1. T \in SUBSET Seq(Alphabet)
    BY Zenon
  <2> HIDE DEF T
  <2> QED
    BY <1>1, <1>2, <2>1, ByteByByte, Zenon
<1>4. All(t) \in Searched /\ Ends(All(t).run, t)
  BY <1>3, Zenon
<1>5. All(t).text \in Seq(Marks) /\ All(t).run \in Seq(Alphabet)
  BY <1>4 DEF Searched
<1> QED
  BY <1>4, <1>5, Zenon DEF Ends

LEMMA RedactIs ==
  ASSUME NEW t \in Seq(Alphabet)
  PROVE  Redact(t) = All(t).text \o All(t).run /\ Redact(t) \in Seq(Marks)
<1>1. Redact(t) = All(t).text \o All(t).run
  BY Zenon DEF Redact, All
<1>2. All(t).run \in Seq(Marks)
  BY AllIs DEF Marks
<1> QED
  BY <1>1, <1>2, AllIs

-----------------------------------------------------------------------------
(***************************************************************************)
(* Cutting a text.  Redacting the two parts is redacting the whole, when no  *)
(* match in the text behind the last match crosses the cut.                 *)
(***************************************************************************)
LEMMA ConcatAssoc ==
  ASSUME NEW s \in Seq(Marks), NEW t \in Seq(Marks), NEW u \in Seq(Marks)
  PROVE  (s \o t) \o u = s \o (t \o u)
  OBVIOUS
LEMMA AppendConcat ==
  ASSUME NEW s \in Seq(Alphabet), NEW t \in Seq(Alphabet), NEW c \in Alphabet
  PROVE  Append(s \o t, c) = s \o Append(t, c) /\ Append(t, c) \in Seq(Alphabet)
  OBVIOUS

LEMMA TakeConcat ==
  ASSUME NEW S, NEW s \in Seq(S), NEW t \in Seq(S), NEW n \in 0 .. Len(t)
  PROVE  Take(s \o t, Len(s) + n) = s \o Take(t, n)
  BY DEF Take

\* In one case, the search compares bytes.
LEMMA EndingOneCase ==
  ASSUME OneCase, NEW t \in Seq(Alphabet)
  PROVE  PatternsEnding(t) = {i \in DOMAIN Patterns : Ends(Patterns[i], t)}
<1>1. ASSUME NEW s \in Seq(Alphabet) PROVE Lowered(s) = s
  <2>1. Lowered(s) \in Seq(Alphabet) /\ Len(Lowered(s)) = Len(s)
    BY LoweredIs
  <2>2. \A i \in 1 .. Len(s) : Lowered(s)[i] = s[i]
    BY DEF Lowered, OneCase
  <2> QED
    BY <2>1, <2>2, SeqEqual, Zenon
<1>2. \A i \in DOMAIN Patterns : Lowered(Patterns[i]) = Patterns[i]
  BY <1>1, PatternIs
<1> QED
  BY <1>1, <1>2, Zenon DEF PatternsEnding

\* A pattern ends at the end of v, and begins in r before it.
Crosses(r, v) ==
  \E i \in DOMAIN Patterns : Len(Patterns[i]) > Len(v) /\ Ends(Patterns[i], r \o v)

LEMMA SuffixOfBack ==
  ASSUME NEW p \in Seq(Alphabet), NEW r \in Seq(Alphabet), NEW v \in Seq(Alphabet),
         Len(p) <= Len(v)
  PROVE  Ends(p, r \o v) <=> Ends(p, v)
<1>1. /\ r \o v \in Seq(Alphabet) /\ Len(r \o v) = Len(r) + Len(v)
      /\ Len(r) \in Nat /\ Len(v) \in Nat /\ Len(p) \in Nat
  OBVIOUS
<1>2. ASSUME NEW i \in 1 .. Len(p)
      PROVE  (r \o v)[Len(r \o v) - Len(p) + i] = v[Len(v) - Len(p) + i]
  <2>1. Len(v) - Len(p) + i \in 1 .. Len(v)
    BY <1>1
  <2>2. PICK j \in 1 .. Len(v) : j = Len(v) - Len(p) + i
    BY <2>1, Zenon
  <2>3. Len(r \o v) - Len(p) + i = Len(r) + j
    BY <1>1, <2>2
  <2>4. (r \o v)[Len(r) + j] = v[j]
    OBVIOUS
  <2> QED
    BY <2>2, <2>3, <2>4, Zenon
<1>3. Len(p) <= Len(r \o v)
  BY <1>1
<1>4. Ends(p, r \o v) <=> Ends(p, v)
  BY <1>2, <1>3, Zenon DEF Ends
<1> QED
  BY <1>1, <1>4, Zenon

LEMMA SameEnding ==
  ASSUME OneCase, NEW r \in Seq(Alphabet), NEW v \in Seq(Alphabet), ~Crosses(r, v)
  PROVE  PatternsEnding(r \o v) = PatternsEnding(v)
<1>1. r \o v \in Seq(Alphabet)
  OBVIOUS
<1>2. ASSUME NEW i \in DOMAIN Patterns
      PROVE  Ends(Patterns[i], r \o v) <=> Ends(Patterns[i], v)
  <2>0. Patterns[i] \in Seq(Alphabet) /\ Len(Patterns[i]) \in Nat /\ Len(v) \in Nat
    BY PatternIs
  <2>1. CASE Len(Patterns[i]) <= Len(v)
    BY <2>0, <2>1, SuffixOfBack
  <2>2. CASE Len(Patterns[i]) > Len(v)
    <3>1. ~Ends(Patterns[i], r \o v)
      BY <2>2 DEF Crosses
    <3>2. ~Ends(Patterns[i], v)
      BY <2>0, <2>2 DEF Ends
    <3> QED
      BY <3>1, <3>2
  <2> QED
    BY <2>0, <2>1, <2>2
<1> QED
  BY <1>1, <1>2, EndingOneCase, Zenon

\* One byte more, without a match and with a match of pattern i.
Miss(f, c, run) == Scan(f, c).text = f.text /\ Scan(f, c).run = run
Before(run, i) == Take(run, Len(run) - Len(Patterns[i]))
Hit(f, c, run, i) ==
  /\ Scan(f, c).text = (f.text \o Before(run, i)) \o Replacement(i)
  /\ Scan(f, c).run = <<>>

LEMMA ScanMiss ==
  ASSUME NEW f \in Searched, NEW c \in Alphabet, NEW run \in Seq(Alphabet),
         run = Append(f.run, c), PatternsEnding(run) = {}
  PROVE  Miss(f, c, run)
<1>1. Scan(f, c) = [text |-> f.text, run |-> run]
  BY ScanIs, Zenon
<1> QED
  BY <1>1 DEF Miss

LEMMA ScanHit ==
  ASSUME NEW f \in Searched, NEW c \in Alphabet, NEW run \in Seq(Alphabet),
         run = Append(f.run, c), PatternsEnding(run) # {}
  PROVE  \E i \in DOMAIN Patterns :
           /\ i = Longest(PatternsEnding(run)) /\ Len(Patterns[i]) <= Len(run)
           /\ Hit(f, c, run, i)
<1> DEFINE E == PatternsEnding(run)
<1>1. E # {} /\ E = PatternsEnding(run) /\ E \in SUBSET DOMAIN Patterns
  BY Zenon DEF PatternsEnding
<1>2. PICK i \in DOMAIN Patterns : i = Longest(E) /\ i \in E
  BY <1>1, LongestIs, Zenon
<1>3. Len(Patterns[i]) <= Len(run)
  BY <1>2, EndingIs, Zenon
<1> DEFINE T == (f.text \o Before(run, i)) \o Replacement(i)
<1>4. Scan(f, c) = [text |-> T, run |-> <<>>]
  BY <1>1, <1>2, Zenon DEF Scan, Before
<1> HIDE DEF T
<1>5. Scan(f, c).text = T /\ Scan(f, c).run = <<>>
  BY <1>4
<1>6. Hit(f, c, run, i)
  BY <1>5, Zenon DEF Hit, T
<1> QED
  BY <1>2, <1>3, <1>6, Zenon

LEMMA MarksOf ==
  ASSUME NEW i \in DOMAIN Patterns, NEW run \in Seq(Alphabet), Len(Patterns[i]) <= Len(run)
  PROVE  Before(run, i) \in Seq(Marks) /\ Replacement(i) \in Seq(Marks)
<1>1. Len(run) - Len(Patterns[i]) \in 0 .. Len(run)
  BY PatternIs
<1>2. Before(run, i) \in Seq(Alphabet)
  BY <1>1, TakeIs, Zenon DEF Before
<1>3. Before(run, i) \in Seq(Marks)
  BY <1>2 DEF Marks
<1>4. -i \in Marks
  BY DEF Marks
<1>5. Replacement(i) \in Seq(Marks)
  BY <1>4 DEF Replacement
<1> QED
  BY <1>3, <1>5

\* The text before a match that does not cross the cut.
LEMMA BeforeConcat ==
  ASSUME NEW i \in DOMAIN Patterns, NEW r \in Seq(Alphabet), NEW w \in Seq(Alphabet),
         Len(Patterns[i]) <= Len(w)
  PROVE  Before(r \o w, i) = r \o Before(w, i)
<1>1. /\ Len(Patterns[i]) \in Nat /\ Len(r) \in Nat /\ Len(w) \in Nat
      /\ Len(r \o w) = Len(r) + Len(w)
  BY PatternIs
<1>2. Len(w) - Len(Patterns[i]) \in 0 .. Len(w)
  BY <1>1
<1>3. PICK n \in 0 .. Len(w) : n = Len(w) - Len(Patterns[i])
  BY <1>2, Zenon
<1>4. Len(r \o w) - Len(Patterns[i]) = Len(r) + n
  BY <1>1, <1>3
<1>5. Take(r \o w, Len(r) + n) = r \o Take(w, n)
  BY TakeConcat, Zenon
<1> QED
  BY <1>3, <1>4, <1>5, Zenon DEF Before

\* The search of a text that follows a and the search of the text alone: they
\* found nothing yet, or they found the same.
Apart(A, r, v, f, h) == f.text = <<>> /\ f.run = v /\ h.text = A /\ h.run = r \o v
Alike(B, f, h) == h.text = B \o f.text /\ h.run = f.run
Joined(a, v) ==
  \/ Apart(All(a).text, All(a).run, v, All(v), All(a \o v))
  \/ Alike(All(a).text \o All(a).run, All(v), All(a \o v))

LEMMA JoinedNone ==
  ASSUME NEW a \in Seq(Alphabet)
  PROVE  Joined(a, <<>>)
<1>1. a \o <<>> = a /\ All(a).run \o <<>> = All(a).run
  BY AllIs
<1>2. All(<<>>).text = <<>> /\ All(<<>>).run = <<>>
  BY AllEmpty DEF Start
<1> QED
  BY <1>1, <1>2, Zenon DEF Joined, Apart

\* Nothing was found yet.
LEMMA JoinedFirst ==
  ASSUME OneCase, NEW A \in Seq(Marks), NEW r \in Seq(Alphabet), NEW v \in Seq(Alphabet),
         NEW c \in Alphabet, NEW f \in Searched, NEW h \in Searched,
         Apart(A, r, v, f, h), ~Crosses(r, Append(v, c))
  PROVE  \/ Apart(A, r, Append(v, c), Scan(f, c), Scan(h, c))
         \/ Alike(A \o r, Scan(f, c), Scan(h, c))
<1>0. f.text = <<>> /\ f.run = v /\ h.text = A /\ h.run = r \o v
  BY Zenon DEF Apart
<1> DEFINE w == Append(v, c)
           s == r \o w
<1>1. Append(h.run, c) = s /\ Append(f.run, c) = w /\ w \in Seq(Alphabet) /\ s \in Seq(Alphabet)
  <2>1. Append(r \o v, c) = s /\ w \in Seq(Alphabet)
    BY AppendConcat, Zenon
  <2> HIDE DEF w
  <2>2. s \in Seq(Alphabet)
    BY <2>1
  <2> QED
    BY <1>0, <2>1, <2>2, Zenon DEF w
<1>2. PatternsEnding(s) = PatternsEnding(w)
  BY <1>1, SameEnding, Zenon
<1> HIDE DEF w, s
<1>3. CASE PatternsEnding(w) = {}
  <2>1. Miss(f, c, w) /\ Miss(h, c, s)
    BY <1>1, <1>2, <1>3, ScanMiss, Zenon
  <2> QED
    BY <1>0, <2>1, Zenon DEF Miss, Apart, w, s
<1>4. CASE PatternsEnding(w) # {}
  <2>1. PICK i \in DOMAIN Patterns :
          /\ i = Longest(PatternsEnding(w)) /\ Len(Patterns[i]) <= Len(w)
          /\ Hit(f, c, w, i)
    BY <1>1, <1>4, ScanHit, Zenon
  <2>2. Hit(h, c, s, i)
    <3>1. PICK j \in DOMAIN Patterns :
            /\ j = Longest(PatternsEnding(s)) /\ Len(Patterns[j]) <= Len(s)
            /\ Hit(h, c, s, j)
      BY <1>1, <1>2, <1>4, ScanHit, Zenon
    <3> QED
      BY <1>2, <2>1, <3>1, Zenon
  <2>3. PICK X \in Seq(Marks), Y \in Seq(Marks) : X = Before(w, i) /\ Y = Replacement(i)
    BY <1>1, <2>1, MarksOf, Zenon
  <2>4. Before(s, i) = r \o X
    BY <1>1, <2>1, <2>3, BeforeConcat, ZenonT(40) DEF s
  <2>5. Scan(f, c).text = (<<>> \o X) \o Y /\ Scan(f, c).run = <<>>
    BY <1>0, <2>1, <2>3, Zenon DEF Hit
  <2>6. Scan(h, c).text = (A \o (r \o X)) \o Y /\ Scan(h, c).run = <<>>
    BY <1>0, <2>2, <2>3, <2>4, Zenon DEF Hit
  <2>7. PICK R \in Seq(Marks) : R = r
    <3>1. r \in Seq(Marks)
      BY DEF Marks
    <3> QED
      BY <3>1, Zenon
  <2>8. (A \o (R \o X)) \o Y = (A \o R) \o ((<<>> \o X) \o Y)
    <3>1. A \o (R \o X) = (A \o R) \o X /\ <<>> \o X = X
      OBVIOUS
    <3>2. A \o R \in Seq(Marks)
      OBVIOUS
    <3>3. ((A \o R) \o X) \o Y = (A \o R) \o (X \o Y)
      BY <3>2, ConcatAssoc, ZenonT(40)
    <3> QED
      BY <3>1, <3>3, Zenon
  <2> QED
    BY <2>5, <2>6, <2>7, <2>8, Zenon DEF Alike
<1> QED
  BY <1>3, <1>4, Zenon

\* What was found is the same.
LEMMA JoinedLater ==
  ASSUME NEW B \in Seq(Marks), NEW c \in Alphabet, NEW f \in Searched, NEW h \in Searched,
         Alike(B, f, h)
  PROVE  Alike(B, Scan(f, c), Scan(h, c))
<1>0. /\ f.text \in Seq(Marks) /\ f.run \in Seq(Alphabet)
      /\ h.text = B \o f.text /\ h.run = f.run
  BY DEF Searched, Alike
<1>1. Append(f.run, c) \in Seq(Alphabet)
  BY <1>0
<1>2. PICK run \in Seq(Alphabet) : run = Append(f.run, c)
  BY <1>1, Zenon
<1>3. CASE PatternsEnding(run) = {}
  <2>1. Miss(f, c, run) /\ Miss(h, c, run)
    BY <1>0, <1>2, <1>3, ScanMiss, Zenon
  <2> QED
    BY <1>0, <2>1, Zenon DEF Miss, Alike
<1>4. CASE PatternsEnding(run) # {}
  <2>1. PICK i \in DOMAIN Patterns :
          /\ i = Longest(PatternsEnding(run)) /\ Len(Patterns[i]) <= Len(run)
          /\ Hit(f, c, run, i)
    BY <1>2, <1>4, ScanHit, Zenon
  <2>2. Hit(h, c, run, i)
    BY <1>0, <1>2, <1>4, <2>1, ScanHit, ZenonT(40)
  <2>3. PICK X \in Seq(Marks), Y \in Seq(Marks), F \in Seq(Marks) :
          X = Before(run, i) /\ Y = Replacement(i) /\ F = f.text
    BY <1>0, <2>1, MarksOf, Zenon
  <2>4. Scan(f, c).text = (F \o X) \o Y /\ Scan(f, c).run = <<>>
    BY <2>1, <2>3, Zenon DEF Hit
  <2>5. Scan(h, c).text = ((B \o F) \o X) \o Y /\ Scan(h, c).run = <<>>
    BY <1>0, <2>2, <2>3, Zenon DEF Hit
  <2>6. ((B \o F) \o X) \o Y = B \o ((F \o X) \o Y)
    <3>1. (B \o F) \o X = B \o (F \o X)
      BY ConcatAssoc, ZenonT(40)
    <3>2. F \o X \in Seq(Marks)
      OBVIOUS
    <3>3. PICK G \in Seq(Marks) : G = F \o X
      BY <3>2, Zenon
    <3>4. (B \o G) \o Y = B \o (G \o Y)
      BY ConcatAssoc, ZenonT(40)
    <3> QED
      BY <3>1, <3>3, <3>4, Zenon
  <2> QED
    BY <2>4, <2>5, <2>6, Zenon DEF Alike
<1> QED
  BY <1>3, <1>4, Zenon

LEMMA JoinedStep ==
  ASSUME OneCase, NEW a \in Seq(Alphabet), NEW v \in Seq(Alphabet), NEW c \in Alphabet,
         Joined(a, v), ~Crosses(All(a).run, Append(v, c))
  PROVE  Joined(a, Append(v, c))
<1> DEFINE A == All(a).text
           r == All(a).run
           f == All(v)
           h == All(a \o v)
           w == Append(v, c)
<1>0. A \in Seq(Marks) /\ r \in Seq(Alphabet) /\ a \o v \in Seq(Alphabet)
  BY AllIs
<1>1. a \o w = Append(a \o v, c) /\ w \in Seq(Alphabet)
  BY AppendConcat, Zenon
<1>2. f \in Searched /\ h \in Searched
  BY <1>0, AllIs, Zenon
<1>3. All(w) = Scan(f, c) /\ All(a \o w) = Scan(h, c)
  BY <1>0, <1>1, AllStep, Zenon
<1>4. A \o r \in Seq(Marks)
  <2> HIDE DEF A, r
  <2>1. r \in Seq(Marks)
    BY <1>0 DEF Marks
  <2> QED
    BY <1>0, <2>1
<1> HIDE DEF A, r, f, h, w
<1>5. CASE Apart(A, r, v, f, h)
  <2>1. ~Crosses(r, Append(v, c))
    BY Zenon DEF r
  <2>2. \/ Apart(A, r, Append(v, c), Scan(f, c), Scan(h, c))
        \/ Alike(A \o r, Scan(f, c), Scan(h, c))
    BY <1>0, <1>2, <1>5, <2>1, JoinedFirst, Zenon
  <2> QED
    BY <1>3, <2>2, Zenon DEF Joined, A, r, w
<1>6. CASE Alike(A \o r, f, h)
  <2>1. Alike(A \o r, Scan(f, c), Scan(h, c))
    BY <1>2, <1>4, <1>6, JoinedLater, Zenon
  <2> QED
    BY <1>3, <2>1, Zenon DEF Joined, A, r, w
<1> QED
  BY <1>5, <1>6, Zenon DEF Joined, A, r, f, h

\* Redacting two parts of a text is redacting the text, when no match crosses.
LEMMA RedactParts ==
  ASSUME OneCase, NEW a \in Seq(Alphabet), NEW b \in Seq(Alphabet),
         \A n \in 1 .. Len(b) : ~Crosses(All(a).run, Take(b, n))
  PROVE  Redact(a) \o Redact(b) = Redact(a \o b)
<1> DEFINE T == {n \in 0 .. Len(b) : Joined(a, Take(b, n))}
<1>0. Len(b) \in Nat /\ 0 \in 0 .. Len(b) /\ Len(b) \in 0 .. Len(b) /\ a \o b \in Seq(Alphabet)
  OBVIOUS
<1>1. 0 \in T
  BY <1>0, JoinedNone, TakeAll, Zenon
<1>2. ASSUME NEW n \in 1 .. Len(b), n - 1 \in T
      PROVE  n \in T
  <2>1. n \in 0 .. Len(b) /\ n - 1 \in 0 .. Len(b)
    OBVIOUS
  <2>2. Take(b, n) = Append(Take(b, n - 1), b[n]) /\ b[n] \in Alphabet
    BY TakeStep, Zenon
  <2>3. PICK v \in Seq(Alphabet) : v = Take(b, n - 1)
    BY <2>1, TakeIs
  <2>4. Joined(a, v) /\ ~Crosses(All(a).run, Append(v, b[n]))
    BY <1>2, <2>2, <2>3, Zenon
  <2>5. Joined(a, Append(v, b[n]))
    BY <2>2, <2>4, JoinedStep, Zenon
  <2> QED
    BY <2>1, <2>2, <2>3, <2>5, Zenon
<1>3. Joined(a, b)
  <2>1. T \in SUBSET (0 .. Len(b))
    BY Zenon
  <2>2. Len(b) \in T
    <3> HIDE DEF T
    <3> QED
      BY <1>0, <1>1, <1>2, <2>1, UpTo, Zenon
  <2> QED
    BY <2>2, TakeAll, Zenon
<1> DEFINE A == All(a).text
           r == All(a).run
           B == All(b).text
           q == All(b).run
<1>4. A \in Seq(Marks) /\ B \in Seq(Marks) /\ r \in Seq(Alphabet) /\ q \in Seq(Alphabet)
  BY AllIs, Zenon
<1>5. /\ Redact(a) = A \o r /\ Redact(b) = B \o q
      /\ Redact(a \o b) = All(a \o b).text \o All(a \o b).run
  BY <1>0, RedactIs, Zenon
<1>6. \/ B = <<>> /\ All(a \o b).text = A /\ All(a \o b).run = r \o q
      \/ All(a \o b).text = (A \o r) \o B /\ All(a \o b).run = q
  BY <1>3, Zenon DEF Joined, Apart, Alike
<1> HIDE DEF A, r, B, q
<1>7. r \in Seq(Marks) /\ q \in Seq(Marks)
  BY <1>4 DEF Marks
<1>8. (A \o r) \o q = A \o (r \o q)
  BY <1>4, <1>7, ConcatAssoc, Zenon
<1>9. A \o r \in Seq(Marks)
  BY <1>4, <1>7
<1>10. ((A \o r) \o B) \o q = (A \o r) \o (B \o q)
  BY <1>4, <1>7, <1>9, ConcatAssoc, ZenonT(40)
<1>11. <<>> \o q = q
  BY <1>7
<1> QED
  BY <1>5, <1>6, <1>8, <1>10, <1>11, Zenon

-----------------------------------------------------------------------------
(***************************************************************************)
(* No match crosses a safe boundary.                                       *)
(***************************************************************************)
LEMMA SeparateIs ==
  ASSUME Separate, NEW i \in DOMAIN Patterns, NEW j \in DOMAIN Patterns, NEW n \in Nat,
         0 < n, n < Len(Patterns[i]), n < Len(Patterns[j])
  PROVE  ~Ends(Take(Patterns[i], n), Patterns[j])
<1>1. n \in 1 .. MaxPatternLen - 1
  BY MaxPatternLenIs, PatternIs
<1>2. ~Ends(Take(Patterns[i], n), Patterns[j])
  BY <1>1, Zenon DEF Separate, Begun
<1>3. n \in 0 .. Len(Patterns[i]) /\ Patterns[i] \in Seq(Alphabet) /\ Patterns[j] \in Seq(Alphabet)
  BY PatternIs
<1>4. Take(Patterns[i], n) \in Seq(Alphabet)
  BY <1>3, TakeIs, Zenon
<1> QED
  BY <1>2, <1>3, <1>4, Zenon

\* A crossing pattern: its last bytes are v, and as many as it has more are the
\* last ones of r.
Crossing(r, v, p, k) ==
  /\ k = Len(p) - Len(v) /\ 0 < k /\ k <= Len(r)
  /\ \A j \in 1 .. k : p[j] = r[Len(r) - k + j]
  /\ \A j \in 1 .. Len(v) : p[k + j] = v[j]

LEMMA CrossingIs ==
  ASSUME NEW r \in Seq(Alphabet), NEW v \in Seq(Alphabet), NEW p \in Seq(Alphabet),
         Len(p) > Len(v), Ends(p, r \o v)
  PROVE  \E k \in Nat : Crossing(r, v, p, k)
<1>0. /\ Len(r) \in Nat /\ Len(v) \in Nat /\ Len(p) \in Nat
      /\ r \o v \in Seq(Alphabet) /\ Len(r \o v) = Len(r) + Len(v)
  OBVIOUS
<1>1. Len(p) - Len(v) \in Nat
  BY <1>0
<1>2. PICK k \in Nat : k = Len(p) - Len(v)
  BY <1>1, Zenon
<1>3. Ends(p, r \o v)
  BY <1>0, Zenon
<1>4. Len(p) <= Len(r) + Len(v)
  BY <1>0, <1>3 DEF Ends
<1>5. \A j \in 1 .. Len(p) : p[j] = (r \o v)[Len(r) - k + j]
  <2>1. \A j \in 1 .. Len(p) : p[j] = (r \o v)[Len(r \o v) - Len(p) + j]
    BY <1>3, Zenon DEF Ends
  <2>2. \A j \in 1 .. Len(p) : Len(r \o v) - Len(p) + j = Len(r) - k + j
    BY <1>0, <1>2
  <2> QED
    BY <2>1, <2>2, Zenon
<1>6. ASSUME NEW j \in 1 .. k PROVE p[j] = r[Len(r) - k + j]
  <2>1. j \in 1 .. Len(p) /\ Len(r) - k + j \in 1 .. Len(r)
    BY <1>0, <1>2, <1>4
  <2>2. PICK m \in 1 .. Len(r) : m = Len(r) - k + j
    BY <2>1, Zenon
  <2>3. (r \o v)[m] = r[m]
    OBVIOUS
  <2> QED
    BY <1>5, <2>1, <2>2, <2>3, Zenon
<1>7. ASSUME NEW j \in 1 .. Len(v) PROVE p[k + j] = v[j]
  <2>1. k + j \in 1 .. Len(p) /\ Len(r) - k + (k + j) = Len(r) + j
    BY <1>0, <1>2
  <2>2. (r \o v)[Len(r) + j] = v[j]
    OBVIOUS
  <2> QED
    BY <1>5, <2>1, <2>2, Zenon
<1>8. 0 < k /\ k <= Len(r)
  BY <1>0, <1>2, <1>4
<1> QED
  BY <1>2, <1>6, <1>7, <1>8, Zenon DEF Crossing

LEMMA Shifted ==
  ASSUME NEW k \in Nat, NEW j \in 1 .. k, NEW l \in Nat, NEW c \in Nat, k <= l, l <= c
  PROVE  l - k + j \in 1 .. l /\ c - k + j \in 1 .. c
  OBVIOUS

\* The text is cut behind a pattern.
LEMMA NoneCrossesPattern ==
  ASSUME OneCase, Separate, NEW t \in Seq(Alphabet), t # <<>>,
         NEW q \in DOMAIN Patterns, Ends(Patterns[q], t),
         NEW v \in Seq(Alphabet), v # <<>>
  PROVE  ~Crosses(All(t).run, v)
<1> DEFINE r == All(t).run
           Q == Patterns[q]
<1>0. Q \in Seq(Alphabet) /\ Len(Q) \in Nat /\ r \in Seq(Alphabet) /\ Len(r) \in Nat
  BY PatternIs, AllIs
<1>1. r = <<>> \/ ~Ends(Q, r)
  <2>1. PICK s \in Seq(Alphabet), c \in Alphabet : t = Append(s, c)
    <3>1. Len(t) \in 1 .. Len(t)
      OBVIOUS
    <3>2. t = Append(Take(t, Len(t) - 1), t[Len(t)]) /\ t[Len(t)] \in Alphabet
      BY <3>1, TakeStep, TakeAll, Zenon
    <3>3. Take(t, Len(t) - 1) \in Seq(Alphabet)
      BY <3>1, TakeIs
    <3> QED
      BY <3>2, <3>3, Zenon
  <2> DEFINE f == All(s)
             w == Append(f.run, c)
  <2>2. f \in Searched /\ f.run \in Seq(Alphabet) /\ All(t) = Scan(f, c)
    BY <2>1, AllIs, AllStep, Zenon
  <2> HIDE DEF f
  <2>3. w \in Seq(Alphabet)
    BY <2>2
  <2> HIDE DEF w
  <2>4. CASE PatternsEnding(w) = {}
    <3>1. r = w
      BY <2>2, <2>3, <2>4, ScanMiss, ZenonT(40) DEF Miss, w
    <3>2. q \notin PatternsEnding(w)
      BY <2>4
    <3> QED
      BY <2>3, <3>1, <3>2, EndingOneCase
  <2>5. CASE PatternsEnding(w) # {}
    BY <2>2, <2>3, <2>5, ScanHit, Zenon DEF Hit, w
  <2> QED
    BY <2>4, <2>5
<1>2. SUFFICES ASSUME NEW i \in DOMAIN Patterns, Len(Patterns[i]) > Len(v),
                      Ends(Patterns[i], r \o v)
               PROVE  FALSE
  BY Zenon DEF Crosses
<1> DEFINE p == Patterns[i]
<1>3. p \in Seq(Alphabet) /\ Len(p) \in Nat /\ Len(v) \in Nat /\ Len(v) > 0 /\ Len(t) \in Nat
  BY PatternIs
<1>4. Ends(r, t) /\ Ends(Q, t)
  BY <1>0, AllIs, Zenon
<1>13. Len(p) > Len(v) /\ Ends(p, r \o v)
  BY <1>2, Zenon
<1> HIDE DEF r, Q, p
<1>14. PICK k \in Nat : Crossing(r, v, p, k)
  BY <1>0, <1>3, <1>13, CrossingIs, Zenon
<1>5. /\ k = Len(p) - Len(v) /\ 0 < k /\ k <= Len(r)
      /\ \A j \in 1 .. k : p[j] = r[Len(r) - k + j]
  BY <1>14, Zenon DEF Crossing
<1>6. /\ Len(r) <= Len(t) /\ \A j \in 1 .. Len(r) : r[j] = t[Len(t) - Len(r) + j]
      /\ Len(Q) <= Len(t) /\ \A j \in 1 .. Len(Q) : Q[j] = t[Len(t) - Len(Q) + j]
  BY <1>4, Zenon DEF Ends
<1>7. Len(r) < Len(Q)
  <2>1. SUFFICES ASSUME Len(Q) <= Len(r) PROVE FALSE
    BY <1>0
  <2>2. ASSUME NEW j \in 1 .. Len(Q) PROVE Q[j] = r[Len(r) - Len(Q) + j]
    <3>1. Len(r) - Len(Q) + j \in 1 .. Len(r)
      BY <1>0, <2>1
    <3>2. PICK m \in 1 .. Len(r) : m = Len(r) - Len(Q) + j
      BY <3>1, Zenon
    <3>3. Len(t) - Len(r) + m = Len(t) - Len(Q) + j
      BY <1>0, <1>3, <3>2
    <3> QED
      BY <1>6, <3>2, <3>3, Zenon
  <2>3. Ends(Q, r)
    BY <2>1, <2>2, Zenon DEF Ends
  <2>4. Ends(Q, r)
    BY <1>0, <2>3, Zenon
  <2>5. r # <<>>
    BY <1>0, <1>5
  <2> QED
    BY <1>1, <2>4, <2>5, Zenon DEF r, Q
<1>8. k < Len(p) /\ k < Len(Q) /\ k \in 0 .. Len(p)
  BY <1>0, <1>3, <1>5, <1>7
<1> DEFINE b == Take(p, k)
<1>9. b \in Seq(Alphabet) /\ Len(b) = k /\ \A j \in 1 .. k : b[j] = p[j]
  BY <1>3, <1>8, TakeIs, Zenon
<1>10. ~Ends(b, Q)
  BY <1>5, <1>8, SeparateIs, Zenon DEF p, Q
<1> HIDE DEF b
<1>11. ASSUME NEW j \in 1 .. k PROVE b[j] = Q[Len(Q) - k + j]
  <2>1. Len(r) - k + j \in 1 .. Len(r) /\ Len(Q) - k + j \in 1 .. Len(Q)
    BY <1>0, <1>5, <1>7
  <2>2. PICK m \in 1 .. Len(r), n \in 1 .. Len(Q) : m = Len(r) - k + j /\ n = Len(Q) - k + j
    BY <2>1, Zenon
  <2>3. Len(t) - Len(r) + m = Len(t) - Len(Q) + n
    BY <1>0, <1>3, <2>2
  <2>4. r[m] = Q[n]
    BY <1>6, <2>3, Zenon
  <2> QED
    BY <1>5, <1>9, <2>2, <2>4, Zenon
<1>12. Ends(b, Q)
  <2>1. k <= Len(Q)
    BY <1>0, <1>8
  <2> QED
    BY <1>9, <1>11, <2>1, Zenon DEF Ends
<1> QED
  BY <1>10, <1>12

\* The text is cut before the longest beginning of a pattern that it ends with.
LEMMA NoneCrossesBeginning ==
  ASSUME Separate, NEW t \in Seq(Alphabet), NEW g \in Seq(Alphabet),
         NEW m \in Nat, m = Retain(t), NEW c \in 0 .. Len(t), c = Len(t) - m,
         NEW n \in Nat, n > 0, n <= m + Len(g)
  PROVE  ~Crosses(All(Take(t, c)).run, Take(Drop(t, c) \o g, n))
<1> DEFINE a == Take(t, c)
           d == Drop(t, c)
           b == d \o g
           v == Take(b, n)
           r == All(a).run
<1>1. SUFFICES ASSUME NEW i \in DOMAIN Patterns, Len(Patterns[i]) > Len(v),
                      Ends(Patterns[i], r \o v)
               PROVE  FALSE
  BY Zenon DEF Crosses
<1> DEFINE p == Patterns[i]
<1>2. p \in Seq(Alphabet) /\ Len(p) \in Nat /\ Len(t) \in Nat /\ Len(g) \in Nat
  BY PatternIs
<1>3. Len(p) > Len(v) /\ Ends(p, r \o v)
  BY <1>1, Zenon
<1>4. /\ a \in Seq(Alphabet) /\ Len(a) = c /\ \A j \in 1 .. c : a[j] = t[j]
      /\ d \in Seq(Alphabet) /\ Len(d) = m /\ \A j \in 1 .. m : d[j] = t[c + j]
  <2>1. Len(t) - c = m
    BY <1>2
  <2>2. a \in Seq(Alphabet) /\ Len(a) = c /\ \A j \in 1 .. c : a[j] = t[j]
    BY TakeIs, Zenon
  <2>3. /\ d \in Seq(Alphabet) /\ Len(d) = Len(t) - c
        /\ \A j \in 1 .. Len(t) - c : d[j] = t[c + j]
    BY DropIs, ZenonT(40)
  <2> HIDE DEF a, d
  <2> QED
    BY <2>1, <2>2, <2>3, Zenon
<1> HIDE DEF a, d
<1>5. b \in Seq(Alphabet) /\ Len(b) = m + Len(g) /\ n \in 0 .. Len(b)
  <2>0. d \in Seq(Alphabet)
    BY <1>4, Zenon
  <2>1. b \in Seq(Alphabet) /\ Len(b) = Len(d) + Len(g)
    BY <2>0
  <2> HIDE DEF b
  <2> QED
    BY <1>2, <1>4, <2>1
<1>6. \A j \in 1 .. m : b[j] = d[j]
  BY <1>4
<1> HIDE DEF b
<1>7. v \in Seq(Alphabet) /\ Len(v) = n /\ \A j \in 1 .. n : v[j] = b[j]
  BY <1>5, TakeIs, Zenon
<1> HIDE DEF v
<1>8. r \in Seq(Alphabet) /\ Len(r) \in Nat /\ Ends(r, a)
  BY <1>4, AllIs
<1> HIDE DEF r, p
<1>14. PICK k \in Nat : Crossing(r, v, p, k)
  BY <1>2, <1>3, <1>7, <1>8, CrossingIs, Zenon
<1>9. /\ k = Len(p) - n /\ 0 < k /\ k <= Len(r)
      /\ \A j \in 1 .. k : p[j] = r[Len(r) - k + j]
      /\ \A j \in 1 .. n : p[k + j] = v[j]
  BY <1>7, <1>14, Zenon DEF Crossing
<1>10. Len(r) <= c /\ \A j \in 1 .. Len(r) : r[j] = a[c - Len(r) + j]
  BY <1>4, <1>8, Zenon DEF Ends
\* The bytes of p before the cut are the last ones before the cut.
<1>11. ASSUME NEW j \in 1 .. k PROVE p[j] = t[c - k + j]
  <2>0. k <= Len(r) /\ Len(r) <= c /\ Len(r) \in Nat /\ Len(t) \in Nat
    BY <1>2, <1>8, <1>9, <1>10, Zenon
  <2>1. Len(r) - k + j \in 1 .. Len(r) /\ c - k + j \in 1 .. c
    <3>1. c \in Nat
      BY <2>0
    <3> QED
      BY <2>0, <3>1, Shifted, Zenon
  <2>2. PICK x \in 1 .. Len(r), y \in 1 .. c : x = Len(r) - k + j /\ y = c - k + j
    BY <2>1, Zenon
  <2>3. c - Len(r) + x = y
    BY <1>2, <1>8, <2>2
  <2>4. p[j] = r[x]
    BY <1>9, <2>2, Zenon
  <2>5. r[x] = a[y]
    BY <1>10, <2>3, Zenon
  <2>6. a[y] = t[y]
    BY <1>4, Zenon
  <2> QED
    BY <2>2, <2>4, <2>5, <2>6, Zenon
\* The bytes of p behind the cut, as far as the text goes.
<1>15. ASSUME NEW j \in 1 .. m, j \in 1 .. n PROVE p[k + j] = t[c + j]
  <2>1. p[k + j] = v[j]
    BY <1>9, <1>15, Zenon
  <2>2. v[j] = b[j]
    BY <1>7, <1>15, Zenon
  <2>3. b[j] = d[j]
    BY <1>6, Zenon
  <2>4. d[j] = t[c + j]
    BY <1>4, Zenon
  <2> QED
    BY <2>1, <2>2, <2>3, <2>4, Zenon
<1>12. CASE n <= m
  <2>1. PICK q \in DOMAIN Patterns : Begun(t, m, q)
    BY <1>12, RetainIs
  <2> DEFINE Q == Patterns[q]
             e == Take(Q, m)
             z == Take(Q, n)
  <2>2. Q \in Seq(Alphabet) /\ Len(Q) \in Nat
    BY PatternIs
  <2>3. m < Len(Q) /\ Ends(e, t)
    BY <2>1, Zenon DEF Begun
  <2> HIDE DEF Q
  <2>4. m \in 0 .. Len(Q) /\ n \in 0 .. Len(Q) /\ n < Len(Q)
    BY <1>12, <2>2, <2>3
  <2>5. /\ e \in Seq(Alphabet) /\ Len(e) = m /\ \A j \in 1 .. m : e[j] = Q[j]
        /\ z \in Seq(Alphabet) /\ Len(z) = n /\ \A j \in 1 .. n : z[j] = Q[j]
    BY <2>2, <2>4, TakeIs, Zenon
  <2>6. n < Len(p)
    BY <1>3, <1>7
  <2>7. ~Ends(z, p)
    BY <2>4, <2>6, SeparateIs, Zenon DEF Q, p
  <2> HIDE DEF e, z
  <2>8. Ends(e, t)
    BY <2>3, <2>5, Zenon
  <2>9. \A j \in 1 .. m : e[j] = t[Len(t) - m + j]
    BY <2>5, <2>8, Zenon DEF Ends
  <2>10. ASSUME NEW j \in 1 .. n PROVE z[j] = p[Len(p) - n + j]
    <3>1. j \in 1 .. m /\ Len(p) - n + j = k + j
      BY <1>2, <1>7, <1>9, <1>12
    <3>2. p[k + j] = t[c + j]
      BY <1>15, <3>1, Zenon
    <3> QED
      BY <2>5, <2>9, <3>1, <3>2, Zenon
  <2>11. Ends(z, p)
    <3>1. n <= Len(p)
      BY <1>2, <2>6
    <3> QED
      BY <2>5, <2>10, <3>1, Zenon DEF Ends
  <2> QED
    BY <2>7, <2>11
<1>13. CASE n > m
  <2>1. k + m \in Nat /\ k + m > m /\ k + m < Len(p) /\ k + m \in 0 .. Len(p) /\ k + m <= Len(t)
    BY <1>2, <1>7, <1>8, <1>9, <1>10, <1>13
  <2>2. PICK x \in Nat : x = k + m
    BY <2>1, Zenon
  <2> DEFINE z == Take(p, x)
  <2>3. z \in Seq(Alphabet) /\ Len(z) = x /\ \A j \in 1 .. x : z[j] = p[j]
    BY <1>2, <2>1, <2>2, TakeIs, Zenon
  <2> HIDE DEF z
  <2>4. ASSUME NEW j \in 1 .. x PROVE z[j] = t[Len(t) - x + j]
    <3>0. Len(t) - x + j = c - k + j
      BY <1>2, <2>2
    <3>1. CASE j <= k
      <4>1. j \in 1 .. k
        BY <3>1
      <4> QED
        BY <1>11, <2>3, <3>0, <4>1, Zenon
    <3>2. CASE j > k
      <4>1. j - k \in 1 .. m /\ j - k \in 1 .. n
        BY <1>13, <2>2, <3>2
      <4>2. PICK y \in 1 .. m : y = j - k /\ y \in 1 .. n
        BY <4>1, Zenon
      <4>3. j = k + y /\ c - k + j = c + y
        BY <4>2
      <4>4. p[k + y] = t[c + y]
        BY <1>15, <4>2, Zenon
      <4> QED
        BY <2>3, <3>0, <4>3, <4>4, Zenon
    <3> QED
      BY <3>1, <3>2
  <2>5. Ends(z, t)
    <3>1. x <= Len(t)
      BY <2>1, <2>2
    <3> QED
      BY <2>3, <2>4, <3>1, Zenon DEF Ends
  <2>6. Ends(z, t)
    BY <2>3, <2>5, Zenon
  <2>7. Begun(t, x, i)
    BY <2>1, <2>2, <2>6, Zenon DEF Begun, z, p
  <2>8. x \in Nat \ {0} /\ x > m
    BY <2>1, <2>2
  <2>9. x <= m
    BY <2>7, <2>8, RetainIs, Zenon
  <2> QED
    BY <2>8, <2>9
<1> QED
  BY <1>12, <1>13

LEMMA ByteAssoc ==
  ASSUME NEW s \in Seq(Alphabet), NEW t \in Seq(Alphabet), NEW u \in Seq(Alphabet)
  PROVE  (s \o t) \o u = s \o (t \o u)
  OBVIOUS

LEMMA ByteConcat ==
  ASSUME NEW s \in Seq(Alphabet), NEW t \in Seq(Alphabet)
  PROVE  s \o t \in Seq(Alphabet) /\ Len(s \o t) = Len(s) + Len(t)
  OBVIOUS

\* What is released of a text and what becomes of the rest, whatever follows, is
\* what becomes of the text.
LEMMA CutIs ==
  ASSUME OneCase, Separate, NEW t \in Seq(Alphabet), NEW g \in Seq(Alphabet)
  PROVE  Redact(Take(t, SafeBoundary(t))) \o Redact(Drop(t, SafeBoundary(t)) \o g)
           = Redact(t \o g)
<1>0. PICK c \in 0 .. Len(t) : c = SafeBoundary(t)
  BY BoundaryIs, Zenon
<1> DEFINE a == Take(t, c)
           d == Drop(t, c)
           b == d \o g
<1>1. a \in Seq(Alphabet) /\ d \in Seq(Alphabet) /\ a \o d = t /\ Len(d) = Len(t) - c
  BY TakeIs, DropIs, TakeDrop, Zenon
<1>2. b \in Seq(Alphabet) /\ Len(b) = Len(d) + Len(g)
  BY <1>1, ByteConcat, Zenon
<1>3. a \o b = t \o g
  <2>1. (a \o d) \o g = a \o (d \o g)
    BY <1>1, ByteAssoc, ZenonT(40)
  <2> QED
    BY <1>1, <2>1, Zenon
<1>4. ASSUME NEW n \in 1 .. Len(b)
      PROVE  ~Crosses(All(a).run, Take(b, n))
  <2>0. n \in Nat /\ n > 0 /\ n \in 0 .. Len(b) /\ n <= Len(b)
    OBVIOUS
  <2>1. PICK v \in Seq(Alphabet) : v = Take(b, n) /\ Len(v) = n
    BY <1>2, <2>0, TakeIs, Zenon
  <2>2. v # <<>>
    BY <2>0, <2>1
  <2>3. CASE c = 0
    <3>1. All(a).run = <<>>
      BY <2>3, TakeAll, AllEmpty DEF Start
    <3>2. <<>> \o v = v
      OBVIOUS
    <3>3. ASSUME NEW i \in DOMAIN Patterns, Len(Patterns[i]) > Len(v), Ends(Patterns[i], v)
          PROVE  FALSE
      <4>1. Len(Patterns[i]) <= Len(v) /\ Len(Patterns[i]) \in Nat /\ Len(v) \in Nat
        BY <3>3, PatternIs DEF Ends
      <4> QED
        BY <3>3, <4>1
    <3> QED
      BY <2>1, <3>1, <3>2, <3>3, Zenon DEF Crosses
  <2>4. CASE c = Len(t) /\ t # <<>> /\ \E i \in DOMAIN Patterns : Ends(Patterns[i], t)
    <3>1. a = t
      BY <2>4, TakeAll, Zenon
    <3> QED
      BY <2>1, <2>2, <2>4, <3>1, NoneCrossesPattern, Zenon
  <2>5. CASE c = Len(t) - Retain(t)
    <3>1. Len(t) \in Nat /\ Len(g) \in Nat /\ Retain(t) \in Nat
      BY RetainIs
    <3>2. PICK m \in Nat : m = Retain(t)
      BY <3>1, Zenon
    <3>3. Len(d) = m /\ c = Len(t) - m
      BY <1>1, <2>5, <3>1, <3>2
    <3>4. n <= m + Len(g)
      BY <1>2, <2>0, <3>3
    <3> QED
      BY <2>0, <3>2, <3>3, <3>4, NoneCrossesBeginning, Zenon
  <2> QED
    BY <1>0, <2>3, <2>4, <2>5, BoundaryIs, Zenon
<1>5. Redact(a) \o Redact(b) = Redact(a \o b)
  <2> HIDE DEF a, b
  <2> QED
    BY <1>1, <1>2, <1>4, RedactParts, Zenon
<1> QED
  BY <1>0, <1>3, <1>5, Zenon

-----------------------------------------------------------------------------
(***************************************************************************)
(* UTF-8.                                                                  *)
(***************************************************************************)
\* Character by character: a text behind whole characters.
LEMMA WellFormedParts ==
  ASSUME NEW a \in Seq(Alphabet), NEW b \in Seq(Alphabet), WellFormed(a)
  PROVE  WellFormed(a \o b) <=> WellFormed(b)
<1> DEFINE s == a \o b
<1>0. /\ Len(a) \in Nat /\ Len(b) \in Nat /\ Len(s) = Len(a) + Len(b)
      /\ \A i \in 1 .. Len(a) : s[i] = a[i]
      /\ \A i \in 1 .. Len(b) : s[Len(a) + i] = b[i]
  OBVIOUS
<1>1. ASSUME NEW i \in 1 .. Len(a)
      PROVE  /\ a[i] = Lead => i < Len(a) /\ a[i + 1] = Cont
             /\ a[i] = Cont => i > 1 /\ a[i - 1] = Lead
  BY Zenon DEF WellFormed
<1> HIDE DEF s
<1>2. ASSUME WellFormed(s), NEW i \in 1 .. Len(b)
      PROVE  /\ b[i] = Lead => i < Len(b) /\ b[i + 1] = Cont
             /\ b[i] = Cont => i > 1 /\ b[i - 1] = Lead
  <2>1. PICK j \in 1 .. Len(s) : j = Len(a) + i
    BY <1>0
  <2>2. s[j] = b[i]
    BY <1>0, <2>1, Zenon
  <2>3. /\ s[j] = Lead => j < Len(s) /\ s[j + 1] = Cont
        /\ s[j] = Cont => j > 1 /\ s[j - 1] = Lead
    BY <1>2, Zenon DEF WellFormed
  <2>4. b[i] = Lead => i < Len(b) /\ b[i + 1] = Cont
    <3>1. SUFFICES ASSUME b[i] = Lead PROVE i < Len(b) /\ b[i + 1] = Cont
      OBVIOUS
    <3>2. j < Len(s) /\ s[j + 1] = Cont
      BY <2>2, <2>3, <3>1, Zenon
    <3>3. i < Len(b) /\ i + 1 \in 1 .. Len(b) /\ j + 1 = Len(a) + (i + 1)
      BY <1>0, <2>1, <3>2
    <3> QED
      BY <1>0, <3>2, <3>3
  <2>5. b[i] = Cont => i > 1 /\ b[i - 1] = Lead
    <3>1. SUFFICES ASSUME b[i] = Cont PROVE i > 1 /\ b[i - 1] = Lead
      OBVIOUS
    <3>2. j > 1 /\ s[j - 1] = Lead
      BY <2>2, <2>3, <3>1, Zenon
    <3>3. CASE i = 1
      <4>1. Len(a) \in 1 .. Len(a) /\ j - 1 = Len(a)
        BY <1>0, <2>1, <3>2, <3>3
      <4>2. a[Len(a)] = Lead
        BY <1>0, <3>2, <4>1, Zenon
      <4>3. Len(a) < Len(a)
        BY <1>1, <4>1, <4>2, Zenon
      <4> QED
        BY <1>0, <4>3
    <3>4. CASE i # 1
      <4>1. i > 1 /\ i - 1 \in 1 .. Len(b) /\ j - 1 = Len(a) + (i - 1)
        BY <1>0, <2>1, <3>4
      <4> QED
        BY <1>0, <3>2, <4>1
    <3> QED
      BY <3>3, <3>4
  <2> QED
    BY <2>4, <2>5
<1>3. ASSUME WellFormed(b), NEW j \in 1 .. Len(s)
      PROVE  /\ s[j] = Lead => j < Len(s) /\ s[j + 1] = Cont
             /\ s[j] = Cont => j > 1 /\ s[j - 1] = Lead
  <2>1. CASE j \in 1 .. Len(a)
    <3>1. s[j] = a[j] /\ j <= Len(s)
      BY <1>0, <2>1
    <3>0. /\ a[j] = Lead => j < Len(a) /\ a[j + 1] = Cont
          /\ a[j] = Cont => j > 1 /\ a[j - 1] = Lead
      BY <1>1, <2>1, Zenon
    <3>2. a[j] = Lead => j < Len(s) /\ s[j + 1] = Cont
      BY <1>0, <2>1, <3>0
    <3>3. a[j] = Cont => j > 1 /\ s[j - 1] = Lead
      BY <1>0, <2>1, <3>0
    <3> QED
      BY <3>1, <3>2, <3>3, Zenon
  <2>2. CASE j \notin 1 .. Len(a)
    <3>1. PICK i \in 1 .. Len(b) : i = j - Len(a)
      <4>1. j - Len(a) \in 1 .. Len(b)
        BY <1>0, <2>2
      <4> QED
        BY <4>1, Zenon
    <3>2. j = Len(a) + i
      BY <1>0, <3>1
    <3>3. /\ b[i] = Lead => i < Len(b) /\ b[i + 1] = Cont
          /\ b[i] = Cont => i > 1 /\ b[i - 1] = Lead
      BY <1>3, Zenon DEF WellFormed
    <3>4. s[j] = b[i]
      BY <1>0, <3>2, Zenon
    <3>5. b[i] = Lead => j < Len(s) /\ s[j + 1] = Cont
      BY <1>0, <3>2, <3>3
    <3>6. b[i] = Cont => j > 1 /\ s[j - 1] = Lead
      BY <1>0, <3>2, <3>3
    <3> QED
      BY <3>4, <3>5, <3>6, Zenon
  <2> QED
    BY <2>1, <2>2
<1> QED
  BY <1>2, <1>3, Zenon DEF WellFormed, s

\* Behind whole characters, a text breaks off where the rest does.
LEMMA IncompleteParts ==
  ASSUME NEW a \in Seq(Alphabet), NEW b \in Seq(Alphabet), WellFormed(a)
  PROVE  Incomplete(a \o b) <=> Incomplete(b)
<1> DEFINE s == a \o b
<1>0. s \in Seq(Alphabet) /\ Len(s) = Len(a) + Len(b) /\ Len(a) \in Nat /\ Len(b) \in Nat
  OBVIOUS
<1>1. CASE b = <<>>
  <2>1. s = a
    BY <1>1
  <2>2. ~Incomplete(b)
    BY <1>1, Zenon DEF Incomplete
  <2>3. ASSUME a # <<>>, a[Len(a)] = Lead
        PROVE  FALSE
    <3>1. Len(a) \in 1 .. Len(a)
      BY <2>3
    <3>2. Len(a) < Len(a)
      BY <2>3, <3>1, Zenon DEF WellFormed
    <3> QED
      BY <1>0, <3>2
  <2> QED
    BY <2>1, <2>2, <2>3, Zenon DEF Incomplete
<1>2. CASE b # <<>>
  <2>1. Len(b) > 0 /\ Len(b) - 1 \in 0 .. Len(b)
    BY <1>2
  <2>2. PICK n \in 0 .. Len(b) : n = Len(b) - 1
    BY <2>1, Zenon
  <2>3. s # <<>> /\ s[Len(s)] = b[Len(b)] /\ Len(s) - 1 = Len(a) + n
    BY <1>0, <2>1, <2>2
  <2>4. PICK d \in Seq(Alphabet) : d = Take(b, n)
    BY TakeIs, Zenon
  <2>5. Take(s, Len(a) + n) = a \o d
    BY <2>4, TakeConcat, Zenon
  <2>6. WellFormed(a \o d) <=> WellFormed(d)
    BY WellFormedParts, Zenon
  <2> HIDE DEF s
  <2> QED
    BY <1>2, <2>2, <2>3, <2>4, <2>5, <2>6, Zenon DEF Incomplete, s
<1> QED
  BY <1>1, <1>2

\* A text cut between two characters.
LEMMA CutWellFormed ==
  ASSUME NEW t \in Seq(Alphabet), WellFormed(t), NEW k \in 0 .. Len(t), CharBoundary(t, k)
  PROVE  WellFormed(Take(t, k))
<1>1. PICK a \in Seq(Alphabet) : a = Take(t, k) /\ Len(a) = k /\ \A i \in 1 .. k : a[i] = t[i]
  BY TakeIs, ZenonT(40)
<1>2. ASSUME NEW i \in 1 .. k
      PROVE  /\ a[i] = Lead => i < k /\ a[i + 1] = Cont
             /\ a[i] = Cont => i > 1 /\ a[i - 1] = Lead
  <2>0. i \in 1 .. Len(t)
    OBVIOUS
  <2>1. a[i] = t[i]
    BY <1>1, Zenon
  <2>2. /\ t[i] = Lead => i < Len(t) /\ t[i + 1] = Cont
        /\ t[i] = Cont => i > 1 /\ t[i - 1] = Lead
    BY <2>0, Zenon DEF WellFormed
  <2>3. ASSUME t[i] = Lead
        PROVE  i < k /\ a[i + 1] = Cont
    <3>1. i < Len(t) /\ t[i + 1] = Cont
      BY <2>2, <2>3, Zenon
    <3>2. i # k
      BY <3>1 DEF CharBoundary
    <3>3. i < k /\ i + 1 \in 1 .. k
      BY <3>2
    <3> QED
      BY <1>1, <3>1, <3>3
  <2>4. ASSUME t[i] = Cont
        PROVE  i > 1 /\ a[i - 1] = Lead
    <3>1. i > 1 /\ t[i - 1] = Lead
      BY <2>2, <2>4, Zenon
    <3>2. i - 1 \in 1 .. k
      BY <3>1
    <3> QED
      BY <1>1, <3>1, <3>2
  <2> QED
    BY <2>1, <2>3, <2>4, Zenon
<1> QED
  BY <1>1, <1>2, Zenon DEF WellFormed

\* What from_utf8 says of a source.
LEMMA ValidIs ==
  ASSUME NEW s \in Seq(Alphabet)
  PROVE  \/ /\ ValidLen(s) = Len(s) /\ ValidLen(s) # Invalid
            /\ WellFormed(s)
         \/ /\ ValidLen(s) = Len(s) - 1 /\ ValidLen(s) # Invalid /\ Len(s) > 0
            /\ Incomplete(s)
         \/ ValidLen(s) = Invalid /\ ~WellFormed(s) /\ ~Incomplete(s)
<1>0. Len(s) \in Nat /\ (s # <<>> => Len(s) > 0)
  OBVIOUS
<1>1. ASSUME Incomplete(s)
      PROVE  ~WellFormed(s) /\ Len(s) > 0
  <2>1. s # <<>> /\ s[Len(s)] = Lead
    BY <1>1, Zenon DEF Incomplete
  <2>2. Len(s) > 0 /\ Len(s) \in 1 .. Len(s)
    BY <1>0, <2>1
  <2>3. WellFormed(s) => Len(s) < Len(s)
    BY <2>1, <2>2, Zenon DEF WellFormed
  <2> QED
    BY <1>0, <2>2, <2>3
<1>2. CASE WellFormed(s)
  <2>0. ~Incomplete(s)
    BY <1>1, <1>2, Zenon
  <2>1. ValidLen(s) = Len(s)
    BY <1>2, <2>0, Zenon DEF ValidLen
  <2>2. Len(s) # Invalid
    BY <1>0 DEF Invalid
  <2> QED
    BY <1>2, <2>1, <2>2, Zenon
<1>3. CASE ~WellFormed(s) /\ Incomplete(s)
  <2>1. ValidLen(s) = Len(s) - 1
    BY <1>3, Zenon DEF ValidLen
  <2>2. Len(s) - 1 # Invalid /\ Len(s) > 0
    BY <1>0, <1>1, <1>3 DEF Invalid
  <2> QED
    BY <1>3, <2>1, <2>2, Zenon
<1>4. CASE ~WellFormed(s) /\ ~Incomplete(s)
  BY <1>4, Zenon DEF ValidLen
<1> QED
  BY <1>2, <1>3, <1>4, Zenon

-----------------------------------------------------------------------------
(***************************************************************************)
(* One call of push.                                                       *)
(***************************************************************************)
\* The same with the bytes of an unfinished character between the two.
LEMMA CutAndMore ==
  ASSUME OneCase, Separate,
         NEW t \in Seq(Alphabet), NEW z \in Seq(Alphabet), NEW g \in Seq(Alphabet)
  PROVE  Redact(Take(t, SafeBoundary(t))) \o Redact((Drop(t, SafeBoundary(t)) \o z) \o g)
           = Redact((t \o z) \o g)
<1>1. PICK d \in Seq(Alphabet) : d = Drop(t, SafeBoundary(t))
  BY BoundaryIs, DropIs, Zenon
<1>2. z \o g \in Seq(Alphabet)
  OBVIOUS
<1>3. Redact(Take(t, SafeBoundary(t))) \o Redact(d \o (z \o g)) = Redact(t \o (z \o g))
  BY <1>1, <1>2, CutIs, Zenon
<1>4. (d \o z) \o g = d \o (z \o g)
  BY ByteAssoc, Zenon
<1>5. (t \o z) \o g = t \o (z \o g)
  BY ByteAssoc, ZenonT(40)
<1> QED
  BY <1>1, <1>3, <1>4, <1>5, Zenon

\* How a source that is no error is split: `safe` bytes are released.
Split(s, safe) ==
  /\ safe \in 0 .. Len(s)
  /\ WellFormed(Take(s, safe))
  /\ WellFormed(Drop(s, safe)) \/ Incomplete(Drop(s, safe))
  /\ Len(s) - safe <= MaxPatternLen + 1
  /\ OneCase /\ Separate =>
       \A g \in Seq(Alphabet) :
         Redact(Take(s, safe)) \o Redact(Drop(s, safe) \o g) = Redact(s \o g)

\* Only whole characters are released, the rest breaks off in its last character
\* at most and is short, and releasing a part changes nothing.
LEMMA SplitIs ==
  ASSUME NEW s \in Seq(Alphabet), ValidLen(s) # Invalid
  PROVE  Split(s, SafeBoundary(Take(s, ValidLen(s))))
<1>0. PICK valid \in 0 .. Len(s) : valid = ValidLen(s) /\ Len(s) - valid <= 1
  <2>1. ValidLen(s) \in 0 .. Len(s) /\ Len(s) - ValidLen(s) <= 1
    BY ValidIs
  <2> QED
    BY <2>1, Zenon
<1>1. WellFormed(s) \/ Incomplete(s)
  BY ValidIs, Zenon
<1>2. PICK t \in Seq(Alphabet) : t = Take(s, valid) /\ Len(t) = valid
  BY TakeIs, Zenon
<1>3. WellFormed(t)
  <2>1. CASE valid = Len(s) /\ WellFormed(s)
    BY <1>2, <2>1, TakeAll, Zenon
  <2>2. CASE valid = Len(s) - 1 /\ Incomplete(s)
    BY <1>2, <2>2, Zenon DEF Incomplete
  <2> QED
    BY <1>0, <2>1, <2>2, ValidIs, Zenon
<1>4. PICK z \in Seq(Alphabet) : z = Drop(s, valid) /\ t \o z = s
  BY <1>2, DropIs, TakeDrop, Zenon
<1>5. PICK c \in 0 .. Len(t) : /\ c = SafeBoundary(t) /\ CharBoundary(t, c)
                               /\ Len(t) - c <= MaxPatternLen
  BY BoundaryIs, Zenon
<1>6. PICK a \in Seq(Alphabet) : a = Take(t, c) /\ Len(a) = c
  BY TakeIs, Zenon
<1>7. PICK d \in Seq(Alphabet) : d = Drop(t, c) /\ a \o d = t
  BY <1>6, DropIs, TakeDrop, Zenon
<1>8. c \in 0 .. Len(s) /\ Len(s) - c <= MaxPatternLen + 1 /\ Len(s) \in Nat
  BY <1>0, <1>2, <1>5, MaxPatternLenIs
<1>9. a \o (d \o z) = s /\ d \o z \in Seq(Alphabet)
  <2>1. (a \o d) \o z = a \o (d \o z)
    BY ByteAssoc, ZenonT(40)
  <2> QED
    BY <1>4, <1>7, <2>1, ByteConcat, Zenon
<1>10. Take(s, c) = a /\ Drop(s, c) = d \o z
  <2>1. PICK e \in Seq(Alphabet) : e = d \o z
    BY <1>9, Zenon
  <2>2. SubSeq(a \o e, 1, Len(a)) = a /\ SubSeq(a \o e, Len(a) + 1, Len(a \o e)) = e
    OBVIOUS
  <2> QED
    BY <1>6, <1>9, <2>1, <2>2, Zenon DEF Take, Drop
<1>11. WellFormed(a)
  BY <1>3, <1>5, <1>6, CutWellFormed, Zenon
<1>12. WellFormed(d \o z) \/ Incomplete(d \o z)
  BY <1>1, <1>9, <1>11, WellFormedParts, IncompleteParts, Zenon
<1>13. ASSUME OneCase, Separate, NEW g \in Seq(Alphabet)
       PROVE  Redact(a) \o Redact((d \o z) \o g) = Redact(s \o g)
  <2>1. Redact(Take(t, c)) \o Redact((Drop(t, c) \o z) \o g) = Redact((t \o z) \o g)
    BY <1>5, <1>13, CutAndMore, ZenonT(40)
  <2> QED
    BY <1>4, <1>6, <1>7, <2>1, Zenon
<1>14. Split(s, c)
  BY <1>8, <1>10, <1>11, <1>12, <1>13, Zenon DEF Split
<1> QED
  BY <1>0, <1>2, <1>5, <1>14, Zenon

\* What a call of push does.
LEMMA PushIs ==
  ASSUME TypeOK, NEW chunk \in Seq(Alphabet), Push(chunk)
  PROVE  \E source \in Seq(Alphabet) :
           /\ source = pending \o chunk
           /\ status = "open" /\ fed' = fed \o chunk /\ capacity' = capacity
           /\ \/ /\ ~WellFormed(source) /\ ~Incomplete(source)
                 /\ status' = "invalid_utf8" /\ pending' = <<>> /\ out' = out
              \/ \E safe \in 0 .. Len(source) :
                   /\ Split(source, safe)
                   /\ pending' = Drop(source, safe)
                   /\ \/ /\ Len(source) - safe > capacity
                         /\ status' = "buffer_limit" /\ out' = out
                      \/ /\ status' = "open"
                         /\ out' = out \o Redact(Take(source, safe))
<1>1. pending \in Seq(Alphabet)
  BY Zenon DEF TypeOK
<1>2. PICK source \in Seq(Alphabet) : source = pending \o chunk
  BY <1>1, ByteConcat, Zenon
<1> DEFINE safe == SafeBoundary(Take(source, ValidLen(source)))
<1>3. status = "open" /\ fed' = fed \o chunk /\ capacity' = capacity
  BY Zenon DEF Push
<1>4. \/ ValidLen(source) = Invalid /\ Fail("invalid_utf8", <<>>)
      \/ /\ ValidLen(source) # Invalid /\ Len(source) - safe > capacity
         /\ Fail("buffer_limit", Drop(source, safe))
      \/ /\ ValidLen(source) # Invalid
         /\ out' = out \o Redact(Take(source, safe))
         /\ pending' = Drop(source, safe)
         /\ UNCHANGED status
  BY <1>2, Zenon DEF Push
<1>5. CASE ValidLen(source) = Invalid /\ Fail("invalid_utf8", <<>>)
  <2>1. ~WellFormed(source) /\ ~Incomplete(source)
    BY <1>5, ValidIs, Zenon
  <2> QED
    BY <1>2, <1>3, <1>5, <2>1, Zenon DEF Fail
<1>6. ASSUME ValidLen(source) # Invalid
      PROVE  Split(source, safe) /\ safe \in 0 .. Len(source)
  BY <1>6, SplitIs, Zenon DEF Split
<1> HIDE DEF safe
<1>7. CASE /\ ValidLen(source) # Invalid /\ Len(source) - safe > capacity
           /\ Fail("buffer_limit", Drop(source, safe))
  BY <1>2, <1>3, <1>6, <1>7, Zenon DEF Fail
<1>8. CASE /\ ValidLen(source) # Invalid
           /\ out' = out \o Redact(Take(source, safe))
           /\ pending' = Drop(source, safe)
           /\ UNCHANGED status
  BY <1>2, <1>3, <1>6, <1>8, Zenon
<1> QED
  BY <1>4, <1>5, <1>7, <1>8, Zenon DEF safe

-----------------------------------------------------------------------------
(***************************************************************************)
(* Types, UTF-8 and the bytes held back, for any patterns.                  *)
(***************************************************************************)
\* While the response goes on, what was fed is whole characters and, behind them,
\* the bytes held back, which break off in their last character at most.
HeldBehind(done) ==
  fed = done \o pending /\ WellFormed(done) /\ (WellFormed(pending) \/ Incomplete(pending))

RedactorInv ==
  /\ TypeOK /\ Utf8Exact /\ HeldBackBounded
  /\ status = "open" => \E done \in Seq(Alphabet) : HeldBehind(done)

LEMMA RedactorTyped ==
  ASSUME TypeOK
  PROVE  /\ fed \in Seq(Alphabet) /\ pending \in Seq(Alphabet) /\ out \in Seq(Marks)
         /\ capacity \in Capacities /\ capacity \in Nat
<1>1. capacity \in Nat
  BY PatternAssumption DEF TypeOK
<1> QED
  BY <1>1, Zenon DEF TypeOK, Marks

LEMMA InitRedactor ==
  ASSUME Init
  PROVE  RedactorInv
<1>1. <<>> \in Seq(Alphabet) /\ <<>> \in Seq(Marks) /\ <<>> \o <<>> = <<>> /\ Len(<<>>) = 0
  OBVIOUS
<1>2. WellFormed(<<>>)
  BY DEF WellFormed
<1>3. TypeOK
  BY <1>1, Zenon DEF Init, TypeOK, Marks
<1>4. Utf8Exact
  BY <1>2, Zenon DEF Init, Utf8Exact
<1>5. HeldBackBounded
  BY <1>1, MaxPatternLenIs DEF Init, HeldBackBounded
<1>6. HeldBehind(<<>>)
  BY <1>1, <1>2, Zenon DEF Init, HeldBehind
<1> QED
  BY <1>1, <1>3, <1>4, <1>5, <1>6, Zenon DEF RedactorInv

LEMMA MarksConcat ==
  ASSUME NEW s \in Seq(Marks), NEW t \in Seq(Marks)
  PROVE  s \o t \in Seq(Marks)
  OBVIOUS

\* What stands behind whole characters decides whether the text is UTF-8.
LEMMA Utf8Behind ==
  ASSUME NEW a \in Seq(Alphabet), NEW b \in Seq(Alphabet), WellFormed(a)
  PROVE  /\ WellFormed(a \o b) <=> WellFormed(b)
         /\ Incomplete(a \o b) <=> Incomplete(b)
  BY WellFormedParts, IncompleteParts, Zenon

LEMMA PushRedactor ==
  ASSUME RedactorInv, NEW chunk \in Seq(Alphabet), Push(chunk)
  PROVE  RedactorInv'
<1>0. TypeOK /\ fed \in Seq(Alphabet) /\ pending \in Seq(Alphabet) /\ out \in Seq(Marks)
      /\ capacity \in Capacities /\ capacity \in Nat
  BY RedactorTyped, Zenon DEF RedactorInv
<1>1. PICK source \in Seq(Alphabet) :
        /\ source = pending \o chunk
        /\ status = "open" /\ fed' = fed \o chunk /\ capacity' = capacity
        /\ \/ /\ ~WellFormed(source) /\ ~Incomplete(source)
              /\ status' = "invalid_utf8" /\ pending' = <<>> /\ out' = out
           \/ \E safe \in 0 .. Len(source) :
                /\ Split(source, safe)
                /\ pending' = Drop(source, safe)
                /\ \/ /\ Len(source) - safe > capacity
                      /\ status' = "buffer_limit" /\ out' = out
                   \/ /\ status' = "open"
                      /\ out' = out \o Redact(Take(source, safe))
  BY <1>0, PushIs, Zenon
<1>2. PICK done \in Seq(Alphabet) : HeldBehind(done)
  BY <1>1, Zenon DEF RedactorInv
<1>3. fed' \in Seq(Alphabet) /\ fed' = done \o source /\ WellFormed(done)
  <2>1. (done \o pending) \o chunk = done \o (pending \o chunk)
    BY <1>0, ByteAssoc, ZenonT(40)
  <2>2. fed' \in Seq(Alphabet)
    BY <1>0, <1>1, ByteConcat, Zenon
  <2> QED
    BY <1>1, <1>2, <2>1, <2>2, Zenon DEF HeldBehind
<1>4. /\ WellFormed(fed') <=> WellFormed(source)
      /\ Incomplete(fed') <=> Incomplete(source)
  BY <1>3, Utf8Behind, Zenon
<1>5. CASE /\ ~WellFormed(source) /\ ~Incomplete(source)
           /\ status' = "invalid_utf8" /\ pending' = <<>> /\ out' = out
  <2>1. <<>> \in Seq(Alphabet) /\ Len(<<>>) = 0
    OBVIOUS
  <2>2. TypeOK'
    BY <1>0, <1>1, <1>3, <1>5, <2>1, ZenonT(40) DEF TypeOK, Marks
  <2>3. HeldBackBounded'
    BY <1>5, <2>1, MaxPatternLenIs DEF HeldBackBounded
  <2>4. Utf8Exact'
    BY <1>4, <1>5, Zenon DEF Utf8Exact, WellFormed, Incomplete
  <2> QED
    BY <1>5, <2>2, <2>3, <2>4, Zenon DEF RedactorInv
<1>6. ASSUME NEW safe \in 0 .. Len(source), Split(source, safe),
             pending' = Drop(source, safe),
             \/ /\ Len(source) - safe > capacity
                /\ status' = "buffer_limit" /\ out' = out
             \/ /\ status' = "open"
                /\ out' = out \o Redact(Take(source, safe))
      PROVE  RedactorInv'
  <2>1. PICK a \in Seq(Alphabet) : a = Take(source, safe) /\ WellFormed(a)
    BY <1>6, TakeIs, Zenon DEF Split
  <2>2. PICK d \in Seq(Alphabet) : /\ d = Drop(source, safe) /\ a \o d = source
                                   /\ Len(d) = Len(source) - safe
                                   /\ WellFormed(d) \/ Incomplete(d)
                                   /\ Len(source) - safe <= MaxPatternLen + 1
    BY <1>6, <2>1, DropIs, TakeDrop, Zenon DEF Split
  <2>3. WellFormed(source) \/ Incomplete(source)
    <3>1. /\ WellFormed(a \o d) <=> WellFormed(d)
          /\ Incomplete(a \o d) <=> Incomplete(d)
      BY <2>1, Utf8Behind, Zenon
    <3> QED
      BY <2>2, <3>1, Zenon
  <2>4. out' \in Seq(Marks)
    <3>1. out \o Redact(a) \in Seq(Marks)
      BY <1>0, RedactIs, MarksConcat, Zenon
    <3> QED
      BY <1>0, <1>6, <2>1, <3>1, Zenon
  <2>5. TypeOK'
    BY <1>0, <1>1, <1>3, <1>6, <2>2, <2>4, ZenonT(40) DEF TypeOK, Marks
  <2>6. HeldBackBounded'
    <3>1. Len(pending') <= MaxPatternLen + 1
      BY <1>6, <2>2, Zenon
    <3>2. ~(Len(source) - safe > capacity /\ capacity > MaxPatternLen)
      BY <1>0, <2>2, MaxPatternLenIs
    <3> QED
      BY <1>1, <1>6, <3>1, <3>2, ZenonT(40) DEF HeldBackBounded
  <2>7. Utf8Exact'
    BY <1>4, <1>6, <2>3, Zenon DEF Utf8Exact
  <2>8. HeldBehind(done \o a)' /\ done \o a \in Seq(Alphabet)
    <3>1. (done \o a) \o d = done \o (a \o d)
      BY ByteAssoc, ZenonT(40)
    <3>2. WellFormed(done \o a) /\ done \o a \in Seq(Alphabet)
      BY <1>3, <2>1, Utf8Behind, ByteConcat, Zenon
    <3> QED
      BY <1>3, <1>6, <2>2, <3>1, <3>2, ZenonT(40) DEF HeldBehind
  <2> QED
    BY <2>5, <2>6, <2>7, <2>8, Zenon DEF RedactorInv
<1> QED
  BY <1>1, <1>5, <1>6, Zenon

LEMMA FinishRedactor ==
  ASSUME RedactorInv, Finish
  PROVE  RedactorInv'
<1>0. TypeOK /\ fed \in Seq(Alphabet) /\ pending \in Seq(Alphabet) /\ out \in Seq(Marks)
      /\ capacity \in Capacities /\ capacity \in Nat
  BY RedactorTyped, Zenon DEF RedactorInv
<1>1. status = "open" /\ fed' = fed /\ capacity' = capacity
  BY Zenon DEF Finish
<1>2. PICK done \in Seq(Alphabet) : HeldBehind(done)
  BY <1>1, Zenon DEF RedactorInv
<1>3. /\ WellFormed(fed) <=> WellFormed(pending)
      /\ Incomplete(fed) <=> Incomplete(pending)
  <2>1. /\ WellFormed(done \o pending) <=> WellFormed(pending)
        /\ Incomplete(done \o pending) <=> Incomplete(pending)
    BY <1>0, <1>2, Utf8Behind, Zenon DEF HeldBehind
  <2> QED
    BY <1>2, <2>1, Zenon DEF HeldBehind
<1>4. ValidLen(pending) = Len(pending) => WellFormed(pending)
  <2>1. Len(pending) \in Nat /\ Len(pending) # Len(pending) - 1 /\ Len(pending) # Invalid
    BY <1>0 DEF Invalid
  <2> QED
    BY <1>0, <2>1, ValidIs, Zenon
<1>5. ValidLen(pending) # Len(pending) => Incomplete(pending)
  <2>1. WellFormed(pending) \/ Incomplete(pending)
    BY <1>2, Zenon DEF HeldBehind
  <2> QED
    BY <1>0, <2>1, ValidIs, Zenon
<1>6. pending' = <<>> /\ <<>> \in Seq(Alphabet) /\ Len(<<>>) = 0
  <2>1. pending' = <<>>
    BY Zenon DEF Finish, Fail
  <2> QED
    BY <2>1
<1>7. HeldBackBounded'
  <2>1. status' # "buffer_limit"
    BY Zenon DEF Finish, Fail
  <2> QED
    BY <1>6, <2>1, MaxPatternLenIs DEF HeldBackBounded
<1>8. out' \in Seq(Marks)
  <2>1. out \o Redact(pending) \in Seq(Marks)
    BY <1>0, RedactIs, MarksConcat, Zenon
  <2> QED
    BY <1>0, <2>1, Zenon DEF Finish, Fail
<1>9. TypeOK'
  <2>1. status' \in {"finished", "truncated"}
    BY Zenon DEF Finish, Fail
  <2> QED
    BY <1>0, <1>1, <1>6, <1>8, <2>1, Zenon DEF TypeOK, Marks
<1>10. Utf8Exact'
  <2>1. CASE ValidLen(pending) # Len(pending) /\ status' = "truncated"
    BY <1>1, <1>3, <1>5, <2>1, Zenon DEF Utf8Exact
  <2>2. CASE ValidLen(pending) = Len(pending) /\ status' = "finished"
    BY <1>1, <1>3, <1>4, <2>2, Zenon DEF Utf8Exact
  <2> QED
    BY <2>1, <2>2, Zenon DEF Finish, Fail
<1>11. status' # "open"
  BY Zenon DEF Finish, Fail
<1> QED
  BY <1>7, <1>9, <1>10, <1>11, Zenon DEF RedactorInv

\* A chunk is a text.
LEMMA ChunkIs ==
  ASSUME NEW chunk \in Chunks
  PROVE  chunk \in Seq(Alphabet)
<1>1. PICK n \in 1 .. MaxChunk : chunk \in [1 .. n -> Alphabet]
  BY Zenon DEF Chunks
<1>2. n \in Nat
  BY PatternAssumption
<1> QED
  BY <1>1, <1>2, SeqDef

\* The three invariants hold together, with what the bytes held back are.
LEMMA RedactorInvariant == Spec => []RedactorInv
<1>1. Init => RedactorInv
  BY InitRedactor
<1>2. RedactorInv /\ [Next]_vars => RedactorInv'
  <2>1. ASSUME RedactorInv, Next PROVE RedactorInv'
    BY <2>1, ChunkIs, PushRedactor, FinishRedactor, Zenon DEF Next
  <2>2. ASSUME RedactorInv, UNCHANGED vars PROVE RedactorInv'
    BY <2>2, Zenon DEF RedactorInv, TypeOK, Utf8Exact, HeldBackBounded, HeldBehind, vars
  <2> QED
    BY <2>1, <2>2
<1> QED
  BY <1>1, <1>2, PTL DEF Spec

\* The redactor's state has its types whatever the chunks are: only bytes of the
\* text are held back, and the output is text and replacements.
THEOREM RedactorTypes == Spec => []TypeOK
<1>1. RedactorInv => TypeOK
  BY DEF RedactorInv
<1> QED
  BY <1>1, RedactorInvariant, PTL

\* push never holds back more than the longest pattern and an incomplete
\* character, and never fails for a capacity of that size.
THEOREM RedactorHoldsLittle == Spec => []HeldBackBounded
<1>1. RedactorInv => HeldBackBounded
  BY DEF RedactorInv
<1> QED
  BY <1>1, RedactorInvariant, PTL

\* push and finish reject a text exactly when it is not UTF-8, wherever the chunks
\* and the safe boundary cut it.
THEOREM RedactorRejectsExactly == Spec => []Utf8Exact
<1>1. RedactorInv => Utf8Exact
  BY DEF RedactorInv
<1> QED
  BY <1>1, RedactorInvariant, PTL

-----------------------------------------------------------------------------
(***************************************************************************)
(* The output, for separate patterns in one case.  The bytes held back decide *)
(* what becomes of every text that may follow.                              *)
(***************************************************************************)
Matches ==
  /\ status = "open" => \A f \in Seq(Alphabet) : out \o Redact(pending \o f) = Redact(fed \o f)
  /\ status = "finished" => pending = <<>> /\ out = Redact(fed)
  /\ FailureReleasesPrefix

LEMMA RedactNothing == Redact(<<>>) = <<>>
<1>1. <<>> \in Seq(Alphabet)
  OBVIOUS
<1>2. Redact(<<>>) = All(<<>>).text \o All(<<>>).run
  BY <1>1, RedactIs, Zenon
<1> QED
  <2>1. All(<<>>).text = <<>> /\ All(<<>>).run = <<>>
    BY AllEmpty DEF Start
  <2>2. <<>> \o <<>> = <<>>
    OBVIOUS
  <2> QED
    BY <1>2, <2>1, <2>2, Zenon

Begins(s, t) == \E n \in 0 .. Len(t) : s = Take(t, n)

LEMMA PrefixOfConcat ==
  ASSUME NEW s \in Seq(Marks), NEW t \in Seq(Marks)
  PROVE  Begins(s, s \o t)
<1>1. Len(s) \in 0 .. Len(s \o t) /\ s = Take(s \o t, Len(s))
  BY DEF Take
<1> QED
  BY <1>1, Zenon DEF Begins

LEMMA InitMatches ==
  ASSUME Init
  PROVE  Matches
<1>1. ASSUME NEW f \in Seq(Alphabet)
      PROVE  <<>> \o f = f /\ <<>> \o Redact(f) = Redact(f)
  BY RedactIs
<1>2. \A f \in Seq(Alphabet) : out \o Redact(pending \o f) = Redact(fed \o f)
  BY <1>1, Zenon DEF Init
<1> QED
  BY <1>2, Zenon DEF Init, Matches, FailureReleasesPrefix

\* A response that fails with a chunk has released a part of its redaction.
LEMMA FailedPrefix ==
  ASSUME TypeOK, Matches, status = "open", NEW f \in Seq(Alphabet)
  PROVE  Begins(out, Redact(fed \o f))
<1>1. out \in Seq(Marks) /\ pending \o f \in Seq(Alphabet)
  BY RedactorTyped, ByteConcat, Zenon
<1>2. Redact(pending \o f) \in Seq(Marks)
  BY <1>1, RedactIs, Zenon
<1>3. Begins(out, out \o Redact(pending \o f))
  BY <1>1, <1>2, PrefixOfConcat, Zenon
<1> QED
  BY <1>3, Zenon DEF Matches

LEMMA PushMatches ==
  ASSUME OneCase, Separate, TypeOK, Matches, NEW chunk \in Seq(Alphabet), Push(chunk)
  PROVE  Matches'
<1>0. /\ fed \in Seq(Alphabet) /\ pending \in Seq(Alphabet) /\ out \in Seq(Marks)
  BY RedactorTyped, Zenon
<1>1. \A f \in Seq(Alphabet) : (pending \o chunk) \o f = pending \o (chunk \o f)
  BY <1>0, ByteAssoc, Zenon
<1>2. \A f \in Seq(Alphabet) : (fed \o chunk) \o f = fed \o (chunk \o f)
  BY <1>0, ByteAssoc, Zenon
<1>3. PICK source \in Seq(Alphabet) :
        /\ source = pending \o chunk
        /\ status = "open" /\ fed' = fed \o chunk /\ capacity' = capacity
        /\ \/ /\ ~WellFormed(source) /\ ~Incomplete(source)
              /\ status' = "invalid_utf8" /\ pending' = <<>> /\ out' = out
           \/ \E safe \in 0 .. Len(source) :
                /\ Split(source, safe)
                /\ pending' = Drop(source, safe)
                /\ \/ /\ Len(source) - safe > capacity
                      /\ status' = "buffer_limit" /\ out' = out
                   \/ /\ status' = "open"
                      /\ out' = out \o Redact(Take(source, safe))
  BY PushIs, Zenon
<1>4. CASE status' \in {"invalid_utf8", "buffer_limit"} /\ out' = out
  <2>1. Begins(out', Redact(fed'))
    BY <1>3, <1>4, FailedPrefix, Zenon
  <2>2. status' # "open" /\ status' # "finished"
    BY <1>4
  <2> QED
    BY <2>1, <2>2, Zenon DEF Matches, FailureReleasesPrefix, Begins
<1>5. ASSUME NEW safe \in 0 .. Len(source), Split(source, safe),
             pending' = Drop(source, safe), status' = "open",
             out' = out \o Redact(Take(source, safe)),
             NEW f \in Seq(Alphabet)
      PROVE  out' \o Redact(pending' \o f) = Redact(fed' \o f)
  <2>1. PICK a \in Seq(Alphabet) : a = Take(source, safe)
    BY TakeIs, Zenon
  <2>2. PICK d \in Seq(Alphabet) : d = Drop(source, safe)
    BY DropIs, Zenon
  <2>3. Redact(a) \o Redact(d \o f) = Redact(source \o f)
    BY <1>5, <2>1, <2>2, Zenon DEF Split
  <2>4. Redact(a) \in Seq(Marks) /\ Redact(d \o f) \in Seq(Marks)
    BY <1>5, ByteConcat, RedactIs, Zenon
  <2>5. (out \o Redact(a)) \o Redact(d \o f) = out \o (Redact(a) \o Redact(d \o f))
    BY <1>0, <2>4, ConcatAssoc, Zenon
  <2>6. PICK h \in Seq(Alphabet) : h = chunk \o f
    BY <1>5, ByteConcat, Zenon
  <2>7. source \o f = pending \o h
    BY <1>3, <1>5, <1>1, <2>6, Zenon
  <2>8. fed' \o f = fed \o h
    BY <1>3, <1>5, <1>2, <2>6, Zenon
  <2>9. out \o Redact(pending \o h) = Redact(fed \o h)
    BY <1>3, Zenon DEF Matches
  <2> QED
    BY <1>5, <2>1, <2>2, <2>3, <2>5, <2>7, <2>8, <2>9, ZenonT(40)
<1>6. CASE status' = "open" /\ \E safe \in 0 .. Len(source) :
             /\ Split(source, safe) /\ pending' = Drop(source, safe)
             /\ out' = out \o Redact(Take(source, safe))
  <2>1. \A f \in Seq(Alphabet) : out' \o Redact(pending' \o f) = Redact(fed' \o f)
    BY <1>5, <1>6, Zenon
  <2> QED
    BY <1>6, <2>1, Zenon DEF Matches, FailureReleasesPrefix, Begins, Redact, Found
<1> QED
  BY <1>3, <1>4, <1>6, Zenon

LEMMA FinishMatches ==
  ASSUME TypeOK, Matches, Finish
  PROVE  Matches'
<1>0. /\ fed \in Seq(Alphabet) /\ pending \in Seq(Alphabet)
  BY RedactorTyped, Zenon
<1>1. status = "open" /\ fed' = fed
  BY Zenon DEF Finish
<1>2. <<>> \in Seq(Alphabet) /\ fed \o <<>> = fed /\ pending \o <<>> = pending
  BY <1>0
<1>3. CASE Fail("truncated", <<>>)
  <2>1. Begins(out, Redact(fed \o <<>>))
    BY <1>1, <1>2, FailedPrefix, Zenon
  <2>2. Begins(out', Redact(fed'))
    BY <1>1, <1>2, <1>3, <2>1, Zenon DEF Fail
  <2>3. status' # "open" /\ status' # "finished"
    BY <1>3 DEF Fail
  <2> QED
    BY <2>2, <2>3, Zenon DEF Matches, FailureReleasesPrefix, Begins
<1>4. CASE out' = out \o Redact(pending) /\ pending' = <<>> /\ status' = "finished"
  <2>1. out \o Redact(pending \o <<>>) = Redact(fed \o <<>>)
    BY <1>1, <1>2, Zenon DEF Matches
  <2>2. out' = Redact(fed')
    BY <1>1, <1>2, <1>4, <2>1, Zenon
  <2> QED
    BY <1>4, <2>2, Zenon DEF Matches, FailureReleasesPrefix, Begins
<1> QED
  BY <1>3, <1>4, Zenon DEF Finish

LEMMA MatchesInvariant ==
  ASSUME OneCase, Separate
  PROVE  Spec => [](TypeOK /\ Matches)
<1>1. Init => Matches
  BY InitMatches
<1>2. TypeOK /\ Matches /\ [Next]_vars => Matches'
  <2>1. ASSUME TypeOK, Matches, Next PROVE Matches'
    BY <2>1, ChunkIs, PushMatches, FinishMatches, Zenon DEF Next
  <2>2. ASSUME Matches, UNCHANGED vars PROVE Matches'
    BY <2>2, Zenon DEF Matches, FailureReleasesPrefix, Begins, vars
  <2> QED
    BY <2>1, <2>2
<1> QED
  BY <1>1, <1>2, RedactorTypes, PTL DEF Spec

\* For separate patterns in one case, what push has released and what the bytes
\* it holds will become is redact_text of all it was given, however the text was
\* cut into chunks.
THEOREM RedactorMatchesWhole ==
  ASSUME OneCase, Separate
  PROVE  Spec => []StreamMatchesWhole
<1>1. TypeOK /\ Matches => StreamMatchesWhole
  <2>1. SUFFICES ASSUME TypeOK, Matches PROVE StreamMatchesWhole
    OBVIOUS
  <2>2. /\ fed \in Seq(Alphabet) /\ pending \in Seq(Alphabet) /\ out \in Seq(Marks)
    BY <2>1, RedactorTyped, Zenon
  <2>3. /\ <<>> \in Seq(Alphabet) /\ out \o <<>> = out
        /\ fed \o <<>> = fed /\ pending \o <<>> = pending
    BY <2>2
  <2>4. status = "open" => out \o Redact(pending) = Redact(fed)
    BY <2>1, <2>3, Zenon DEF Matches
  <2>5. status = "finished" => out \o Redact(pending) = Redact(fed)
    BY <2>1, <2>3, RedactNothing, Zenon DEF Matches
  <2> QED
    BY <2>4, <2>5, Zenon DEF StreamMatchesWhole
<1> QED
  BY <1>1, MatchesInvariant, PTL

\* For separate patterns in one case, a response that push or finish fails has
\* released a beginning of the redacted text and nothing else.
THEOREM RedactorFailsClean ==
  ASSUME OneCase, Separate
  PROVE  Spec => []FailureReleasesPrefix
<1>1. Matches => FailureReleasesPrefix
  BY Zenon DEF Matches
<1> QED
  BY <1>1, MatchesInvariant, PTL

=============================================================================
