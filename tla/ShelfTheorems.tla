---------------------------- MODULE ShelfTheorems ----------------------------
(***************************************************************************)
(* Facts about a sequence without repetitions used as a shelf: things are  *)
(* put at its end and taken from its front. The pool's connection queue    *)
(* and its channel cache are such shelves.                                 *)
(***************************************************************************)
EXTENDS Naturals, Sequences, Functions, FiniteSetTheorems, SequenceTheorems, TLAPS

\* Putting something new on a shelf.
LEMMA ShelfAppend ==
    ASSUME NEW N, NEW s \in Seq(N), IsInjective(s), NEW x \in N, x \notin Range(s)
    PROVE  IsInjective(Append(s, x)) /\ Range(Append(s, x)) = Range(s) \cup {x}
<1>1. /\ DOMAIN s = 1 .. Len(s) /\ Len(s) \in Nat
      /\ DOMAIN Append(s, x) = 1 .. Len(s) + 1
      /\ \A n \in 1 .. Len(s) : Append(s, x)[n] = s[n]
      /\ Append(s, x)[Len(s) + 1] = x
  BY AppendProperties, LenProperties
<1>2. \A n \in 1 .. Len(s) + 1 : n \in 1 .. Len(s) \/ n = Len(s) + 1
  BY <1>1
<1>3. Len(s) + 1 \in 1 .. Len(s) + 1 /\ 1 .. Len(s) \subseteq 1 .. Len(s) + 1
  BY <1>1
<1>. QED
  BY <1>1, <1>2, <1>3 DEF Range, IsInjective

\* Taking the first thing off a shelf.
LEMMA ShelfTail ==
    ASSUME NEW N, NEW s \in Seq(N), IsInjective(s), s # <<>>
    PROVE  /\ Head(s) \in Range(s) /\ Head(s) \in N
           /\ IsInjective(Tail(s)) /\ Range(Tail(s)) = Range(s) \ {Head(s)}
<1>1. /\ DOMAIN s = 1 .. Len(s) /\ Len(s) \in Nat \ {0} /\ Head(s) = s[1]
      /\ DOMAIN Tail(s) = 1 .. Len(s) - 1
      /\ \A n \in 1 .. Len(s) - 1 : Tail(s)[n] = s[n + 1]
  BY HeadTailProperties, LenProperties, EmptySeq
<1>2. IsInjective(Tail(s))
  BY <1>1 DEF IsInjective
<1>3. Head(s) \in Range(s) /\ Head(s) \in N
  BY <1>1 DEF Range
<1>4. ASSUME NEW y \in Range(Tail(s)) PROVE y \in Range(s) \ {Head(s)}
  BY <1>1 DEF Range, IsInjective
<1>5. ASSUME NEW y \in Range(s) \ {Head(s)} PROVE y \in Range(Tail(s))
  <2>1. PICK n \in 1 .. Len(s) : s[n] = y
    BY <1>1 DEF Range
  <2>2. n - 1 \in 1 .. Len(s) - 1 /\ s[(n - 1) + 1] = y
    BY <1>1, <2>1
  <2>. QED
    BY <1>1, <2>2 DEF Range
<1>. QED
  BY <1>2, <1>3, <1>4, <1>5

\* Taking the first n things off a shelf.
LEMMA ShelfSplit ==
    ASSUME NEW N, NEW s \in Seq(N), IsInjective(s), NEW n \in 0 .. Len(s)
    PROVE  LET rest == SubSeq(s, n + 1, Len(s))
           IN  /\ rest \in Seq(N) /\ IsInjective(rest)
               /\ Range(rest) = Range(s) \ Range(SubSeq(s, 1, n))
               /\ Range(SubSeq(s, 1, n)) \subseteq Range(s)
<1>. DEFINE rest == SubSeq(s, n + 1, Len(s))
            taken == SubSeq(s, 1, n)
<1>1. DOMAIN s = 1 .. Len(s) /\ Len(s) \in Nat
  BY LenProperties
<1>2. /\ rest \in Seq(N) /\ DOMAIN rest = 1 .. Len(s) - n
      /\ \A k \in 1 .. Len(s) - n : rest[k] = s[n + k]
  <2>1. n + 1 \in Int /\ Len(s) \in Int /\ \A k \in n + 1 .. Len(s) : s[k] \in N
    BY <1>1
  <2>2. /\ rest \in Seq(N)
        /\ Len(rest) = IF n + 1 <= Len(s) THEN Len(s) - (n + 1) + 1 ELSE 0
        /\ \A k \in 1 .. Len(s) - (n + 1) + 1 : rest[k] = s[n + 1 + k - 1]
    BY <2>1, SubSeqProperties
  <2>. HIDE DEF rest, taken
  <2>3. n \in Int /\ Len(s) - (n + 1) + 1 = Len(s) - n /\ Len(rest) = Len(s) - n
    BY <1>1, <2>2
  <2>4. DOMAIN rest = 1 .. Len(rest)
    BY <2>2, LenProperties
  <2>5. \A k \in 1 .. Len(s) - n : n + 1 + k - 1 = n + k
    BY <1>1
  <2>. QED
    BY <2>2, <2>3, <2>4, <2>5
<1>3. DOMAIN taken = 1 .. n /\ \A k \in 1 .. n : taken[k] = s[k]
  BY <1>1, SubSeqProperties
<1>. HIDE DEF rest, taken
<1>8. \A k \in 1 .. Len(s) - n : k \in Int /\ n + k \in 1 .. Len(s) /\ n + k \notin 1 .. n
  BY <1>1
<1>4. IsInjective(rest)
  <2>1. SUFFICES ASSUME NEW j \in 1 .. Len(s) - n, NEW k \in 1 .. Len(s) - n, rest[j] = rest[k]
                 PROVE  j = k
    BY <1>2 DEF IsInjective
  <2>2. s[n + j] = s[n + k]
    BY <1>2, <2>1
  <2>3. n + j = n + k
    BY <1>1, <1>8, <2>2 DEF IsInjective
  <2>. QED
    BY <2>3, <1>8, <1>1
<1>5. Range(taken) \subseteq Range(s)
  BY <1>1, <1>3 DEF Range
<1>6. ASSUME NEW y \in Range(rest) PROVE y \in Range(s) \ Range(taken)
  <2>1. PICK k \in 1 .. Len(s) - n : y = s[n + k]
    BY <1>2, <1>6 DEF Range
  <2>2. y \in Range(s)
    BY <1>1, <1>8, <2>1 DEF Range
  <2>3. ASSUME NEW j \in 1 .. n, y = s[j] PROVE FALSE
    <3>1. j \in 1 .. Len(s)
      BY <1>1
    <3>. QED
      BY <1>1, <1>8, <2>1, <2>3, <3>1 DEF IsInjective
  <2>. QED
    BY <1>3, <2>2, <2>3 DEF Range
<1>7. ASSUME NEW y \in Range(s) \ Range(taken) PROVE y \in Range(rest)
  <2>1. PICK k \in 1 .. Len(s) : s[k] = y
    BY <1>1 DEF Range
  <2>2. k \notin 1 .. n
    BY <1>3, <2>1 DEF Range
  <2>3. k - n \in 1 .. Len(s) - n /\ s[n + (k - n)] = y
    BY <1>1, <2>1, <2>2
  <2>. QED
    BY <1>2, <2>3 DEF Range
<1>. QED
  BY <1>2, <1>4, <1>5, <1>6, <1>7 DEF rest, taken

\* A shelf holds no more than there is.
LEMMA ShelfBound ==
    ASSUME NEW n \in Nat, NEW S \in SUBSET (1 .. n), NEW s \in Seq(1 .. n), IsInjective(s),
           Range(s) \subseteq S
    PROVE  IsFiniteSet(S) /\ Len(s) <= Cardinality(S) /\ Cardinality(1 .. n) = n
<1>1. IsFiniteSet(1 .. n) /\ Cardinality(1 .. n) = n
  BY FS_Interval
<1>2. IsFiniteSet(S)
  BY <1>1, FS_Subset
<1>3. DOMAIN s = 1 .. Len(s) /\ Len(s) \in Nat
  BY LenProperties
<1>4. s \in Injection(1 .. Len(s), S)
  <2>1. \A k \in 1 .. Len(s) : s[k] \in S
    BY <1>3 DEF Range
  <2>2. s \in [1 .. Len(s) -> S]
    BY <1>3, <2>1
  <2>. QED
    BY <2>2 DEF Injection
<1>5. Cardinality(1 .. Len(s)) <= Cardinality(S)
  BY <1>2, <1>4, FS_Injection
<1>6. Cardinality(1 .. Len(s)) = Len(s)
  <2>1. PICK k \in Nat : k = Len(s)
    BY <1>3
  <2>2. Cardinality(1 .. k) = k
    BY FS_Interval
  <2>. QED
    BY <2>1, <2>2
<1>. QED
  BY <1>1, <1>2, <1>5, <1>6
=============================================================================
