---------------------------- MODULE SequenceFacts ---------------------------
(***************************************************************************)
(* Facts the proofs share, about numbers, recursive functions, sequences   *)
(* and circular buffers, that the library of the proof system does not     *)
(* have.                                                                   *)
(***************************************************************************)
EXTENDS SequenceTheorems, FiniteSetTheorems, WellFoundedInduction, TLAPS

-----------------------------------------------------------------------------
(***************************************************************************)
(* Recursion.  A set of numbers that holds 0, and with each number the     *)
(* next, holds all of them: that is the induction all of this rests on.    *)
(***************************************************************************)

\* A set of numbers has a least one, since < is well founded on Nat.
LEMMA LeastElement ==
    ASSUME NEW T, T \subseteq Nat, T # {}
    PROVE  \E num \in T : \A m \in T : num <= m
<1> DEFINE R == {ss \in Nat \X Nat : ss[1] < ss[2]}
<1>1. IsWellFoundedOn(R, Nat)
  BY NatLessThanWellFounded DEF OpToRel
<1>2. PICK num \in T : \A m \in T : ~(<<m, num>> \in R)
  BY <1>1, WFMin
<1>3. ASSUME NEW m \in T
      PROVE  num <= m
  <2>1. m \in Nat /\ num \in Nat /\ ~(<<m, num>> \in R)
    BY <1>2
  <2>2. ~(m < num)
    BY <2>1
  <2>3. QED
    BY <2>1, <2>2
<1>4. QED
  BY <1>3

\* So a set that holds 0, and with each number the next, holds all of them.
LEMMA Induction ==
    ASSUME NEW T, 0 \in T, \A num \in Nat : num \in T => num + 1 \in T
    PROVE  Nat \subseteq T
<1> SUFFICES ASSUME NEW m \in Nat, m \notin T
             PROVE  FALSE
  OBVIOUS
<1>1. PICK num \in Nat \ T : \A k \in Nat \ T : num <= k
  BY LeastElement
<1>2. num # 0
  OBVIOUS
<1>3. num - 1 \in Nat /\ num - 1 \in T
  BY <1>1, <1>2
<1>4. QED
  BY <1>3

\* f goes on from x, as S says, for so many steps.
Goes(f, x, S, num) == f[0] = x /\ \A k \in 1 .. num : f[k] = S[<<k, f[k - 1]>>]

\* There is such an f.
LEMMA GoesOn ==
    ASSUME NEW X, NEW x \in X, NEW N \in Nat, NEW S \in [(1 .. N) \X X -> X]
    PROVE  \E f \in [0 .. N -> X] : Goes(f, x, S, N)
<1> DEFINE T == {num \in Nat : num <= N => \E f \in [0 .. num -> X] : Goes(f, x, S, num)}
<1>1. 0 \in T
  <2> DEFINE f == [k \in 0 .. 0 |-> x]
  <2>1. f \in [0 .. 0 -> X] /\ Goes(f, x, S, 0)
    BY DEF Goes
  <2>2. QED
    BY <2>1
<1>2. ASSUME NEW num \in Nat, num \in T
      PROVE  num + 1 \in T
  <2> SUFFICES ASSUME num + 1 <= N
               PROVE  \E f \in [0 .. num + 1 -> X] : Goes(f, x, S, num + 1)
    OBVIOUS
  <2>1. PICK f \in [0 .. num -> X] : Goes(f, x, S, num)
    BY <1>2
  <2>2. f[num] \in X /\ <<num + 1, f[num]>> \in (1 .. N) \X X
    OBVIOUS
  <2>3. S[<<num + 1, f[num]>>] \in X
    BY <2>2
  <2> DEFINE g == [k \in 0 .. num + 1 |-> IF k = num + 1 THEN S[<<num + 1, f[num]>>] ELSE f[k]]
  <2>4. g \in [0 .. num + 1 -> X]
    BY <2>3
  <2>5. \A k \in 0 .. num : g[k] = f[k]
    OBVIOUS
  <2>6. g[num + 1] = S[<<num + 1, f[num]>>]
    OBVIOUS
  <2> HIDE DEF g
  <2>7. ASSUME NEW k \in 1 .. num + 1
        PROVE  g[k] = S[<<k, g[k - 1]>>]
    <3>1. CASE k = num + 1
      BY <2>5, <2>6, <3>1
    <3>2. CASE k # num + 1
      <4>1. k \in 1 .. num /\ k \in 0 .. num /\ k - 1 \in 0 .. num
        BY <3>2
      <4>2. QED
        BY <2>1, <2>5, <4>1 DEF Goes
    <3>3. QED
      BY <3>1, <3>2
  <2>8. g[0] = x
    BY <2>1, <2>5 DEF Goes
  <2>9. QED
    BY <2>4, <2>7, <2>8 DEF Goes
<1> HIDE DEF T
<1>3. N \in T
  BY <1>1, <1>2, Induction
<1>4. QED
  BY <1>3 DEF T

\* And only one, as far as it goes.
LEMMA GoesSame ==
    ASSUME NEW x, NEW S, NEW N \in Nat, NEW f, NEW g,
           Goes(f, x, S, N), Goes(g, x, S, N)
    PROVE  \A num \in 0 .. N : f[num] = g[num]
<1> DEFINE T == {num \in Nat : num <= N => f[num] = g[num]}
<1>1. 0 \in T
  BY DEF Goes
<1>2. ASSUME NEW num \in Nat, num \in T
      PROVE  num + 1 \in T
  <2> SUFFICES ASSUME num + 1 <= N
               PROVE  f[num + 1] = g[num + 1]
    OBVIOUS
  <2>1. f[num] = g[num] /\ num + 1 \in 1 .. N /\ (num + 1) - 1 = num
    BY <1>2
  <2>2. QED
    BY <2>1 DEF Goes
<1> HIDE DEF T
<1>3. \A num \in 0 .. N : num \in T
  BY <1>1, <1>2, Induction
<1>4. QED
  BY <1>3 DEF T

\* f takes a sequence apart from its head, as S says, and z where it ends.
Unrolls(f, C, z, S) ==
    \A q \in Seq(C) : f[q] = IF q = << >> THEN z[q] ELSE S[<<q, f[Tail(q)]>>]

\* It does so up to a length.
Unrolled(f, C, z, S, num) ==
    \A q \in Seq(C) : Len(q) <= num =>
        f[q] = IF q = << >> THEN z[q] ELSE S[<<q, f[Tail(q)]>>]

\* A sequence is empty, or it has a head and a shorter tail.
LEMMA EmptyOrNot ==
    ASSUME NEW C
    PROVE  /\ << >> \in Seq(C)
           /\ \A q \in Seq(C) : Len(q) \in Nat /\ (Len(q) = 0 <=> q = << >>)
           /\ \A q \in Seq(C) : q # << >> =>
                  /\ Head(q) \in C /\ Tail(q) \in Seq(C)
                  /\ Len(Tail(q)) = Len(q) - 1
<1>1. << >> \in Seq(C)
  BY EmptySeq
<1>2. \A q \in Seq(C) : Len(q) \in Nat /\ (Len(q) = 0 <=> q = << >>)
  BY LenProperties, EmptySeq
<1>3. \A q \in Seq(C) : q # << >> => /\ Head(q) \in C /\ Tail(q) \in Seq(C)
                                     /\ Len(Tail(q)) = Len(q) - 1
  BY HeadTailProperties
<1>4. QED
  BY <1>1, <1>2, <1>3

\* Induction: a set with the empty sequence, and each one whose tail it has,
\* has them all.
LEMMA OverSequences ==
    ASSUME NEW C, NEW T, T \subseteq Seq(C), << >> \in T,
           \A q \in Seq(C) : q # << >> /\ Tail(q) \in T => q \in T
    PROVE  T = Seq(C)
<1> DEFINE K == {num \in Nat : \A q \in Seq(C) : Len(q) <= num => q \in T}
<1>1. 0 \in K
  <2> SUFFICES ASSUME NEW q \in Seq(C), Len(q) <= 0
               PROVE  q \in T
    OBVIOUS
  <2>1. q = << >>
    BY EmptyOrNot
  <2>2. QED
    BY <2>1
<1>2. ASSUME NEW num \in Nat, num \in K
      PROVE  num + 1 \in K
  <2> SUFFICES ASSUME NEW q \in Seq(C), Len(q) <= num + 1
               PROVE  q \in T
    OBVIOUS
  <2>1. CASE q = << >>
    BY <2>1
  <2>2. CASE q # << >>
    <3>1. Tail(q) \in Seq(C) /\ Len(Tail(q)) \in Nat /\ Len(Tail(q)) = Len(q) - 1
      BY <2>2, EmptyOrNot
    <3>2. Len(q) \in Nat
      BY EmptyOrNot
    <3>3. Len(Tail(q)) <= num
      BY <3>1, <3>2
    <3>4. Tail(q) \in T
      BY <1>2, <3>1, <3>3
    <3>5. QED
      BY <2>2, <3>4
  <2>3. QED
    BY <2>1, <2>2
<1> HIDE DEF K
<1>3. Nat \subseteq K
  BY <1>1, <1>2, Induction
<1>4. ASSUME NEW q \in Seq(C)
      PROVE  q \in T
  <2>1. Len(q) \in Nat
    BY EmptyOrNot
  <2>2. Len(q) \in K /\ Len(q) <= Len(q)
    BY <1>3, <2>1
  <2>3. QED
    BY <2>2 DEF K
<1>5. QED
  BY <1>4

\* There is an f that takes all sequences apart.
LEMMA Unrolling ==
    ASSUME NEW C, NEW B, NEW z \in [Seq(C) -> B], NEW S \in [Seq(C) \X B -> B]
    PROVE  \E f \in [Seq(C) -> B] : Unrolls(f, C, z, S)
<1> DEFINE T == {num \in Nat : \E f \in [Seq(C) -> B] : Unrolled(f, C, z, S, num)}
<1>1. 0 \in T
  <2>1. Unrolled(z, C, z, S, 0)
    <3> SUFFICES ASSUME NEW q \in Seq(C), Len(q) <= 0
                 PROVE  q = << >>
      BY DEF Unrolled
    <3>1. QED
      BY EmptyOrNot
  <2>2. QED
    BY <2>1
<1>2. ASSUME NEW num \in Nat, num \in T
      PROVE  num + 1 \in T
  <2>1. PICK f \in [Seq(C) -> B] : Unrolled(f, C, z, S, num)
    BY <1>2
  <2> DEFINE g == [q \in Seq(C) |-> IF q = << >> THEN z[q] ELSE S[<<q, f[Tail(q)]>>]]
  <2>2. g \in [Seq(C) -> B]
    BY EmptyOrNot
  <2>3. \A q \in Seq(C) : Len(q) <= num => g[q] = f[q]
    BY <2>1 DEF Unrolled
  <2>4. \A q \in Seq(C) : g[q] = IF q = << >> THEN z[q] ELSE S[<<q, f[Tail(q)]>>]
    OBVIOUS
  <2> HIDE DEF g
  <2>5. Unrolled(g, C, z, S, num + 1)
    <3> SUFFICES ASSUME NEW q \in Seq(C), Len(q) <= num + 1
                 PROVE  g[q] = IF q = << >> THEN z[q] ELSE S[<<q, g[Tail(q)]>>]
      BY DEF Unrolled
    <3>1. CASE q = << >>
      BY <2>4, <3>1
    <3>2. CASE q # << >>
      <4>1. Tail(q) \in Seq(C) /\ Len(Tail(q)) <= num
        <5>1. Tail(q) \in Seq(C) /\ Len(q) \in Nat /\ Len(Tail(q)) = Len(q) - 1
          BY <3>2, EmptyOrNot
        <5>2. QED
          BY <5>1
      <4>2. g[Tail(q)] = f[Tail(q)]
        BY <2>3, <4>1
      <4>3. QED
        BY <2>4, <3>2, <4>2
    <3>3. QED
      BY <3>1, <3>2
  <2>6. QED
    BY <2>2, <2>5
<1> HIDE DEF T
<1>3. Nat \subseteq T
  BY <1>1, <1>2, Induction
<1> DEFINE F == [num \in Nat |-> CHOOSE f \in [Seq(C) -> B] : Unrolled(f, C, z, S, num)]
           h == [q \in Seq(C) |-> F[Len(q)][q]]
<1>4. \A num \in Nat : F[num] \in [Seq(C) -> B] /\ Unrolled(F[num], C, z, S, num)
  BY <1>3 DEF T
<1> HIDE DEF F
<1>5. \A q \in Seq(C) : Len(q) \in Nat
  BY EmptyOrNot
<1>6. h \in [Seq(C) -> B]
  BY <1>4, <1>5
<1>7. ASSUME NEW num \in Nat
      PROVE  \A q \in Seq(C) : Len(q) <= num => F[num][q] = h[q]
  <2> DEFINE U == {q \in Seq(C) : \A m \in Nat : Len(q) <= m => F[m][q] = h[q]}
  <2>1. << >> \in U
    <3> SUFFICES ASSUME NEW m \in Nat
                 PROVE  F[m][<< >>] = h[<< >>]
      BY EmptyOrNot
    <3>1. << >> \in Seq(C) /\ Len(<< >>) = 0
      BY EmptyOrNot
    <3>2. \A k \in Nat : F[k][<< >>] = z[<< >>]
      <4> SUFFICES ASSUME NEW k \in Nat
                   PROVE  F[k][<< >>] = z[<< >>]
        OBVIOUS
      <4> DEFINE e == << >>
      <4>1. e \in Seq(C) /\ Len(e) <= k /\ Unrolled(F[k], C, z, S, k) /\ e = << >>
        BY <1>4, <3>1
      <4> HIDE DEF e
      <4>2. F[k][e] = z[e]
        BY <4>1 DEF Unrolled
      <4>3. QED
        BY <4>2 DEF e
    <3>3. QED
      BY <3>1, <3>2
  <2>2. ASSUME NEW q \in Seq(C), q # << >>, Tail(q) \in U
        PROVE  q \in U
    <3> SUFFICES ASSUME NEW m \in Nat, Len(q) <= m
                 PROVE  F[m][q] = h[q]
      OBVIOUS
    <3> DEFINE l == Len(q)
               r == Tail(q)
    <3>1. /\ r \in Seq(C) /\ Len(r) \in Nat /\ Len(r) = l - 1 /\ l \in Nat
          /\ l <= m
      BY <2>2, EmptyOrNot
    <3>2. F[m][q] = S[<<q, F[m][r]>>]
      BY <1>4, <2>2, <3>1 DEF Unrolled
    <3>3. F[l][q] = S[<<q, F[l][r]>>]
      <4>1. Unrolled(F[l], C, z, S, l) /\ Len(q) <= l
        BY <1>4, <3>1
      <4>2. QED
        BY <2>2, <4>1 DEF Unrolled
    <3>4. \A k \in Nat : Len(r) <= k => F[k][r] = h[r]
      BY <2>2
    <3>5. F[m][r] = h[r] /\ F[l][r] = h[r]
      BY <3>1, <3>4
    <3>6. h[q] = F[l][q]
      OBVIOUS
    <3>7. QED
      BY <3>2, <3>3, <3>5, <3>6
  <2> HIDE DEF U
  <2>3. U \subseteq Seq(C)
    BY DEF U
  <2>4. U = Seq(C)
    BY <2>1, <2>2, <2>3, OverSequences
  <2>5. QED
    BY <2>4 DEF U
<1> HIDE DEF h
<1>8. ASSUME NEW q \in Seq(C)
      PROVE  h[q] = IF q = << >> THEN z[q] ELSE S[<<q, h[Tail(q)]>>]
  <2>1. Len(q) \in Nat
    BY <1>5
  <2> DEFINE g == F[Len(q)]
  <2>2. g[q] = h[q]
    BY <1>7, <2>1
  <2>3. g[q] = IF q = << >> THEN z[q] ELSE S[<<q, g[Tail(q)]>>]
    BY <1>4, <2>1 DEF Unrolled
  <2>4. CASE q = << >>
    BY <2>2, <2>3, <2>4
  <2>5. CASE q # << >>
    <3>1. Tail(q) \in Seq(C) /\ Len(Tail(q)) <= Len(q)
      BY <2>1, <2>5, EmptyOrNot
    <3>2. g[Tail(q)] = h[Tail(q)]
      BY <1>7, <2>1, <3>1
    <3>3. QED
      BY <2>2, <2>3, <2>5, <3>2
  <2>6. QED
    BY <2>4, <2>5
<1>9. Unrolls(h, C, z, S)
  BY <1>8 DEF Unrolls
<1>10. QED
  BY <1>6, <1>9

-----------------------------------------------------------------------------
(***************************************************************************)
(* Sequences put together.                                                 *)
(***************************************************************************)

\* A nonempty sequence is its head and its tail.
LEMMA HeadFirst ==
    ASSUME NEW C, NEW q \in Seq(C), q # << >>
    PROVE  q = <<Head(q)>> \o Tail(q)
<1>1. Head(q) \in C /\ Tail(q) \in Seq(C) /\ Len(Tail(q)) = Len(q) - 1
      /\ \A i \in 1 .. Len(Tail(q)) : Tail(q)[i] = q[i + 1]
  BY HeadTailProperties
<1>2. Len(q) \in Nat \ {0}
  BY EmptySeq
<1> DEFINE h == <<Head(q)>>
<1>3. h \in Seq(C) /\ Len(h) = 1 /\ h[1] = q[1]
  BY <1>1
<1> HIDE DEF h
<1>4. h \o Tail(q) \in Seq(C) /\ Len(h \o Tail(q)) = Len(q)
      /\ \A i \in 1 .. Len(q) : (h \o Tail(q))[i] = IF i <= 1 THEN h[i] ELSE Tail(q)[i - 1]
  <2> DEFINE t == Tail(q)
             l == Len(q)
  <2>1. t \in Seq(C) /\ 1 + Len(t) = l /\ Len(h) + Len(t) = l
    BY <1>1, <1>2, <1>3
  <2> HIDE DEF t, l
  <2>2. h \o t \in Seq(C) /\ Len(h \o t) = Len(h) + Len(t)
        /\ \A i \in 1 .. Len(h) + Len(t) : (h \o t)[i] = IF i <= Len(h) THEN h[i] ELSE t[i - Len(h)]
    BY <1>3, <2>1, ConcatProperties
  <2>3. h \o t \in Seq(C) /\ Len(h \o t) = l
        /\ \A i \in 1 .. l : (h \o t)[i] = IF i <= 1 THEN h[i] ELSE t[i - 1]
    BY <1>3, <2>1, <2>2
  <2>4. QED
    BY <2>3 DEF t, l
<1>5. ASSUME NEW i \in 1 .. Len(q)
      PROVE  (h \o Tail(q))[i] = q[i]
  <2>1. CASE i = 1
    BY <1>3, <1>4, <2>1
  <2>2. CASE i # 1
    <3>1. i - 1 \in 1 .. Len(Tail(q)) /\ (i - 1) + 1 = i
      BY <1>1, <1>2, <2>2
    <3>2. QED
      BY <1>1, <1>2, <1>4, <2>2, <3>1
  <2>3. QED
    BY <2>1, <2>2
<1>6. QED
  BY <1>4, <1>5, SeqEqual DEF h

\* The head of two sequences is that of the first, if it has one.
LEMMA HeadOfConcat ==
    ASSUME NEW C, NEW q \in Seq(C), NEW r \in Seq(C), q # << >>
    PROVE  /\ q \o r # << >>
           /\ Head(q \o r) = Head(q)
           /\ Tail(q \o r) = Tail(q) \o r
<1>1. Len(q) \in Nat \ {0} /\ Len(r) \in Nat
  BY EmptySeq, LenProperties
<1>2. /\ q \o r \in Seq(C) /\ Len(q \o r) = Len(q) + Len(r)
      /\ \A i \in 1 .. Len(q) + Len(r) : (q \o r)[i] = IF i <= Len(q) THEN q[i] ELSE r[i - Len(q)]
  BY ConcatProperties
<1>3. q \o r # << >>
  BY <1>1, <1>2, EmptySeq
<1>4. (q \o r)[1] = q[1]
  BY <1>1, <1>2
<1>5. /\ Tail(q) \in Seq(C) /\ Len(Tail(q)) = Len(q) - 1
      /\ \A i \in 1 .. Len(Tail(q)) : Tail(q)[i] = q[i + 1]
  BY HeadTailProperties
<1>6. /\ Tail(q \o r) \in Seq(C) /\ Len(Tail(q \o r)) = Len(q) + Len(r) - 1
      /\ \A i \in 1 .. Len(Tail(q \o r)) : Tail(q \o r)[i] = (q \o r)[i + 1]
  BY <1>2, <1>3, HeadTailProperties
<1>7. /\ Tail(q) \o r \in Seq(C) /\ Len(Tail(q) \o r) = Len(q) - 1 + Len(r)
      /\ \A i \in 1 .. Len(q) - 1 + Len(r) :
           (Tail(q) \o r)[i] = IF i <= Len(q) - 1 THEN Tail(q)[i] ELSE r[i - (Len(q) - 1)]
  <2>1. Len(Tail(q)) + Len(r) = Len(q) - 1 + Len(r)
    BY <1>5
  <2>2. QED
    BY <1>5, <2>1, ConcatProperties
<1>8. ASSUME NEW i \in 1 .. Len(q) + Len(r) - 1
      PROVE  Tail(q \o r)[i] = (Tail(q) \o r)[i]
  <2>1. Tail(q \o r)[i] = (q \o r)[i + 1] /\ i + 1 \in 1 .. Len(q) + Len(r)
    BY <1>1, <1>6
  <2>2. CASE i + 1 <= Len(q)
    <3>1. i \in 1 .. Len(Tail(q)) /\ i <= Len(q) - 1
      BY <1>1, <1>5, <2>2
    <3>2. (q \o r)[i + 1] = q[i + 1]
      BY <1>2, <2>1, <2>2
    <3>3. (Tail(q) \o r)[i] = Tail(q)[i]
      BY <1>1, <1>7, <3>1
    <3>4. QED
      BY <1>5, <2>1, <3>1, <3>2, <3>3
  <2>3. CASE ~(i + 1 <= Len(q))
    <3>1. ~(i <= Len(q) - 1) /\ i + 1 - Len(q) = i - (Len(q) - 1)
      BY <1>1, <2>3
    <3>2. (q \o r)[i + 1] = r[i + 1 - Len(q)]
      BY <1>2, <2>1, <2>3
    <3>3. (Tail(q) \o r)[i] = r[i - (Len(q) - 1)]
      BY <1>1, <1>7, <3>1
    <3>4. QED
      BY <2>1, <3>1, <3>2, <3>3
  <2>4. QED
    BY <2>2, <2>3
<1>9. Tail(q \o r) = Tail(q) \o r
  <2>1. Len(Tail(q \o r)) = Len(Tail(q) \o r)
    BY <1>1, <1>6, <1>7
  <2>2. QED
    BY <1>6, <1>7, <1>8, <2>1, SeqEqual
<1>10. QED
  BY <1>3, <1>4, <1>9

\* A piece that is empty does not show.
LEMMA WithoutEmpty ==
    ASSUME NEW C, NEW f \in Seq(C), NEW p \in Seq(C)
    PROVE  f \o << >> \o p = f \o p /\ f \o p \o << >> = f \o p
<1>1. f \o << >> = f
  BY ConcatEmptySeq
<1>2. f \o p \in Seq(C)
  BY ConcatProperties
<1>3. QED
  BY <1>1, <1>2, ConcatEmptySeq

\* A part cut out of the middle is gone.
LEMMA CutOut ==
    ASSUME NEW C, NEW q \in Seq(C), NEW m \in Seq(C), NEW r \in Seq(C)
    PROVE  LET all == q \o (m \o r)
           IN  /\ Len(all) = Len(q) + Len(m) + Len(r)
               /\ SubSeq(all, 1, Len(q)) = q
               /\ SubSeq(all, Len(q) + Len(m) + 1, Len(all)) = r
<1> DEFINE all == q \o (m \o r)
<1>1. PICK a \in Nat : a = Len(q)
  BY LenProperties
<1>2. PICK b \in Nat : b = Len(m)
  BY LenProperties
<1>3. PICK c \in Nat : c = Len(r)
  BY LenProperties
<1>4. /\ m \o r \in Seq(C) /\ Len(m \o r) = b + c
      /\ \A i \in 1 .. b + c : (m \o r)[i] = IF i <= b THEN m[i] ELSE r[i - b]
  BY <1>2, <1>3, ConcatProperties
<1>5. /\ all \in Seq(C) /\ Len(all) = a + (b + c)
      /\ \A i \in 1 .. a + (b + c) : all[i] = IF i <= a THEN q[i] ELSE (m \o r)[i - a]
  BY <1>1, <1>4, ConcatProperties
<1> HIDE DEF all
<1>6. Len(all) = Len(q) + Len(m) + Len(r)
  BY <1>1, <1>2, <1>3, <1>5
<1>7. \A i \in 1 .. a + (b + c) : all[i] \in C
  BY <1>5, ElementOfSeq
<1>8. SubSeq(all, 1, Len(q)) = q
  <2> DEFINE s == SubSeq(all, 1, a)
  <2>1. /\ s \in Seq(C) /\ Len(s) = IF 1 <= a THEN a - 1 + 1 ELSE 0
        /\ \A i \in 1 .. a - 1 + 1 : s[i] = all[1 + i - 1]
    <3>1. \A i \in 1 .. a : all[i] \in C
      BY <1>7
    <3>2. QED
      BY <3>1, SubSeqProperties
  <2> HIDE DEF s
  <2>2. Len(s) = Len(q)
    BY <1>1, <2>1
  <2>3. ASSUME NEW i \in 1 .. Len(s)
        PROVE  s[i] = q[i]
    <3>1. i \in 1 .. a - 1 + 1 /\ i <= a /\ i \in 1 .. a + (b + c) /\ 1 + i - 1 = i
      BY <1>1, <2>2
    <3>2. QED
      BY <1>5, <2>1, <3>1
  <2>4. s = q
    BY <2>1, <2>2, <2>3, SeqEqual
  <2>5. QED
    BY <1>1, <2>4 DEF s
<1>9. SubSeq(all, Len(q) + Len(m) + 1, Len(all)) = r
  <2> DEFINE s == SubSeq(all, a + b + 1, a + (b + c))
  <2>1. /\ s \in Seq(C)
        /\ Len(s) = IF a + b + 1 <= a + (b + c) THEN a + (b + c) - (a + b + 1) + 1 ELSE 0
        /\ \A i \in 1 .. a + (b + c) - (a + b + 1) + 1 : s[i] = all[a + b + 1 + i - 1]
    <3>1. \A i \in a + b + 1 .. a + (b + c) : all[i] \in C
      BY <1>7
    <3>2. a + b + 1 \in Int /\ a + (b + c) \in Int
      OBVIOUS
    <3> DEFINE m1 == a + b + 1
               m2 == a + (b + c)
    <3> HIDE DEF m1, m2
    <3>3. /\ SubSeq(all, m1, m2) \in Seq(C)
          /\ Len(SubSeq(all, m1, m2)) = IF m1 <= m2 THEN m2 - m1 + 1 ELSE 0
          /\ \A i \in 1 .. m2 - m1 + 1 : SubSeq(all, m1, m2)[i] = all[m1 + i - 1]
      <4>1. m1 \in Int /\ m2 \in Int /\ \A i \in m1 .. m2 : all[i] \in C
        BY <3>1, <3>2 DEF m1, m2
      <4>2. QED
        BY <4>1, SubSeqProperties
    <3>4. QED
      BY <3>3 DEF m1, m2
  <2> HIDE DEF s
  <2>2. Len(s) = Len(r)
    BY <1>3, <2>1
  <2>3. ASSUME NEW i \in 1 .. Len(s)
        PROVE  s[i] = r[i]
    <3>1. /\ i \in 1 .. a + (b + c) - (a + b + 1) + 1 /\ a + b + 1 + i - 1 = a + b + i
          /\ a + b + i \in 1 .. a + (b + c) /\ ~(a + b + i <= a)
          /\ (a + b + i) - a = b + i /\ b + i \in 1 .. b + c /\ ~(b + i <= b)
          /\ (b + i) - b = i
      BY <1>3, <2>2
    <3>2. s[i] = all[a + b + i]
      BY <2>1, <3>1
    <3>3. all[a + b + i] = (m \o r)[b + i]
      BY <1>5, <3>1
    <3>4. (m \o r)[b + i] = r[i]
      BY <1>4, <3>1
    <3>5. QED
      BY <3>2, <3>3, <3>4
  <2>4. s = r
    BY <2>1, <2>2, <2>3, SeqEqual
  <2>5. Len(q) + Len(m) + 1 = a + b + 1 /\ Len(all) = a + (b + c)
    BY <1>1, <1>2, <1>5
  <2>6. QED
    BY <2>4, <2>5 DEF s
<1>10. QED
  BY <1>6, <1>8, <1>9 DEF all

(***************************************************************************)
(* What is left of a sequence behind its first k.                          *)
(***************************************************************************)
Beyond(q, k) == SubSeq(q, k + 1, Len(q))

\* It is the sequence, moved k places.
Moves(C, q, k, n) == /\ Beyond(q, k) \in Seq(C) /\ Len(Beyond(q, k)) = n
                     /\ \A i \in 1 .. n : Beyond(q, k)[i] = q[k + i]

LEMMA BeyondIs ==
    ASSUME NEW C, NEW q \in Seq(C), NEW k \in Nat, NEW n \in Nat, Len(q) = k + n
    PROVE  Moves(C, q, k, n)
<1>1. PICK l \in Nat : l = k + n /\ l = Len(q)
  OBVIOUS
<1>2. \A i \in 1 .. l : q[i] \in C
  BY <1>1, ElementOfSeq
<1>3. PICK m \in Nat : m = k + 1
  OBVIOUS
<1> DEFINE s == SubSeq(q, m, l)
<1>4. /\ s \in Seq(C) /\ Len(s) = IF m <= l THEN l - m + 1 ELSE 0
      /\ \A i \in 1 .. l - m + 1 : s[i] = q[m + i - 1]
  <2>1. m \in Int /\ l \in Int /\ \A i \in m .. l : q[i] \in C
    BY <1>2, <1>3
  <2>2. QED
    BY <2>1, SubSeqProperties
<1>5. s = Beyond(q, k)
  BY <1>1, <1>3 DEF Beyond
<1> HIDE DEF s
<1>6. l - m + 1 = n /\ (m <= l <=> n > 0)
  BY <1>1, <1>3
<1>7. Len(s) = n
  BY <1>4, <1>6
<1>8. ASSUME NEW i \in 1 .. n
      PROVE  s[i] = q[k + i]
  <2>1. i \in 1 .. l - m + 1 /\ m + i - 1 = k + i
    BY <1>3, <1>6
  <2>2. s[i] = q[m + i - 1]
    BY <1>4, <2>1
  <2>3. QED
    BY <2>1, <2>2
<1>9. QED
  BY <1>4, <1>5, <1>7, <1>8 DEF Moves

\* What is appended to the sequence is appended to its rest.
LEMMA BeyondAppend ==
    ASSUME NEW C, NEW q \in Seq(C), NEW d \in C, NEW k \in Nat, k <= Len(q)
    PROVE  /\ Beyond(Append(q, d), k) = Append(Beyond(q, k), d)
           /\ \A i \in 1 .. Len(q) : Append(q, d)[i] = q[i]
<1>1. PICK l \in Nat : l = Len(q)
  BY LenProperties
<1>2. PICK n \in Nat : l = k + n
  <2>1. l - k \in Nat /\ l = k + (l - k)
    BY <1>1
  <2>2. QED
    BY <2>1
<1>3. PICK a \in Seq(C) : a = Append(q, d)
  BY AppendProperties
<1>4. Len(a) = l + 1 /\ a[l + 1] = d /\ \A i \in 1 .. l : a[i] = q[i]
  <2>1. /\ Len(Append(q, d)) = Len(q) + 1 /\ Append(q, d)[Len(q) + 1] = d
        /\ \A i \in 1 .. Len(q) : Append(q, d)[i] = q[i]
    BY AppendProperties
  <2>2. QED
    BY <1>1, <1>3, <2>1
<1>5. PICK r : r = Beyond(q, k)
  OBVIOUS
<1>6. r \in Seq(C) /\ Len(r) = n /\ \A i \in 1 .. n : r[i] = q[k + i]
  <2>1. Len(q) = k + n
    BY <1>1, <1>2
  <2>2. Moves(C, q, k, n)
    BY <2>1, BeyondIs, Zenon
  <2>3. QED
    BY <1>5, <2>2 DEF Moves
<1>7. PICK b : b = Append(r, d)
  OBVIOUS
<1>8. b \in Seq(C) /\ Len(b) = n + 1 /\ b[n + 1] = d /\ \A i \in 1 .. n : b[i] = r[i]
  <2>1. /\ Append(r, d) \in Seq(C) /\ Len(Append(r, d)) = Len(r) + 1
        /\ Append(r, d)[Len(r) + 1] = d
        /\ \A i \in 1 .. Len(r) : Append(r, d)[i] = r[i]
    BY <1>6, AppendProperties
  <2>2. QED
    BY <1>6, <1>7, <2>1
<1>9. PICK w : w = Beyond(a, k)
  OBVIOUS
<1>10. w \in Seq(C) /\ Len(w) = n + 1 /\ \A i \in 1 .. n + 1 : w[i] = a[k + i]
  <2>1. PICK m \in Nat : m = n + 1
    OBVIOUS
  <2>2. Len(a) = k + m
    BY <1>2, <1>4, <2>1
  <2>3. Moves(C, a, k, m)
    BY <2>2, BeyondIs, Zenon
  <2>4. QED
    BY <1>9, <2>1, <2>3 DEF Moves
<1>11. ASSUME NEW i \in 1 .. n + 1
       PROVE  w[i] = b[i]
  <2>1. CASE i = n + 1
    <3>1. k + i = l + 1
      BY <1>2, <2>1
    <3>2. QED
      BY <1>4, <1>8, <1>10, <2>1, <3>1
  <2>2. CASE i # n + 1
    <3>1. i \in 1 .. n /\ k + i \in 1 .. l
      BY <1>2, <2>2
    <3>2. QED
      BY <1>4, <1>6, <1>8, <1>10, <3>1
  <2>3. QED
    BY <2>1, <2>2
<1>12. w = b
  BY <1>8, <1>10, <1>11, SeqEqual
<1>13. QED
  BY <1>1, <1>3, <1>4, <1>5, <1>7, <1>9, <1>12

\* Without its first element the sequence has the same rest, one place on.
LEMMA BeyondTail ==
    ASSUME NEW C, NEW q \in Seq(C), NEW j \in Nat, j < Len(q)
    PROVE  /\ Beyond(Tail(q), j) = Beyond(q, j + 1)
           /\ \A i \in 1 .. j : Tail(q)[i] = q[i + 1]
<1>1. PICK l \in Nat : l = Len(q)
  BY LenProperties
<1>2. PICK n \in Nat : l = (j + 1) + n
  <2>1. l - (j + 1) \in Nat /\ l = (j + 1) + (l - (j + 1))
    BY <1>1
  <2>2. QED
    BY <2>1
<1>3. q # << >>
  BY <1>1, EmptySeq
<1>4. PICK t \in Seq(C) : t = Tail(q)
  BY <1>3, HeadTailProperties
<1>5. Len(t) = l - 1 /\ \A i \in 1 .. l - 1 : t[i] = q[i + 1]
  <2>1. Len(t) = Len(q) - 1 /\ \A i \in 1 .. Len(t) : t[i] = q[i + 1]
    BY <1>3, <1>4, HeadTailProperties
  <2>2. Len(t) = l - 1
    BY <1>1, <2>1
  <2>3. QED
    BY <2>1, <2>2
<1>6. l - 1 = j + n
  BY <1>2
<1>7. PICK w : w = Beyond(t, j)
  OBVIOUS
<1>8. w \in Seq(C) /\ Len(w) = n /\ \A i \in 1 .. n : w[i] = t[j + i]
  <2>1. Len(t) = j + n
    BY <1>5, <1>6
  <2>2. Moves(C, t, j, n)
    BY <2>1, BeyondIs, Zenon
  <2>3. QED
    BY <1>7, <2>2 DEF Moves
<1>9. PICK m \in Nat : m = j + 1
  OBVIOUS
<1>10. PICK r : r = Beyond(q, m)
  OBVIOUS
<1>11. r \in Seq(C) /\ Len(r) = n /\ \A i \in 1 .. n : r[i] = q[m + i]
  <2>1. Len(q) = m + n
    BY <1>1, <1>2, <1>9
  <2>2. Moves(C, q, m, n)
    BY <2>1, BeyondIs, Zenon
  <2>3. QED
    BY <1>10, <2>2 DEF Moves
<1>12. ASSUME NEW i \in 1 .. n
       PROVE  w[i] = r[i]
  <2>1. j + i \in 1 .. l - 1 /\ (j + i) + 1 = m + i
    BY <1>6, <1>9
  <2>2. t[j + i] = q[m + i]
    BY <1>5, <2>1
  <2>3. QED
    BY <1>8, <1>11, <2>2
<1>13. w = r
  BY <1>8, <1>11, <1>12, SeqEqual
<1>14. \A i \in 1 .. j : i \in 1 .. l - 1
  BY <1>6
<1>15. QED
  BY <1>4, <1>5, <1>7, <1>9, <1>10, <1>13, <1>14

\* A rest that is not empty begins with the next element.
LEMMA BeyondLoses ==
    ASSUME NEW C, NEW q \in Seq(C), NEW k \in Nat, k < Len(q)
    PROVE  /\ Beyond(q, k) # << >>
           /\ Head(Beyond(q, k)) = q[k + 1]
           /\ Tail(Beyond(q, k)) = Beyond(q, k + 1)
<1>1. PICK m \in Nat : m = k + 1
  OBVIOUS
<1>2. PICK n \in Nat : Len(q) = m + n /\ Len(q) = k + (n + 1)
  <2>1. PICK l \in Nat : l = Len(q)
    BY LenProperties
  <2>2. l - m \in Nat /\ l = m + (l - m) /\ l = k + ((l - m) + 1)
    BY <1>1, <2>1
  <2>3. QED
    BY <2>1, <2>2
<1>3. PICK r : r = Beyond(q, k)
  OBVIOUS
<1>4. r \in Seq(C) /\ Len(r) = n + 1 /\ \A i \in 1 .. n + 1 : r[i] = q[k + i]
  <2>1. PICK o \in Nat : o = n + 1
    OBVIOUS
  <2>2. Len(q) = k + o
    BY <1>2, <2>1
  <2>3. Moves(C, q, k, o)
    BY <2>2, BeyondIs, Zenon
  <2>4. QED
    BY <1>3, <2>1, <2>3 DEF Moves
<1>5. r # << >>
  BY <1>4, EmptySeq
<1>6. Head(r) = q[k + 1]
  <2>1. 1 \in 1 .. n + 1
    OBVIOUS
  <2>2. r[1] = q[k + 1]
    BY <1>4, <2>1
  <2>3. QED
    BY <2>2
<1>7. PICK t \in Seq(C) : t = Tail(r)
  BY <1>4, <1>5, HeadTailProperties
<1>8. Len(t) = n /\ \A i \in 1 .. n : t[i] = r[i + 1]
  <2>1. Len(t) = Len(r) - 1 /\ \A i \in 1 .. Len(t) : t[i] = r[i + 1]
    BY <1>4, <1>5, <1>7, HeadTailProperties
  <2>2. Len(t) = n
    BY <1>4, <2>1
  <2>3. QED
    BY <2>1, <2>2
<1>9. PICK w : w = Beyond(q, m)
  OBVIOUS
<1>10. w \in Seq(C) /\ Len(w) = n /\ \A i \in 1 .. n : w[i] = q[m + i]
  <2>1. Moves(C, q, m, n)
    BY <1>2, BeyondIs, Zenon
  <2>2. QED
    BY <1>9, <2>1 DEF Moves
<1>11. ASSUME NEW i \in 1 .. n
       PROVE  t[i] = w[i]
  <2>1. i + 1 \in 1 .. n + 1 /\ k + (i + 1) = m + i
    BY <1>1
  <2>2. r[i + 1] = q[m + i]
    BY <1>4, <2>1
  <2>3. QED
    BY <1>8, <1>10, <2>2
<1>12. t = w
  BY <1>8, <1>10, <1>11, SeqEqual
<1>13. QED
  BY <1>1, <1>3, <1>5, <1>6, <1>7, <1>9, <1>12

-----------------------------------------------------------------------------
(***************************************************************************)
(* A circular buffer b of N slots, the oldest of its num words in slot h.  *)
(***************************************************************************)
Slot(h, i, N) == IF h + i < N THEN h + i ELSE h + i - N

Window(b, h, num, N) == [j \in 1 .. num |-> b[Slot(h, j - 1, N)]]

\* They are in C, and in c the word d has been put behind them.
Holds(b, h, num, N, C) == \A i \in 0 .. N - 1 : i < num => b[Slot(h, i, N)] \in C

Puts(b, c, h, num, N, d) ==
    /\ c[Slot(h, num, N)] = d
    /\ \A i \in 0 .. N - 1 : i < num => c[Slot(h, i, N)] = b[Slot(h, i, N)]

\* Its words are a sequence.
LEMMA WindowSeq ==
    ASSUME NEW N \in Nat, NEW h \in 0 .. N - 1, NEW num \in 0 .. N, NEW b, NEW C,
           Holds(b, h, num, N, C)
    PROVE  Window(b, h, num, N) \in Seq(C) /\ Len(Window(b, h, num, N)) = num
<1>1. Window(b, h, num, N) \in [1 .. num -> C]
  <2>1. \A j \in 1 .. num : j - 1 \in 0 .. N - 1 /\ j - 1 < num
    OBVIOUS
  <2>2. \A j \in 1 .. num : b[Slot(h, j - 1, N)] \in C
    BY <2>1 DEF Holds
  <2>3. QED
    BY <2>2 DEF Window
<1>2. Window(b, h, num, N) \in Seq(C)
  BY <1>1, SeqDef
<1>3. QED
  BY <1>1, <1>2, LenProperties

\* The slots are in the buffer, and different.
LEMMA SlotsApart ==
    ASSUME NEW N \in Nat, NEW h \in 0 .. N - 1, NEW num \in 0 .. N - 1
    PROVE  /\ Slot(h, num, N) \in 0 .. N - 1
           /\ \A i \in 0 .. N - 1 : i < num => /\ Slot(h, i, N) \in 0 .. N - 1
                                             /\ Slot(h, i, N) # Slot(h, num, N)
BY DEF Slot

\* Writing the slot after the newest word appends.
LEMMA WindowPut ==
    ASSUME NEW N \in Nat, NEW h \in 0 .. N - 1, NEW num \in 0 .. N - 1, NEW k, k = num + 1,
           NEW b, NEW c, NEW C, NEW d \in C,
           Holds(b, h, num, N, C), Puts(b, c, h, num, N, d)
    PROVE  Window(c, h, k, N) = Append(Window(b, h, num, N), d)
<1> DEFINE s == Window(b, h, num, N)
           w == Window(c, h, k, N)
<1>1. s \in Seq(C) /\ Len(s) = num
  BY WindowSeq
<1>2. /\ Append(s, d) \in Seq(C) /\ Len(Append(s, d)) = num + 1
      /\ \A j \in 1 .. num : Append(s, d)[j] = s[j]
      /\ Append(s, d)[num + 1] = d
  <2> HIDE DEF s
  <2>1. QED
    BY <1>1, AppendProperties
<1>3. \A i \in 0 .. num : c[Slot(h, i, N)] = IF i = num THEN d ELSE b[Slot(h, i, N)]
  BY DEF Puts
<1>4. Holds(c, h, num + 1, N, C)
  BY <1>3 DEF Holds
<1>5. w \in Seq(C) /\ Len(w) = num + 1
  <2>1. num + 1 \in 0 .. N
    OBVIOUS
  <2>2. QED
    BY <1>4, <2>1, WindowSeq
<1>6. ASSUME NEW j \in 1 .. num + 1
      PROVE  w[j] = Append(s, d)[j]
  <2>1. w[j] = c[Slot(h, j - 1, N)] /\ j - 1 \in 0 .. num
    BY DEF Window
  <2>2. CASE j = num + 1
    BY <1>2, <1>3, <2>1, <2>2
  <2>3. CASE j # num + 1
    <3>1. j \in 1 .. num /\ j - 1 # num
      BY <2>3
    <3>2. s[j] = b[Slot(h, j - 1, N)]
      BY <3>1 DEF Window
    <3>3. QED
      BY <1>2, <1>3, <2>1, <3>1, <3>2
  <2>4. QED
    BY <2>2, <2>3
<1> HIDE DEF w, s
<1>7. w = Append(s, d)
  BY <1>2, <1>5, <1>6, SeqEqual
<1>8. QED
  BY <1>7 DEF w, s

\* Moving to the next slot drops the oldest word.
LEMMA WindowGet ==
    ASSUME NEW N \in Nat, NEW h \in 0 .. N - 1, NEW num \in 0 .. N, num > 0,
           NEW b, NEW C,
           Holds(b, h, num, N, C)
    PROVE  LET next == IF h + 1 = N THEN 0 ELSE h + 1
           IN  /\ Window(b, h, num, N) # << >>
               /\ Head(Window(b, h, num, N)) = b[h]
               /\ Window(b, next, num - 1, N) = Tail(Window(b, h, num, N))
<1> DEFINE next == IF h + 1 = N THEN 0 ELSE h + 1
           s == Window(b, h, num, N)
           w == Window(b, next, num - 1, N)
<1>1. s \in Seq(C) /\ Len(s) = num
  BY WindowSeq
<1>2. s # << >>
  <2> HIDE DEF s
  <2>1. QED
    BY <1>1, EmptySeq
<1>3. s[1] = b[h]
  <2>1. Slot(h, 1 - 1, N) = h /\ 1 \in 1 .. num
    BY DEF Slot
  <2>2. QED
    BY <2>1 DEF Window
<1>4. Head(s) = b[h]
  BY <1>3
<1>5. \A i \in 0 .. num - 2 : Slot(next, i, N) = Slot(h, i + 1, N)
  BY DEF Slot
<1>6. Holds(b, next, num - 1, N, C)
  <2> SUFFICES ASSUME NEW i \in 0 .. N - 1, i < num - 1
               PROVE  b[Slot(next, i, N)] \in C
    BY DEF Holds
  <2>1. i + 1 \in 0 .. N - 1 /\ i + 1 < num /\ i \in 0 .. num - 2
    OBVIOUS
  <2>2. b[Slot(h, i + 1, N)] \in C
    BY <2>1 DEF Holds
  <2>3. QED
    BY <1>5, <2>1, <2>2
<1>7. next \in 0 .. N - 1 /\ num - 1 \in 0 .. N
  OBVIOUS
<1>8. \A j \in 1 .. num - 1 : w[j] = s[j + 1]
  <2> SUFFICES ASSUME NEW j \in 1 .. num - 1
               PROVE  w[j] = s[j + 1]
    OBVIOUS
  <2>1. w[j] = b[Slot(next, j - 1, N)]
    BY DEF Window
  <2>2. s[j + 1] = b[Slot(h, (j + 1) - 1, N)] /\ (j + 1) - 1 = j
    BY DEF Window
  <2>3. Slot(next, j - 1, N) = Slot(h, j, N)
    <3>1. j - 1 \in 0 .. num - 2 /\ (j - 1) + 1 = j
      OBVIOUS
    <3>2. QED
      BY <1>5, <3>1
  <2>4. QED
    BY <2>1, <2>2, <2>3
<1> HIDE DEF next
<1>9. w \in Seq(C) /\ Len(w) = num - 1
  BY <1>6, <1>7, WindowSeq
<1> HIDE DEF w, s
<1>10. /\ Tail(s) \in Seq(C) /\ Len(Tail(s)) = num - 1
       /\ \A j \in 1 .. num - 1 : Tail(s)[j] = s[j + 1]
  BY <1>1, <1>2, HeadTailProperties
<1>11. w = Tail(s)
  BY <1>8, <1>9, <1>10, SeqEqual
<1>12. QED
  BY <1>2, <1>4, <1>11 DEF w, s, next
=============================================================================
