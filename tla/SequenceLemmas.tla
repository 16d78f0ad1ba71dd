--------------------------- MODULE SequenceLemmas ---------------------------
(***************************************************************************)
(* Induction over numbers and sequences, and a few facts about both.  The  *)
(* library states induction for an operator; here it is stated for a set,  *)
(* with which a definition by a recursive function can be reasoned about.  *)
(***************************************************************************)
EXTENDS Integers, Subsequences, SequenceTheorems, FiniteSetTheorems, WellFoundedInduction, TLAPS

\* An element added to the end of the second of two sequences is at the end of both.
LEMMA ConcatAppend ==
  ASSUME NEW S, NEW s \in Seq(S), NEW t \in Seq(S), NEW e \in S
  PROVE  s \o Append(t, e) = Append(s \o t, e)
<1> DEFINE u == <<e>>
<1>1. u \in Seq(S) /\ Append(t, e) = t \o u
  BY AppendIsConcat
<1>2. s \o t \in Seq(S) /\ Append(s \o t, e) = (s \o t) \o u
  BY ConcatProperties, AppendIsConcat
<1> HIDE DEF u
<1> QED
  BY <1>1, <1>2, ConcatAssociative, SMTT(30)

\* Induction over the natural numbers, from a set of them: the relation < has a least
\* element on what the set leaves out.
LEMMA SetInduction ==
  ASSUME NEW S, 0 \in S, \A n \in Nat : n \in S => n + 1 \in S
  PROVE  Nat \subseteq S
<1> SUFFICES ASSUME ~(Nat \subseteq S) PROVE FALSE
  OBVIOUS
<1> DEFINE T == Nat \ S
<1> DEFINE R == OpToRel(<, Nat)
<1>1. T \subseteq Nat /\ T # {}
  OBVIOUS
<1>2. IsWellFoundedOn(R, Nat)
  BY NatLessThanWellFounded
<1>3. PICK x \in T : \A y \in T : ~(<<y, x>> \in R)
  <2> HIDE DEF T, R
  <2> QED BY <1>1, <1>2, WFMin
<1>4. x \in Nat /\ x \notin S /\ x # 0
  OBVIOUS
<1>5. x - 1 \in T
  BY <1>4
<1>6. <<x - 1, x>> \in R
  BY <1>4 DEF OpToRel
<1> QED
  BY <1>3, <1>5, <1>6

\* Induction over sequences: a set that holds the empty one, and with each sequence
\* those longer by one element, holds them all.
LEMMA SeqInduction ==
  ASSUME NEW S, NEW G, <<>> \in G, \A s \in Seq(S), e \in S : s \in G => Append(s, e) \in G
  PROVE  Seq(S) \subseteq G
<1> DEFINE H == {n \in Nat : \A s \in Seq(S) : Len(s) = n => s \in G}
<1>1. 0 \in H
  BY EmptySeq
<1>2. ASSUME NEW n \in Nat, n \in H PROVE n + 1 \in H
  <2> SUFFICES ASSUME NEW s \in Seq(S), Len(s) = n + 1 PROVE s \in G
    OBVIOUS
  <2>1. s # <<>>
    BY EmptySeq
  <2>2. PICK t \in Seq(S), e \in S : s = Append(t, e)
    BY <2>1, SequenceEmptyOrAppend
  <2>3. Len(t) \in Nat /\ Len(s) = Len(t) + 1
    BY <2>2, AppendProperties, LenProperties
  <2> QED
    BY <1>2, <2>2, <2>3
<1>3. Nat \subseteq H
  <2> HIDE DEF H
  <2> QED
    BY <1>1, <1>2, SetInduction
<1> QED
  BY <1>3, LenProperties

\* A set of numbers up to l that has 0 has a greatest one.
LEMMA GreatestExists ==
  ASSUME NEW l \in Nat, NEW S, 0 \in S
  PROVE  \E n \in 0 .. l : n \in S /\ \A m \in n + 1 .. l : m \notin S
<1> DEFINE H == {k \in Nat : \E n \in 0 .. k : n \in S /\ \A m \in n + 1 .. k : m \notin S}
<1>1. 0 \in H
  OBVIOUS
<1>2. ASSUME NEW k \in Nat, k \in H PROVE k + 1 \in H
  <2>1. CASE k + 1 \in S
    <3>1. k + 1 \in 0 .. k + 1 /\ \A m \in (k + 1) + 1 .. k + 1 : m \notin S
      OBVIOUS
    <3> QED
      BY <2>1, <3>1
  <2>2. CASE k + 1 \notin S
    <3>1. PICK n \in 0 .. k : n \in S /\ \A m \in n + 1 .. k : m \notin S
      BY <1>2
    <3>2. n \in 0 .. k + 1 /\ \A m \in n + 1 .. k + 1 : m \notin S
      BY <2>2, <3>1
    <3> QED
      BY <3>1, <3>2
  <2> QED
    BY <2>1, <2>2
<1>3. Nat \subseteq H
  <2> HIDE DEF H
  <2> QED
    BY <1>1, <1>2, SetInduction
<1> QED
  BY <1>3

----------------------------------------------------------------------------
(* Flattening: what the recursive function in FlattenSeq computes.         *)

\* What flatten has after i of the sequences of ss.
FlatTo(ss, f) ==
  \A i \in 1 .. Len(ss) : f[i] = IF i = 1 THEN ss[i] ELSE f[i - 1] \o ss[i]

\* What FlattenSeq chooses is determined by its recursion.
LEMMA FlattenIs ==
  ASSUME NEW S, NEW ss \in Seq(Seq(S)), ss # <<>>,
         NEW f, f = [i \in 1 .. Len(ss) |-> f[i]], FlatTo(ss, f)
  PROVE  FlattenSeq(ss) = f[Len(ss)]
<1> DEFINE n == Len(ss)
           Is(g) == g = [i \in 1 .. n |-> IF i = 1 THEN ss[i] ELSE g[i - 1] \o ss[i]]
           h == CHOOSE g : Is(g)
<1>1. n \in Nat \ {0}
  BY EmptySeq
<1>2. Is(f)
  BY DEF FlatTo
<1>3. Is(h)
  <2> HIDE DEF Is
  <2> QED BY <1>2
<1>4. FlattenSeq(ss) = h[n]
  BY <1>1 DEF FlattenSeq
<1>5. /\ \A i \in 1 .. n : h[i] = IF i = 1 THEN ss[i] ELSE h[i - 1] \o ss[i]
      /\ \A i \in 1 .. n : f[i] = IF i = 1 THEN ss[i] ELSE f[i - 1] \o ss[i]
  <2> HIDE DEF h, n
  <2> QED
    BY <1>2, <1>3
<1> DEFINE H == {k \in Nat : k + 1 \in 1 .. n => h[k + 1] = f[k + 1]}
<1> HIDE DEF h, n, Is
<1>6. 0 \in H
  <2>1. 1 \in 1 .. n
    BY <1>1
  <2>2. h[1] = f[1]
    BY <1>5, <2>1
  <2> QED
    BY <2>2
<1>7. ASSUME NEW k \in Nat, k \in H PROVE k + 1 \in H
  <2> SUFFICES ASSUME k + 2 \in 1 .. n PROVE h[k + 2] = f[k + 2]
    BY <1>1
  <2> DEFINE i == k + 2
  <2>1. i \in 1 .. n /\ i # 1 /\ i - 1 = k + 1 /\ k + 1 \in 1 .. n
    BY <1>1
  <2>2. h[i - 1] = f[i - 1]
    BY <1>7, <2>1
  <2> HIDE DEF i
  <2>3. h[i] = f[i]
    BY <1>5, <2>1, <2>2, ZenonT(30)
  <2> QED
    BY <2>3 DEF i
<1>8. Nat \subseteq H
  <2> HIDE DEF H
  <2> QED
    BY <1>6, <1>7, SetInduction
<1>9. n - 1 \in Nat /\ (n - 1) + 1 = n /\ n \in 1 .. n
  BY <1>1
<1>10. h[n] = f[n]
  BY <1>8, <1>9
<1> QED
  BY <1>4, <1>10 DEF n

\* The recursion of FlattenSeq has a solution.
LEMMA FlattenExists ==
  ASSUME NEW S, NEW ss \in Seq(Seq(S))
  PROVE  \E f \in [1 .. Len(ss) -> Seq(S)] : FlatTo(ss, f)
<1> DEFINE G == {rr \in Seq(Seq(S)) : \E f \in [1 .. Len(rr) -> Seq(S)] : FlatTo(rr, f)}
<1>1. <<>> \in G
  <2>1. <<>> \in Seq(Seq(S)) /\ Len(<<>>) = 0
    BY EmptySeq
  <2> DEFINE f == [i \in 1 .. 0 |-> <<>>]
  <2>2. f \in [1 .. 0 -> Seq(S)]
    OBVIOUS
  <2> HIDE DEF f
  <2>3. FlatTo(<<>>, f)
    BY <2>1 DEF FlatTo
  <2> QED
    BY <2>1, <2>2, <2>3
<1>2. ASSUME NEW rr \in Seq(Seq(S)), NEW e \in Seq(S), rr \in G PROVE Append(rr, e) \in G
  <2> DEFINE more == Append(rr, e)
             n == Len(rr)
  <2>1. /\ n \in Nat /\ more \in Seq(Seq(S)) /\ Len(more) = n + 1 /\ more[n + 1] = e
        /\ \A i \in 1 .. n : more[i] = rr[i]
    BY AppendProperties, LenProperties
  <2>2. PICK f \in [1 .. n -> Seq(S)] : FlatTo(rr, f)
    BY <1>2
  <2> DEFINE new == IF n = 0 THEN e ELSE f[n] \o e
             g == [i \in 1 .. n + 1 |-> IF i = n + 1 THEN new ELSE f[i]]
  <2> HIDE DEF more, n
  <2>3. new \in Seq(S)
    BY <2>1, ConcatProperties
  <2>4. g \in [1 .. Len(more) -> Seq(S)]
    <3> HIDE DEF new
    <3> QED
      BY <2>1, <2>3
  <2>5. ASSUME NEW i \in 1 .. Len(more)
        PROVE  g[i] = IF i = 1 THEN more[i] ELSE g[i - 1] \o more[i]
    <3>1. CASE i = n + 1
      BY <2>1, <3>1
    <3>2. CASE i # n + 1
      <4>1. i \in 1 .. n /\ (i # 1 => i - 1 \in 1 .. n /\ i - 1 # n + 1)
        BY <2>1, <3>2
      <4>2. f[i] = IF i = 1 THEN rr[i] ELSE f[i - 1] \o rr[i]
        BY <2>2, <4>1 DEF FlatTo, n
      <4>3. g[i] = f[i] /\ (i # 1 => g[i - 1] = f[i - 1]) /\ more[i] = rr[i]
        BY <2>1, <3>2, <4>1
      <4> HIDE DEF g
      <4> QED
        BY <4>2, <4>3
    <3> QED
      BY <3>1, <3>2
  <2>6. FlatTo(more, g)
    BY <2>5 DEF FlatTo
  <2>7. more \in G
    <3> HIDE DEF g
    <3> QED
      BY <2>1, <2>4, <2>6
  <2> QED
    BY <2>7 DEF more
<1>3. ss \in G
  <2> HIDE DEF G
  <2> QED
    BY <1>1, <1>2, SeqInduction
<1> QED
  BY <1>3

\* FlattenSeq, from the left.
LEMMA FlattenAppend ==
  ASSUME NEW S, NEW ss \in Seq(Seq(S)), NEW e \in Seq(S)
  PROVE  /\ FlattenSeq(<<>>) = <<>> /\ FlattenSeq(ss) \in Seq(S)
         /\ FlattenSeq(Append(ss, e)) = FlattenSeq(ss) \o e
<1> DEFINE more == Append(ss, e)
           n == Len(ss)
<1>1. /\ n \in Nat /\ more \in Seq(Seq(S)) /\ Len(more) = n + 1 /\ more[n + 1] = e /\ more # <<>>
      /\ \A i \in 1 .. n : more[i] = ss[i]
  BY AppendProperties, LenProperties
<1>2. FlattenSeq(<<>>) = <<>>
  BY EmptySeq DEF FlattenSeq
<1>3. PICK f \in [1 .. Len(more) -> Seq(S)] : FlatTo(more, f)
  BY <1>1, FlattenExists
<1>4. FlattenSeq(more) = f[n + 1]
  BY <1>1, <1>3, FlattenIs
<1>5. CASE ss = <<>>
  <2>1. n = 0
    BY <1>5, EmptySeq
  <2>2. FlattenSeq(more) = e
    BY <1>1, <1>3, <1>4, <2>1 DEF FlatTo
  <2> QED
    BY <1>2, <1>5, <2>2, EmptySeq, ConcatEmptySeq
<1>6. CASE ss # <<>>
  <2> DEFINE g == [i \in 1 .. n |-> f[i]]
  <2>1. n \in Nat \ {0}
    BY <1>6, EmptySeq
  <2> HIDE DEF n, more
  <2>2. FlatTo(ss, g)
    <3> SUFFICES ASSUME NEW i \in 1 .. n PROVE g[i] = IF i = 1 THEN ss[i] ELSE g[i - 1] \o ss[i]
      BY DEF FlatTo, n
    <3>1. i \in 1 .. Len(more) /\ (i # 1 => i - 1 \in 1 .. n)
      BY <1>1
    <3>2. f[i] = IF i = 1 THEN more[i] ELSE f[i - 1] \o more[i]
      BY <1>3, <3>1 DEF FlatTo
    <3> QED
      BY <1>1, <3>1, <3>2
  <2>3. g = [i \in 1 .. Len(ss) |-> g[i]]
    BY DEF n
  <2>4. FlattenSeq(ss) = g[n]
    <3> HIDE DEF g
    <3> QED
      BY <1>6, <2>2, <2>3, FlattenIs DEF n
  <2>5. FlattenSeq(ss) = f[n]
    BY <2>1, <2>4
  <2>6. f[n + 1] = f[n] \o e
    <3>1. n + 1 \in 1 .. Len(more) /\ n + 1 # 1 /\ (n + 1) - 1 = n
      BY <1>1, <2>1
    <3> QED
      BY <1>1, <1>3, <3>1 DEF FlatTo
  <2>7. f[n] \in Seq(S)
    BY <1>1, <1>3, <2>1
  <2> QED
    BY <1>2, <1>4, <2>5, <2>6, <2>7 DEF more
<1> QED
  BY <1>5, <1>6

\* FlattenSeq of two sequences in a row.
LEMMA FlattenConcat ==
  ASSUME NEW S, NEW ss \in Seq(Seq(S)), NEW more \in Seq(Seq(S))
  PROVE  FlattenSeq(ss \o more) = FlattenSeq(ss) \o FlattenSeq(more)
<1> DEFINE G == {pp \in Seq(Seq(S)) : FlattenSeq(ss \o pp) = FlattenSeq(ss) \o FlattenSeq(pp)}
<1>1. <<>> \in G
  BY FlattenAppend, ConcatEmptySeq, EmptySeq
<1>2. ASSUME NEW pp \in Seq(Seq(S)), NEW e \in Seq(S), pp \in G PROVE Append(pp, e) \in G
  <2>1. Append(pp, e) \in Seq(Seq(S)) /\ ss \o pp \in Seq(Seq(S)) /\ ss \o Append(pp, e) = Append(ss \o pp, e)
    BY ConcatAppend, AppendProperties, ConcatProperties, SMTT(30)
  <2>2. /\ FlattenSeq(Append(ss \o pp, e)) = FlattenSeq(ss \o pp) \o e
        /\ FlattenSeq(Append(pp, e)) = FlattenSeq(pp) \o e
        /\ FlattenSeq(pp) \in Seq(S) /\ FlattenSeq(ss) \in Seq(S)
    BY <2>1, FlattenAppend
  <2>3. (FlattenSeq(ss) \o FlattenSeq(pp)) \o e = FlattenSeq(ss) \o (FlattenSeq(pp) \o e)
    <3>2. FlattenSeq(ss) \in Seq(S) /\ FlattenSeq(pp) \in Seq(S) /\ e \in Seq(S)
      BY <2>2
    <3> QED
      BY <3>2, ConcatAssociative, SMTT(30)
  <2>4. FlattenSeq(ss \o pp) = FlattenSeq(ss) \o FlattenSeq(pp)
    BY <1>2
  <2> QED
    BY <2>1, <2>2, <2>3, <2>4
<1>3. more \in G
  <2> HIDE DEF G
  <2> QED
    BY <1>1, <1>2, SeqInduction
<1> QED
  BY <1>3

\* SetToSeq gives a sequence of all the elements of a finite set.
LEMMA SetToSeqIs ==
  ASSUME NEW S, IsFiniteSet(S)
  PROVE  /\ Cardinality(S) \in Nat /\ SetToSeq(S) \in [1 .. Cardinality(S) -> S]
         /\ \A x \in S : \E i \in 1 .. Cardinality(S) : SetToSeq(S)[i] = x
<1> DEFINE n == Cardinality(S)
<1>1. n \in Nat /\ ExistsBijection(1 .. n, S)
  BY FS_CardinalityType
<1>2. IsFiniteSet(1 .. n) /\ Cardinality(1 .. n) = n
  BY <1>1, FS_Interval
<1> HIDE DEF n
<1>3. \E f \in [1 .. n -> S] : IsInjective(f)
  BY <1>1 DEF ExistsBijection, Bijection, Injection, IsInjective
<1>4. SetToSeq(S) = CHOOSE f \in [1 .. n -> S] : IsInjective(f)
  BY DEF SetToSeq, n
<1> DEFINE g == SetToSeq(S)
<1>5. g \in [1 .. n -> S] /\ IsInjective(g)
  BY <1>3, <1>4
<1> HIDE DEF g
<1>6. g \in Injection(1 .. n, S)
  BY <1>5 DEF Injection, IsInjective
<1>7. g \in Surjection(1 .. n, S)
  BY <1>2, <1>6, FS_Injection DEF n
<1> QED
  BY <1>1, <1>5, <1>7 DEF Surjection, n, g

----------------------------------------------------------------------------
(* The part of a sequence that is in a set.                                *)

Bits(seq, S) == [i \in 1 .. Len(seq) |-> IF seq[i] \in S THEN <<seq[i]>> ELSE <<>>]

\* What Among flattens: sequences of one element or none.
LEMMA BitsType ==
  ASSUME NEW D, NEW s \in Seq(D), NEW S
  PROVE  Bits(s, S) \in Seq(Seq(D)) /\ Len(Bits(s, S)) = Len(s) /\ Among(s, S) = FlattenSeq(Bits(s, S))
<1> DEFINE n == Len(s)
           b == Bits(s, S)
<1>1. n \in Nat /\ DOMAIN s = 1 .. n
  BY LenProperties
<1>2. \A i \in 1 .. n : s[i] \in D
  BY ElementOfSeq
<1>3. b \in [1 .. n -> Seq(D)]
  <2>1. \A i \in 1 .. n : <<s[i]>> \in Seq(D) /\ <<>> \in Seq(D)
    BY <1>2
  <2> QED
    BY <2>1 DEF Bits
<1>4. b \in Seq(Seq(D)) /\ Len(b) = n
  <2> HIDE DEF b, n
  <2> QED
    BY <1>1, <1>3, IsASeq, LenProperties
<1> QED
  BY <1>1, <1>4 DEF Among, Bits

\* Nothing is among nothing.
LEMMA AmongEmpty ==
  ASSUME NEW S
  PROVE  Among(<<>>, S) = <<>>
<1>1. <<>> \in Seq({}) /\ Len(<<>>) = 0
  BY EmptySeq
<1>2. Bits(<<>>, S) \in Seq(Seq({})) /\ Len(Bits(<<>>, S)) = 0 /\ Among(<<>>, S) = FlattenSeq(Bits(<<>>, S))
  BY <1>1, BitsType
<1>3. Bits(<<>>, S) = <<>>
  BY <1>2, EmptySeq
<1> QED
  BY <1>2, <1>3, EmptySeq DEF FlattenSeq

\* One more element.
LEMMA AmongAppend ==
  ASSUME NEW D, NEW s \in Seq(D), NEW e \in D, NEW S
  PROVE  /\ Among(s, S) \in Seq(D)
         /\ Among(Append(s, e), S) = IF e \in S THEN Append(Among(s, S), e) ELSE Among(s, S)
<1> DEFINE n == Len(s)
           b == Bits(s, S)
           more == Append(s, e)
           last == IF e \in S THEN <<e>> ELSE <<>>
<1>1. n \in Nat /\ b \in Seq(Seq(D)) /\ Len(b) = n /\ Among(s, S) = FlattenSeq(b)
  BY BitsType, LenProperties
<1>2. /\ more \in Seq(D) /\ Len(more) = n + 1 /\ more[n + 1] = e
      /\ \A i \in 1 .. n : more[i] = s[i]
  BY AppendProperties
<1>3. Among(more, S) = FlattenSeq(Bits(more, S)) /\ Bits(more, S) \in Seq(Seq(D)) /\ Len(Bits(more, S)) = n + 1
  <2> HIDE DEF more
  <2> QED
    BY <1>2, BitsType
<1>4. last \in Seq(D)
  OBVIOUS
<1>5. /\ Append(b, last) \in Seq(Seq(D)) /\ Len(Append(b, last)) = n + 1 /\ Append(b, last)[n + 1] = last
      /\ \A i \in 1 .. n : Append(b, last)[i] = b[i]
  <2> HIDE DEF last, b
  <2> QED
    BY <1>1, <1>4, AppendProperties
<1>6. Bits(more, S) = Append(b, last)
  <2>1. ASSUME NEW i \in 1 .. n + 1 PROVE Bits(more, S)[i] = Append(b, last)[i]
    <3>1. Bits(more, S)[i] = IF more[i] \in S THEN <<more[i]>> ELSE <<>>
      <4> HIDE DEF more
      <4> QED
        BY <1>2 DEF Bits
    <3>2. CASE i = n + 1
      <4> HIDE DEF b, more
      <4> QED
        BY <1>2, <1>5, <3>1, <3>2
    <3>3. CASE i \in 1 .. n
      <4>1. b[i] = IF s[i] \in S THEN <<s[i]>> ELSE <<>>
        BY <3>3 DEF Bits
      <4> HIDE DEF b, more
      <4> QED
        BY <1>2, <1>5, <3>1, <3>3, <4>1
    <3> QED
      BY <1>1, <3>2, <3>3
  <2> HIDE DEF more, b, last
  <2> QED
    BY <1>3, <1>5, <2>1, SeqEqual
<1>7. FlattenSeq(b) \in Seq(D) /\ FlattenSeq(Append(b, last)) = FlattenSeq(b) \o last
  <2> HIDE DEF b, last
  <2> QED
    BY <1>1, <1>4, FlattenAppend
<1> DEFINE all == Among(s, S)
<1>9. all \in Seq(D) /\ Among(more, S) = all \o last
  BY <1>1, <1>3, <1>6, <1>7
<1>10. all \o last = IF e \in S THEN Append(all, e) ELSE all
  <2> HIDE DEF all
  <2>1. all \o <<e>> = Append(all, e) /\ all \o <<>> = all
    BY <1>9, AppendIsConcat, ConcatEmptySeq
  <2> QED
    BY <2>1
<1> QED
  BY <1>9, <1>10

\* What is among a sequence is of its elements.
LEMMA AmongType ==
  ASSUME NEW D, NEW s \in Seq(D), NEW S
  PROVE  Among(s, S) \in Seq(D)
<1>1. CASE D = {}
  <2>1. s = <<>>
    BY <1>1, EmptySeq, ElementOfSeq, LenProperties
  <2> QED
    BY <2>1, AmongEmpty
<1>2. CASE D # {}
  BY <1>2, AmongAppend
<1> QED
  BY <1>1, <1>2

\* Two sequences in a row.
LEMMA AmongConcat ==
  ASSUME NEW D, NEW s \in Seq(D), NEW t \in Seq(D), NEW S
  PROVE  Among(s \o t, S) = Among(s, S) \o Among(t, S)
<1> DEFINE G == {r \in Seq(D) : Among(s \o r, S) = Among(s, S) \o Among(r, S)}
<1>1. <<>> \in G
  <2>1. <<>> \in Seq(D) /\ s \o <<>> = s
    BY EmptySeq, ConcatEmptySeq
  <2>2. Among(s, S) \in Seq(D) /\ Among(<<>>, S) = <<>>
    BY AmongType, AmongEmpty
  <2> QED
    BY <2>1, <2>2, ConcatEmptySeq
<1>2. ASSUME NEW r \in Seq(D), NEW e \in D, r \in G PROVE Append(r, e) \in G
  <2>1. /\ Append(r, e) \in Seq(D) /\ s \o r \in Seq(D)
        /\ s \o Append(r, e) = Append(s \o r, e)
    BY AppendProperties, ConcatProperties, ConcatAppend
  <2>2. Among(s, S) \in Seq(D) /\ Among(r, S) \in Seq(D)
    BY AmongAppend
  <2>3. \A q \in Seq(D) : Among(Append(q, e), S) = IF e \in S THEN Append(Among(q, S), e) ELSE Among(q, S)
    <3> TAKE q \in Seq(D)
    <3> HIDE DEF G
    <3> QED
      BY AmongAppend, SMTT(30)
  <2>4. Among(s, S) \o Append(Among(r, S), e) = Append(Among(s, S) \o Among(r, S), e)
    BY <2>2, ConcatAppend
  <2>5. Among(s \o Append(r, e), S) = Among(s, S) \o Among(Append(r, e), S)
    BY <1>2, <2>1, <2>3, <2>4
  <2> QED
    BY <2>1, <2>5
<1>3. t \in G
  <2> HIDE DEF G
  <2> QED
    BY <1>1, <1>2, SeqInduction
<1> QED
  BY <1>3

\* Of two sequences that differ only where neither has an element of the set, the same is
\* kept.
LEMMA AmongMapped ==
  ASSUME NEW D, NEW s \in Seq(D), NEW t \in Seq(D), Len(t) = Len(s), NEW S,
         \A i \in 1 .. Len(s) : t[i] = s[i] \/ (s[i] \notin S /\ t[i] \notin S)
  PROVE  Among(t, S) = Among(s, S)
<1>1. Bits(t, S) = Bits(s, S)
  BY DEF Bits
<1> QED
  BY <1>1, BitsType

\* Only what is in the sequence counts of the set.
LEMMA AmongSame ==
  ASSUME NEW D, NEW s \in Seq(D), NEW S, NEW T, \A i \in 1 .. Len(s) : s[i] \in S <=> s[i] \in T
  PROVE  Among(s, S) = Among(s, T)
<1>1. Bits(s, S) = Bits(s, T)
  BY DEF Bits
<1> QED
  BY <1>1, BitsType

\* A sequence of elements of the set is kept as it is.
LEMMA AmongAll ==
  ASSUME NEW D, NEW s \in Seq(D), NEW S, \A i \in 1 .. Len(s) : s[i] \in S
  PROVE  Among(s, S) = s
<1> DEFINE G == {r \in Seq(D) : Among(r, D) = r}
<1>1. <<>> \in G
  BY AmongEmpty, EmptySeq
<1>2. ASSUME NEW r \in Seq(D), NEW e \in D, r \in G PROVE Append(r, e) \in G
  <2>1. Among(Append(r, e), D) = Append(Among(r, D), e)
    BY AmongAppend
  <2> QED
    BY <1>2, <2>1, AppendProperties
<1>3. s \in G
  <2> HIDE DEF G
  <2> QED
    BY <1>1, <1>2, SeqInduction
<1>4. \A i \in 1 .. Len(s) : s[i] \in D
  BY ElementOfSeq
<1>5. Among(s, S) = Among(s, D)
  BY <1>4, AmongSame
<1> QED
  BY <1>3, <1>5

\* One without such elements is left out altogether.
LEMMA AmongNone ==
  ASSUME NEW D, NEW s \in Seq(D), NEW S, \A i \in 1 .. Len(s) : s[i] \notin S
  PROVE  Among(s, S) = <<>>
<1> DEFINE G == {r \in Seq(D) : Among(r, {}) = <<>>}
<1>1. <<>> \in G
  BY AmongEmpty, EmptySeq
<1>2. ASSUME NEW r \in Seq(D), NEW e \in D, r \in G PROVE Append(r, e) \in G
  <2>1. Among(Append(r, e), {}) = Among(r, {})
    BY AmongAppend
  <2> QED
    BY <1>2, <2>1, AppendProperties
<1>3. s \in G
  <2> HIDE DEF G
  <2> QED
    BY <1>1, <1>2, SeqInduction
<1>4. Among(s, S) = Among(s, {})
  BY AmongSame
<1> QED
  BY <1>3, <1>4

\* Two sets, one after the other.
LEMMA AmongTwice ==
  ASSUME NEW D, NEW s \in Seq(D), NEW S, NEW T
  PROVE  Among(Among(s, S), T) = Among(s, S \cap T)
<1> DEFINE G == {r \in Seq(D) : Among(Among(r, S), T) = Among(r, S \cap T)}
<1>1. <<>> \in G
  BY AmongEmpty, EmptySeq
<1>2. ASSUME NEW r \in Seq(D), NEW e \in D, r \in G PROVE Append(r, e) \in G
  <2> DEFINE q == Among(r, S)
  <2>1. q \in Seq(D) /\ Append(r, e) \in Seq(D)
    BY AmongAppend, AppendProperties
  <2>2. Among(Append(r, e), S) = IF e \in S THEN Append(q, e) ELSE q
    BY AmongAppend
  <2> DEFINE U == S \cap T
  <2>3. Among(Append(r, e), U) = IF e \in U THEN Append(Among(r, U), e) ELSE Among(r, U)
    <3> HIDE DEF U
    <3> QED
      BY AmongAppend
  <2>4. Among(Append(q, e), T) = IF e \in T THEN Append(Among(q, T), e) ELSE Among(q, T)
    <3> HIDE DEF q
    <3> QED
      BY <2>1, AmongAppend
  <2>5. Among(q, T) = Among(r, S \cap T)
    BY <1>2
  <2> HIDE DEF q
  <2>6. Among(Among(Append(r, e), S), T) = Among(Append(r, e), S \cap T)
    <3>1. CASE e \in S
      <4>1. Among(Append(r, e), S) = Append(q, e)
        BY <2>2, <3>1
      <4>2. e \in S \cap T <=> e \in T
        BY <3>1
      <4> QED
        BY <2>3, <2>4, <2>5, <4>1, <4>2
    <3>2. CASE e \notin S
      BY <2>2, <2>3, <2>5, <3>2
    <3> QED
      BY <3>1, <3>2
  <2> QED
    BY <2>1, <2>6
<1>3. s \in G
  <2> HIDE DEF G
  <2> QED
    BY <1>1, <1>2, SeqInduction
<1> QED
  BY <1>3

\* The elements of a sequence with one more.
LEMMA AppendElements ==
  ASSUME NEW D, NEW s \in Seq(D), NEW e \in D
  PROVE  ToSet(Append(s, e)) = ToSet(s) \cup {e}
<1> DEFINE n == Len(s)
           more == Append(s, e)
<1>1. /\ n \in Nat /\ DOMAIN s = 1 .. n /\ DOMAIN more = 1 .. n + 1 /\ more[n + 1] = e
      /\ \A i \in 1 .. n : more[i] = s[i]
  BY AppendProperties, LenProperties
<1> HIDE DEF n, more
<1>2. ASSUME NEW x, x \in ToSet(more) PROVE x \in ToSet(s) \cup {e}
  <2>1. PICK i \in 1 .. n + 1 : x = more[i]
    BY <1>1, <1>2 DEF ToSet
  <2>2. i = n + 1 \/ i \in 1 .. n
    BY <1>1
  <2> QED
    BY <1>1, <2>1, <2>2 DEF ToSet
<1>3. ASSUME NEW x, x \in ToSet(s) \cup {e} PROVE x \in ToSet(more)
  <2>1. n + 1 \in 1 .. n + 1 /\ \A i \in 1 .. n : i \in 1 .. n + 1
    BY <1>1
  <2> QED
    BY <1>1, <1>3, <2>1 DEF ToSet
<1> QED
  BY <1>2, <1>3 DEF more

\* The elements that are kept.
LEMMA AmongElements ==
  ASSUME NEW D, NEW s \in Seq(D), NEW S
  PROVE  ToSet(Among(s, S)) = ToSet(s) \cap S
<1> DEFINE G == {r \in Seq(D) : ToSet(Among(r, S)) = ToSet(r) \cap S}
<1>1. <<>> \in G
  <2>1. ToSet(<<>>) = {}
    BY DEF ToSet
  <2> QED
    BY <2>1, AmongEmpty, EmptySeq
<1>2. ASSUME NEW r \in Seq(D), NEW e \in D, r \in G PROVE Append(r, e) \in G
  <2>1. /\ Among(r, S) \in Seq(D)
        /\ Among(Append(r, e), S) = IF e \in S THEN Append(Among(r, S), e) ELSE Among(r, S)
    BY AmongAppend
  <2>2. ToSet(Append(Among(r, S), e)) = ToSet(Among(r, S)) \cup {e} /\ ToSet(Append(r, e)) = ToSet(r) \cup {e}
    BY <2>1, AppendElements
  <2>3. ToSet(Among(Append(r, e), S)) = ToSet(Append(r, e)) \cap S
    <3>1. CASE e \in S
      BY <1>2, <2>1, <2>2, <3>1
    <3>2. CASE e \notin S
      BY <1>2, <2>1, <2>2, <3>2
    <3> QED
      BY <3>1, <3>2
  <2> QED
    BY <2>3, AppendProperties
<1>3. s \in G
  <2> HIDE DEF G
  <2> QED
    BY <1>1, <1>2, SeqInduction
<1> QED
  BY <1>3

\* A new element at the end: nothing is twice.
LEMMA AppendDistinct ==
  ASSUME NEW D, NEW s \in Seq(D), NEW e \in D
  PROVE  IsInjective(Append(s, e)) <=> IsInjective(s) /\ e \notin ToSet(s)
<1> DEFINE n == Len(s)
           more == Append(s, e)
<1>1. /\ n \in Nat /\ DOMAIN s = 1 .. n /\ DOMAIN more = 1 .. n + 1 /\ more[n + 1] = e
      /\ \A i \in 1 .. n : more[i] = s[i]
  BY AppendProperties, LenProperties
<1> HIDE DEF n, more
<1>2. /\ n + 1 \in 1 .. n + 1 /\ \A i \in 1 .. n : i \in 1 .. n + 1 /\ i # n + 1
      /\ \A i \in 1 .. n + 1 : i = n + 1 \/ i \in 1 .. n
  BY <1>1
<1>3. ASSUME IsInjective(more) PROVE IsInjective(s) /\ e \notin ToSet(s)
  <2>1. IsInjective(s)
    BY <1>1, <1>2, <1>3 DEF IsInjective
  <2>2. ASSUME NEW i \in 1 .. n, s[i] = e PROVE FALSE
    BY <1>1, <1>2, <1>3, <2>2 DEF IsInjective
  <2> QED
    BY <1>1, <2>1, <2>2 DEF ToSet
<1>4. ASSUME IsInjective(s), e \notin ToSet(s) PROVE IsInjective(more)
  <2> SUFFICES ASSUME NEW i \in 1 .. n + 1, NEW j \in 1 .. n + 1, more[i] = more[j] PROVE i = j
    BY <1>1 DEF IsInjective
  <2>1. \A k \in 1 .. n : s[k] # e
    BY <1>1, <1>4 DEF ToSet
  <2>2. CASE i \in 1 .. n /\ j \in 1 .. n
    BY <1>1, <1>4, <2>2 DEF IsInjective
  <2>3. CASE i = n + 1 \/ j = n + 1
    BY <1>1, <1>2, <2>1, <2>3
  <2> QED
    BY <1>2, <2>2, <2>3
<1> QED
  BY <1>3, <1>4 DEF more

\* Nothing is twice in what is kept when nothing was in the sequence.
LEMMA AmongDistinct ==
  ASSUME NEW D, NEW s \in Seq(D), NEW S, IsInjective(s)
  PROVE  IsInjective(Among(s, S))
<1> DEFINE G == {r \in Seq(D) : IsInjective(r) => IsInjective(Among(r, S))}
<1>1. <<>> \in G
  <2>1. IsInjective(<<>>)
    BY DEF IsInjective
  <2> QED
    BY <2>1, AmongEmpty, EmptySeq
<1>2. ASSUME NEW r \in Seq(D), NEW e \in D, r \in G PROVE Append(r, e) \in G
  <2>1. Append(r, e) \in Seq(D)
    BY AppendProperties
  <2> SUFFICES ASSUME IsInjective(Append(r, e)) PROVE IsInjective(Among(Append(r, e), S))
    BY <2>1
  <2>2. IsInjective(r) /\ e \notin ToSet(r)
    BY AppendDistinct
  <2>3. IsInjective(Among(r, S)) /\ e \notin ToSet(Among(r, S))
    BY <1>2, <2>2, AmongElements
  <2>4. /\ Among(r, S) \in Seq(D)
        /\ Among(Append(r, e), S) = IF e \in S THEN Append(Among(r, S), e) ELSE Among(r, S)
    BY AmongAppend
  <2>5. IsInjective(Append(Among(r, S), e))
    BY <2>3, <2>4, AppendDistinct
  <2> QED
    BY <2>3, <2>4, <2>5
<1>3. s \in G
  <2> HIDE DEF G
  <2> QED
    BY <1>1, <1>2, SeqInduction
<1> QED
  BY <1>3

\* A sequence of one element.
LEMMA AmongOne ==
  ASSUME NEW D, NEW e \in D, NEW S
  PROVE  Among(<<e>>, S) = IF e \in S THEN <<e>> ELSE <<>>
<1>1. PICK s \in Seq(D) : s = <<>> /\ Append(s, e) = <<e>>
  <2>1. <<>> \in Seq(D) /\ Append(<<>>, e) = <<e>>
    BY EmptySeq
  <2> QED
    BY <2>1
<1>2. Among(Append(s, e), S) = IF e \in S THEN Append(Among(s, S), e) ELSE Among(s, S)
  BY AmongAppend, SMTT(30)
<1>3. Among(s, S) = <<>>
  BY <1>1, AmongEmpty
<1> QED
  BY <1>1, <1>2, <1>3

\* The first element, and the rest.
LEMMA AmongHead ==
  ASSUME NEW D, NEW s \in Seq(D), s # <<>>, NEW S
  PROVE  /\ Head(s) \in D /\ Tail(s) \in Seq(D) /\ Among(Tail(s), S) \in Seq(D)
         /\ s = <<Head(s)>> \o Tail(s)
         /\ Among(s, S) = IF Head(s) \in S THEN <<Head(s)>> \o Among(Tail(s), S) ELSE Among(Tail(s), S)
<1> DEFINE h == Head(s)
           t == Tail(s)
<1>1. h \in D /\ t \in Seq(D) /\ <<h>> \in Seq(D)
  BY HeadTailProperties
<1>2. s = <<h>> \o t
  <2>1. /\ Len(s) \in Nat \ {0} /\ Len(t) = Len(s) - 1 /\ \A i \in 1 .. Len(t) : t[i] = s[i + 1]
    BY HeadTailProperties, EmptySeq
  <2>2. s[1] = h
    OBVIOUS
  <2>3. /\ <<h>> \o t \in Seq(D) /\ Len(<<h>> \o t) = 1 + Len(t)
        /\ \A i \in 1 .. 1 + Len(t) : (<<h>> \o t)[i] = IF i <= 1 THEN <<h>>[i] ELSE t[i - 1]
    BY <1>1, ConcatProperties
  <2> DEFINE r == <<h>> \o t
  <2> HIDE DEF h, t
  <2>4. ASSUME NEW i \in 1 .. Len(s) PROVE s[i] = r[i]
    <3>1. CASE i = 1
      BY <2>1, <2>2, <2>3, <3>1
    <3>2. CASE i # 1
      BY <2>1, <2>3, <3>2
    <3> QED
      BY <3>1, <3>2
  <2>5. r \in Seq(D) /\ Len(r) = Len(s)
    BY <2>1, <2>3
  <2> HIDE DEF r
  <2>6. s = r
    BY <2>4, <2>5, SeqEqual
  <2> QED
    BY <2>6 DEF r
<1> HIDE DEF h, t
<1> DEFINE u == <<h>>
<1>3. Among(t, S) \in Seq(D)
  BY <1>1, AmongType
<1>4. Among(s, S) = Among(u, S) \o Among(t, S)
  <2> HIDE DEF u
  <2>1. u \in Seq(D) /\ s = u \o t
    BY <1>1, <1>2 DEF u
  <2> QED
    BY <1>1, <2>1, AmongConcat
<1>5. Among(<<h>>, S) = IF h \in S THEN <<h>> ELSE <<>>
  BY <1>1, AmongOne
<1>6. <<>> \o Among(t, S) = Among(t, S)
  BY <1>3, ConcatEmptySeq
<1>7. Among(s, S) = IF h \in S THEN <<h>> \o Among(t, S) ELSE Among(t, S)
  BY <1>4, <1>5, <1>6
<1> QED
  BY <1>1, <1>2, <1>3, <1>7 DEF h, t

\* Where nothing is twice, an element is nowhere else.
LEMMA OnlyOnce ==
  ASSUME NEW D, NEW s \in Seq(D), NEW e \in D, NEW t \in Seq(D), NEW z, z = s \o (<<e>> \o t), IsInjective(z)
  PROVE  (\A i \in 1 .. Len(s) : s[i] # e) /\ (\A i \in 1 .. Len(t) : t[i] # e)
<1> DEFINE r == <<e>> \o t
           all == s \o r
           n == Len(s)
           m == Len(t)
<1>z. IsInjective(all)
  OBVIOUS
<1>1. n \in Nat /\ m \in Nat /\ DOMAIN s = 1 .. n /\ DOMAIN t = 1 .. m
  BY LenProperties
<1>2. /\ r \in Seq(D) /\ Len(r) = 1 + m
      /\ \A i \in 1 .. 1 + m : r[i] = IF i <= 1 THEN <<e>>[i] ELSE t[i - 1]
  BY ConcatProperties
<1>3. /\ all \in Seq(D) /\ Len(all) = n + (1 + m) /\ DOMAIN all = 1 .. n + (1 + m)
      /\ \A i \in 1 .. n + (1 + m) : all[i] = IF i <= n THEN s[i] ELSE r[i - n]
  <2> HIDE DEF r
  <2>1. /\ all \in Seq(D) /\ Len(all) = n + Len(r)
        /\ \A i \in 1 .. n + Len(r) : all[i] = IF i <= n THEN s[i] ELSE r[i - n]
    BY <1>2, ConcatProperties
  <2> HIDE DEF all
  <2>2. DOMAIN all = 1 .. Len(all)
    BY <2>1, LenProperties
  <2> QED
    BY <1>2, <2>1, <2>2
<1> HIDE DEF r, all, n, m
<1>4. all[n + 1] = e
  <2>1. n + 1 \in 1 .. n + (1 + m) /\ ~(n + 1 <= n) /\ (n + 1) - n = 1 /\ 1 \in 1 .. 1 + m
    BY <1>1
  <2> QED
    BY <1>2, <1>3, <2>1
<1>5. \A i \in 1 .. n : s[i] # e
  <2> SUFFICES ASSUME NEW i \in 1 .. n, s[i] = e PROVE FALSE
    OBVIOUS
  <2>1. i \in 1 .. n + (1 + m) /\ n + 1 \in 1 .. n + (1 + m) /\ i # n + 1 /\ i <= n
    BY <1>1
  <2>2. all[i] = s[i]
    BY <1>3, <2>1
  <2> QED
    BY <1>z, <1>3, <1>4, <2>1, <2>2 DEF IsInjective
<1>6. \A i \in 1 .. m : t[i] # e
  <2> SUFFICES ASSUME NEW i \in 1 .. m, t[i] = e PROVE FALSE
    OBVIOUS
  <2> DEFINE k == n + 1 + i
  <2>1. /\ k \in 1 .. n + (1 + m) /\ n + 1 \in 1 .. n + (1 + m) /\ k # n + 1 /\ ~(k <= n)
        /\ k - n = 1 + i /\ 1 + i \in 1 .. 1 + m /\ ~(1 + i <= 1) /\ (1 + i) - 1 = i
    BY <1>1
  <2> HIDE DEF k
  <2>2. all[k] = r[1 + i] /\ r[1 + i] = t[i]
    BY <1>2, <1>3, <2>1
  <2>3. all[k] = all[n + 1] /\ k \in DOMAIN all /\ n + 1 \in DOMAIN all
    BY <1>3, <1>4, <2>1, <2>2
  <2> QED
    BY <1>z, <2>1, <2>3 DEF IsInjective
<1> QED
  BY <1>5, <1>6 DEF n, m
=============================================================================
