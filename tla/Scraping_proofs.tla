---------------------------- MODULE Scraping_proofs ----------------------------
(***************************************************************************)
(* Theorems about Scraping, for sites of any size and content, any number  *)
(* of pages asked for and any number of rejected calls.                    *)
(*                                                                         *)
(* The first half is about texts and sequences alone: what the operators   *)
(* of ScrapedText return, preserve and lose.  Then come the pages of a     *)
(* site, the inductive invariants, and the properties they imply.          *)
(***************************************************************************)
EXTENDS Scraping, TLAPS, SequenceTheorems, WellFoundedInduction

-----------------------------------------------------------------------------
(***************************************************************************)
(* Induction and recursion.  Subsets of Nat have least elements, so what   *)
(* is to be proved by induction is stated as membership in a set.          *)
(***************************************************************************)

\* A set of natural numbers that is not empty has a least element.
LEMMA Least ==
    ASSUME NEW T, T \subseteq Nat, T # {} PROVE \E m \in T : \A k \in T : m <= k
<1> DEFINE R == {pair \in Nat \X Nat : pair[1] < pair[2]}
<1>1. IsWellFoundedOn(R, Nat)
  BY NatLessThanWellFounded DEF OpToRel
<1> HIDE DEF R
<1>2. PICK m \in T : \A k \in T : ~(<<k, m>> \in R)
  BY <1>1, WFMin
<1>3. \A k \in T : k < m => <<k, m>> \in R
  BY DEF R
<1>4. ASSUME NEW k \in T PROVE m <= k
  <2>1. k \in Nat /\ m \in Nat /\ ~(k < m)
    BY <1>2, <1>3
  <2> QED BY <2>1
<1> QED BY <1>4

\* Induction: a set that holds 0 and the successors of its elements holds all.
LEMMA Induct ==
    ASSUME NEW S, 0 \in S, \A n \in Nat : n \in S => n + 1 \in S
    PROVE  Nat \subseteq S
<1> SUFFICES ASSUME Nat \ S # {} PROVE FALSE
  OBVIOUS
<1>1. PICK m \in Nat \ S : \A k \in Nat \ S : m <= k
  BY Least
<1>2. m # 0 /\ m - 1 \in Nat
  BY <1>1
<1>3. m - 1 \in S
  BY <1>1, <1>2
<1> QED BY <1>1, <1>2, <1>3

\* Induction over sequences, by their last element.
LEMMA SeqInduct ==
    ASSUME NEW A, NEW S, <<>> \in S, \A s \in Seq(A), e \in A : s \in S => Append(s, e) \in S
    PROVE  Seq(A) \subseteq S
<1> DEFINE T == {n \in Nat : \A s \in Seq(A) : Len(s) = n => s \in S}
<1>1. 0 \in T
  <2>1. \A s \in Seq(A) : Len(s) = 0 => s = <<>>
    BY EmptySeq
  <2> QED BY <2>1
<1>2. ASSUME NEW n \in Nat, n \in T PROVE n + 1 \in T
  <2> SUFFICES ASSUME NEW s \in Seq(A), Len(s) = n + 1 PROVE s \in S
    OBVIOUS
  <2>1. s # <<>>
    BY EmptySeq
  <2>2. PICK t \in Seq(A), e \in A : s = Append(t, e)
    BY <2>1, SequenceEmptyOrAppend
  <2>3. Len(t) = n
    BY <2>2, AppendProperties, LenProperties
  <2> QED BY <1>2, <2>2, <2>3
<1>3. Nat \subseteq T
  <2> HIDE DEF T
  <2> QED BY <1>1, <1>2, Induct
<1> QED BY <1>3, LenProperties

\* A function defined by recursion on an interval, each value from the one
\* before, satisfies its equation.
OneBack(lo, n, Def(_, _)) ==
    \A g, h : \A i \in lo..n : (i > lo => g[i - 1] = h[i - 1]) => Def(g, i) = Def(h, i)

LEMMA Recursion ==
    ASSUME NEW Def(_, _), NEW lo \in Nat, NEW n \in Nat, NEW f,
           OneBack(lo, n, Def), OpDefinesFcn(f, lo..n, Def)
    PROVE  WFInductiveDefines(f, lo..n, Def)
<1> DEFINE R == {pair \in Nat \X Nat : pair[1] < pair[2]}
<1>1. IsWellFoundedOn(R, lo..n)
  <2>1. IsWellFoundedOn(R, Nat)
    BY NatLessThanWellFounded DEF OpToRel
  <2>2. lo..n \in SUBSET Nat
    OBVIOUS
  <2> HIDE DEF R
  <2> QED BY <2>1, <2>2, IsWellFoundedOnSubset
<1>2. WFDefOn(R, lo..n, Def)
  <2> SUFFICES ASSUME NEW g, NEW h, NEW i \in lo..n, \A j \in SetLessThan(i, R, lo..n) : g[j] = h[j]
               PROVE  Def(g, i) = Def(h, i)
    BY DEF WFDefOn
  <2>1. ASSUME i > lo PROVE g[i - 1] = h[i - 1]
    <3>1. i \in Nat /\ i - 1 \in lo..n /\ i - 1 \in Nat /\ i - 1 < i
      BY <2>1
    <3>2. <<i - 1, i>> \in R
      BY <3>1
    <3> QED BY <3>1, <3>2 DEF SetLessThan
  <2> QED BY <2>1 DEF OneBack
<1> HIDE DEF R
<1> QED BY <1>1, <1>2, WFInductiveDef

-----------------------------------------------------------------------------
\* Flattening.

\* FlattenSeq folds from the left.
LEMMA FlattenRecursion ==
    ASSUME NEW ss, Len(ss) \in Nat, Len(ss) # 0
    PROVE  \E f : /\ f = [i \in 1..Len(ss) |-> IF i = 1 THEN ss[i] ELSE f[i - 1] \o ss[i]]
                  /\ FlattenSeq(ss) = f[Len(ss)]
<1> DEFINE Def(g, i) == IF i = 1 THEN ss[i] ELSE g[i - 1] \o ss[i]
<1>1. PICK f : /\ f = CHOOSE g : g = [i \in 1..Len(ss) |-> Def(g, i)]
               /\ FlattenSeq(ss) = f[Len(ss)]
  BY DEF FlattenSeq
<1>2. OpDefinesFcn(f, 1..Len(ss), Def)
  BY <1>1 DEF OpDefinesFcn
<1>3. OneBack(1, Len(ss), Def)
  BY DEF OneBack
<1>4. WFInductiveDefines(f, 1..Len(ss), Def)
  <2> HIDE DEF Def
  <2> QED BY <1>2, <1>3, Recursion
<1>5. f = [i \in 1..Len(ss) |-> Def(f, i)]
  BY <1>4 DEF WFInductiveDefines
<1>6. FlattenSeq(ss) = f[Len(ss)]
  BY <1>1
<1> QED BY <1>5, <1>6

LEMMA FlattenEmpty == FlattenSeq(<<>>) = <<>>
BY EmptySeq DEF FlattenSeq

\* Another sequence is flattened to the end.
LEMMA FlattenAppend ==
    ASSUME NEW A, NEW ss \in Seq(Seq(A)), NEW s \in Seq(A)
    PROVE  FlattenSeq(ss) \in Seq(A) /\ FlattenSeq(Append(ss, s)) = FlattenSeq(ss) \o s
<1> DEFINE tt == Append(ss, s)
<1>1. tt \in Seq(Seq(A)) /\ Len(tt) = Len(ss) + 1 /\ Len(ss) \in Nat
  BY AppendProperties, LenProperties
<1>0. tt[Len(tt)] = s /\ \A i \in 1..Len(ss) : tt[i] = ss[i]
  BY <1>1, AppendProperties
<1> SUFFICES FlattenSeq(ss) \in Seq(A) /\ FlattenSeq(tt) = FlattenSeq(ss) \o s
  OBVIOUS
<1> HIDE DEF tt
<1>2. PICK g : /\ g = [i \in 1..Len(tt) |-> IF i = 1 THEN tt[i] ELSE g[i - 1] \o tt[i]]
               /\ FlattenSeq(tt) = g[Len(tt)]
  <2>1. Len(tt) \in Nat /\ Len(tt) # 0
    BY <1>1
  <2> QED BY <2>1, FlattenRecursion
<1>3. CASE Len(ss) = 0
  <2>1. ss = <<>> /\ tt[1] = s /\ 1 \in 1..Len(tt)
    BY <1>0, <1>1, <1>3, EmptySeq
  <2>2. g[1] = s /\ FlattenSeq(tt) = g[1]
    BY <1>1, <1>2, <1>3, <2>1
  <2>3. FlattenSeq(ss) = <<>> /\ <<>> \in Seq(A) /\ <<>> \o s = s
    BY <2>1, FlattenEmpty, ConcatEmptySeq
  <2> QED BY <2>2, <2>3
<1>4. CASE Len(ss) # 0
  <2>1. PICK f : /\ f = [i \in 1..Len(ss) |-> IF i = 1 THEN ss[i] ELSE f[i - 1] \o ss[i]]
                 /\ FlattenSeq(ss) = f[Len(ss)]
    BY <1>1, <1>4, FlattenRecursion
  <2> DEFINE T == {n \in Nat : n + 1 \in 1..Len(ss) => f[n + 1] \in Seq(A) /\ f[n + 1] = g[n + 1]}
  <2>2. \A i \in 1..Len(ss) : ss[i] \in Seq(A) /\ tt[i] = ss[i]
    BY <1>0, ElementOfSeq
  <2>3. 0 \in T
    BY <1>1, <1>2, <2>1, <2>2
  <2>4. ASSUME NEW n \in Nat, n \in T PROVE n + 1 \in T
    <3> SUFFICES ASSUME (n + 1) + 1 \in 1..Len(ss)
                 PROVE  f[(n + 1) + 1] \in Seq(A) /\ f[(n + 1) + 1] = g[(n + 1) + 1]
      OBVIOUS
    <3>1. /\ n + 1 \in 1..Len(ss) /\ (n + 1) + 1 \in 1..Len(tt) /\ (n + 1) + 1 # 1
          /\ ((n + 1) + 1) - 1 = n + 1
      BY <1>1
    <3>2. f[(n + 1) + 1] = f[n + 1] \o ss[(n + 1) + 1] /\ g[(n + 1) + 1] = g[n + 1] \o tt[(n + 1) + 1]
      BY <1>2, <2>1, <3>1
    <3> QED BY <2>2, <2>4, <3>1, <3>2, ConcatProperties
  <2>5. Nat \subseteq T
    <3> HIDE DEF T
    <3> QED BY <2>3, <2>4, Induct
  <2>6. f[Len(ss)] \in Seq(A) /\ f[Len(ss)] = g[Len(ss)]
    <3>1. PICK n \in Nat : n + 1 = Len(ss)
      <4>1. Len(ss) - 1 \in Nat /\ (Len(ss) - 1) + 1 = Len(ss)
        BY <1>1, <1>4
      <4> QED BY <4>1
    <3>2. n \in T /\ n + 1 \in 1..Len(ss)
      BY <2>5, <3>1
    <3> QED BY <3>1, <3>2
  <2>7. g[Len(tt)] = g[Len(ss)] \o s
    <3>1. Len(tt) \in 1..Len(tt) /\ Len(tt) # 1 /\ Len(tt) - 1 = Len(ss)
      BY <1>1, <1>4
    <3> QED BY <1>0, <1>2, <3>1
  <2> QED BY <1>2, <2>1, <2>6, <2>7
<1> QED BY <1>3, <1>4

\* What it takes to be a sequence with one more element.
LEMMA IsAppend ==
    ASSUME NEW B, NEW m \in Seq(B), NEW b \in B, NEW n, n = [i \in 1..(Len(m) + 1) |-> n[i]],
           \A i \in 1..Len(m) : n[i] = m[i], n[Len(m) + 1] = b
    PROVE  n = Append(m, b)
<1>1. Len(m) \in Nat /\ Append(m, b) \in Seq(B) /\ Len(Append(m, b)) = Len(m) + 1
  BY AppendProperties, LenProperties
<1>2. \A i \in 1..(Len(m) + 1) : n[i] = Append(m, b)[i] /\ n[i] \in B
  BY <1>1, AppendProperties, ElementOfSeq
<1>3. Append(m, b) = [i \in 1..(Len(m) + 1) |-> Append(m, b)[i]]
  BY <1>1, LenProperties
<1> QED BY <1>2, <1>3

\* A sequence that is mapped is appended to as the image is.
LEMMA ConcatAppend ==
    ASSUME NEW A, NEW s \in Seq(A), NEW t \in Seq(A), NEW e \in A
    PROVE  s \o Append(t, e) = Append(s \o t, e)
<1>1. Append(t, e) = t \o <<e>> /\ <<e>> \in Seq(A) /\ s \o t \in Seq(A)
  BY AppendIsConcat, ConcatProperties
<1> QED BY <1>1, AppendIsConcat, ConcatAssociative

\* The elements of what is flattened are those of the parts.
LEMMA FlattenType ==
    ASSUME NEW A, NEW ss \in Seq(Seq(A)) PROVE FlattenSeq(ss) \in Seq(A)
<1>1. <<>> \in Seq(A)
  BY EmptySeq
<1> QED BY <1>1, FlattenAppend

LEMMA FlattenOne ==
    ASSUME NEW A, NEW s \in Seq(A) PROVE FlattenSeq(<<s>>) = s
<1>1. <<>> \in Seq(Seq(A)) /\ Append(<<>>, s) = <<s>>
  BY EmptySeq
<1>2. FlattenSeq(Append(<<>>, s)) = FlattenSeq(<<>>) \o s
  BY <1>1, FlattenAppend
<1>3. FlattenSeq(<<>>) \o s = s
  BY FlattenEmpty, ConcatEmptySeq
<1> QED BY <1>1, <1>2, <1>3

\* Flattening distributes over concatenation.
LEMMA FlattenConcat ==
    ASSUME NEW A, NEW ss \in Seq(Seq(A)), NEW tt \in Seq(Seq(A))
    PROVE  FlattenSeq(ss \o tt) = FlattenSeq(ss) \o FlattenSeq(tt)
<1> DEFINE S == {t \in Seq(Seq(A)) : FlattenSeq(ss \o t) = FlattenSeq(ss) \o FlattenSeq(t)}
<1>1. <<>> \in S
  BY FlattenEmpty, FlattenType, EmptySeq, ConcatEmptySeq
<1>2. ASSUME NEW t \in Seq(Seq(A)), NEW e \in Seq(A), t \in S PROVE Append(t, e) \in S
  <2>1. Append(t, e) \in Seq(Seq(A)) /\ ss \o t \in Seq(Seq(A)) /\ ss \o Append(t, e) = Append(ss \o t, e)
    BY AppendProperties, ConcatProperties, ConcatAppend
  <2>2. FlattenSeq(ss \o Append(t, e)) = FlattenSeq(ss \o t) \o e
    BY <2>1, FlattenAppend
  <2>3. FlattenSeq(Append(t, e)) = FlattenSeq(t) \o e
    BY FlattenAppend
  <2>4. (FlattenSeq(ss) \o FlattenSeq(t)) \o e = FlattenSeq(ss) \o (FlattenSeq(t) \o e)
    BY FlattenType, ConcatAssociative
  <2> QED BY <1>2, <2>1, <2>2, <2>3, <2>4
<1>3. Seq(Seq(A)) \subseteq S
  <2> HIDE DEF S
  <2> QED BY <1>1, <1>2, SeqInduct
<1> QED BY <1>3

\* Flattening from the inside or from the outside.
FlattenEach(sss) == [i \in DOMAIN sss |-> FlattenSeq(sss[i])]

LEMMA FlattenEachAppend ==
    ASSUME NEW A, NEW sss \in Seq(Seq(Seq(A))), NEW ss \in Seq(Seq(A))
    PROVE  /\ FlattenEach(sss) \in Seq(Seq(A))
           /\ FlattenEach(Append(sss, ss)) = Append(FlattenEach(sss), FlattenSeq(ss))
<1>1. FlattenEach(sss) \in Seq(Seq(A)) /\ Len(FlattenEach(sss)) = Len(sss)
  <2>1. \A i \in DOMAIN sss : FlattenSeq(sss[i]) \in Seq(A)
    BY ElementOfSeq, LenProperties, FlattenType
  <2>2. DOMAIN sss = 1..Len(sss) /\ Len(sss) \in Nat
    BY LenProperties
  <2> QED BY <2>1, <2>2 DEF FlattenEach
<1> DEFINE tt == Append(sss, ss)
<1>2. /\ DOMAIN tt = 1..(Len(sss) + 1) /\ Len(sss) \in Nat
      /\ \A i \in 1..Len(sss) : tt[i] = sss[i] /\ i \in DOMAIN sss /\ i \in DOMAIN tt
      /\ tt[Len(sss) + 1] = ss /\ Len(sss) + 1 \in DOMAIN tt
  BY AppendProperties, LenProperties
<1>3. FlattenSeq(ss) \in Seq(A)
  BY FlattenType
<1> HIDE DEF tt
<1>4. FlattenEach(tt) = Append(FlattenEach(sss), FlattenSeq(ss))
  <2>1. FlattenEach(tt) = [i \in 1..(Len(sss) + 1) |-> FlattenEach(tt)[i]]
    BY <1>2 DEF FlattenEach
  <2>2. \A i \in 1..Len(sss) : FlattenEach(tt)[i] = FlattenEach(sss)[i]
    BY <1>2 DEF FlattenEach
  <2>3. FlattenEach(tt)[Len(sss) + 1] = FlattenSeq(ss)
    BY <1>2 DEF FlattenEach
  <2> QED BY <1>1, <1>3, <2>1, <2>2, <2>3, IsAppend
<1> QED BY <1>1, <1>4 DEF tt

\* What is flattened twice may be flattened inside first.
LEMMA FlattenFlatten ==
    ASSUME NEW A, NEW sss \in Seq(Seq(Seq(A)))
    PROVE  FlattenSeq(FlattenSeq(sss)) = FlattenSeq(FlattenEach(sss))
<1> DEFINE S == {t \in Seq(Seq(Seq(A))) : FlattenSeq(FlattenSeq(t)) = FlattenSeq(FlattenEach(t))}
<1>1. <<>> \in S
  <2>1. FlattenEach(<<>>) = <<>>
    BY DEF FlattenEach
  <2> QED BY <2>1, FlattenEmpty, EmptySeq
<1>2. ASSUME NEW t \in Seq(Seq(Seq(A))), NEW e \in Seq(Seq(A)), t \in S PROVE Append(t, e) \in S
  <2>1. Append(t, e) \in Seq(Seq(Seq(A))) /\ FlattenSeq(t) \in Seq(Seq(A)) /\ FlattenSeq(e) \in Seq(A)
    BY AppendProperties, FlattenType
  <2>2. FlattenSeq(FlattenSeq(Append(t, e))) = FlattenSeq(FlattenSeq(t)) \o FlattenSeq(e)
    <3>1. FlattenSeq(Append(t, e)) = FlattenSeq(t) \o e
      <4>1. t \in Seq(Seq(Seq(A))) /\ e \in Seq(Seq(A))
        OBVIOUS
      <4> HIDE DEF S
      <4> QED BY <4>1, FlattenAppend
    <3>2. FlattenSeq(FlattenSeq(t) \o e) = FlattenSeq(FlattenSeq(t)) \o FlattenSeq(e)
      BY <2>1, FlattenConcat
    <3> QED BY <3>1, <3>2
  <2>3. FlattenSeq(FlattenEach(Append(t, e))) = FlattenSeq(FlattenEach(t)) \o FlattenSeq(e)
    <3>1. /\ FlattenEach(t) \in Seq(Seq(A))
          /\ FlattenEach(Append(t, e)) = Append(FlattenEach(t), FlattenSeq(e))
      BY FlattenEachAppend
    <3>2. FlattenSeq(Append(FlattenEach(t), FlattenSeq(e))) = FlattenSeq(FlattenEach(t)) \o FlattenSeq(e)
      BY <2>1, <3>1, FlattenAppend
    <3> QED BY <3>1, <3>2
  <2> QED BY <1>2, <2>1, <2>2, <2>3
<1>3. Seq(Seq(Seq(A))) \subseteq S
  <2> HIDE DEF S
  <2> QED BY <1>1, <1>2, SeqInduct
<1> QED BY <1>3

-----------------------------------------------------------------------------
\* Leaving elements out.

\* Whether an element is left out does not depend on those before it.
LEMMA WithoutAppend ==
    ASSUME NEW A, NEW s \in Seq(A), NEW e \in A, NEW S
    PROVE  /\ Without(s, S) \in Seq(A)
           /\ Without(Append(s, e), S) = IF e \in S THEN Without(s, S) ELSE Append(Without(s, S), e)
<1> DEFINE One(x) == IF x \in S THEN <<>> ELSE <<x>>
           m == [i \in DOMAIN s |-> One(s[i])]
           n == [i \in DOMAIN Append(s, e) |-> One(Append(s, e)[i])]
<1>1. \A x \in A : One(x) \in Seq(A)
  BY EmptySeq
<1>2. /\ DOMAIN s = 1..Len(s) /\ DOMAIN Append(s, e) = 1..(Len(s) + 1) /\ Len(s) \in Nat
      /\ \A i \in 1..Len(s) : s[i] \in A /\ Append(s, e)[i] = s[i]
      /\ Append(s, e)[Len(s) + 1] = e
  BY AppendProperties, LenProperties, ElementOfSeq
<1>3. m \in Seq(Seq(A)) /\ Len(m) = Len(s)
  BY <1>1, <1>2
<1>4. n = Append(m, One(e))
  <2>1. n = [i \in 1..(Len(m) + 1) |-> n[i]] /\ \A i \in 1..Len(m) : n[i] = m[i]
    BY <1>2, <1>3
  <2>2. n[Len(m) + 1] = One(e) /\ One(e) \in Seq(A)
    BY <1>1, <1>2, <1>3
  <2> HIDE DEF n, m, One
  <2> QED BY <1>3, <2>1, <2>2, IsAppend
<1>5. Without(s, S) = FlattenSeq(m) /\ Without(Append(s, e), S) = FlattenSeq(n)
  BY DEF Without
<1>6. FlattenSeq(m) \in Seq(A) /\ FlattenSeq(n) = FlattenSeq(m) \o One(e)
  <2> HIDE DEF n, m, One
  <2> QED BY <1>1, <1>3, <1>4, FlattenAppend
<1> HIDE DEF n, m
<1> QED BY <1>5, <1>6, ConcatEmptySeq, AppendIsConcat

LEMMA WithoutEmpty == ASSUME NEW S PROVE Without(<<>>, S) = <<>>
<1>1. [i \in DOMAIN <<>> |-> IF <<>>[i] \in S THEN <<>> ELSE << <<>>[i] >>] = <<>>
  OBVIOUS
<1> QED BY <1>1, FlattenEmpty DEF Without

\* Nothing is added.
LEMMA WithoutType ==
    ASSUME NEW A, NEW s \in Seq(A), NEW S PROVE Without(s, S) \in Seq(A)
<1>1. CASE s = <<>>
  BY <1>1, WithoutEmpty, EmptySeq
<1>2. CASE s # <<>>
  <2>1. s[1] \in A
    BY <1>2, EmptySeq, ElementOfSeq
  <2> QED BY <2>1, WithoutAppend
<1> QED BY <1>1, <1>2

\* Leaving out distributes over concatenation ...
LEMMA WithoutConcat ==
    ASSUME NEW A, NEW s \in Seq(A), NEW t \in Seq(A), NEW S
    PROVE  Without(s \o t, S) = Without(s, S) \o Without(t, S)
<1> DEFINE T == {u \in Seq(A) : Without(s \o u, S) = Without(s, S) \o Without(u, S)}
<1>1. <<>> \in T
  BY WithoutEmpty, WithoutType, EmptySeq, ConcatEmptySeq
<1>2. ASSUME NEW u \in Seq(A), NEW e \in A, u \in T PROVE Append(u, e) \in T
  <2>1. Append(u, e) \in Seq(A) /\ s \o u \in Seq(A) /\ s \o Append(u, e) = Append(s \o u, e)
    BY AppendProperties, ConcatProperties, ConcatAppend
  <2>2. Without(s, S) \in Seq(A) /\ Without(u, S) \in Seq(A)
    BY WithoutType
  <2>3. Without(s \o Append(u, e), S) =
           IF e \in S THEN Without(s \o u, S) ELSE Append(Without(s \o u, S), e)
    <3>1. Without(Append(s \o u, e), S) =
             IF e \in S THEN Without(s \o u, S) ELSE Append(Without(s \o u, S), e)
      <4> DEFINE v == s \o u
      <4>1. v \in Seq(A)
        BY <2>1
      <4> HIDE DEF v
      <4>2. Without(Append(v, e), S) = IF e \in S THEN Without(v, S) ELSE Append(Without(v, S), e)
        BY <4>1, WithoutAppend
      <4> QED BY <4>2 DEF v
    <3> QED BY <2>1, <3>1
  <2>4. Without(Append(u, e), S) = IF e \in S THEN Without(u, S) ELSE Append(Without(u, S), e)
    BY WithoutAppend
  <2>5. Without(s, S) \o Append(Without(u, S), e) = Append(Without(s, S) \o Without(u, S), e)
    BY <2>2, ConcatAppend
  <2> QED BY <1>2, <2>1, <2>3, <2>4, <2>5
<1>3. Seq(A) \subseteq T
  <2> HIDE DEF T
  <2> QED BY <1>1, <1>2, SeqInduct
<1> QED BY <1>3

\* Texts that are left out are missed by nobody if they are empty ...
WithoutEach(ss, S) == [i \in DOMAIN ss |-> Without(ss[i], S)]

LEMMA WithoutEachAppend ==
    ASSUME NEW A, NEW ss \in Seq(Seq(A)), NEW s \in Seq(A), NEW S
    PROVE  /\ WithoutEach(ss, S) \in Seq(Seq(A))
           /\ WithoutEach(Append(ss, s), S) = Append(WithoutEach(ss, S), Without(s, S))
<1>1. WithoutEach(ss, S) \in Seq(Seq(A)) /\ Len(WithoutEach(ss, S)) = Len(ss)
  <2>1. \A i \in DOMAIN ss : Without(ss[i], S) \in Seq(A)
    BY ElementOfSeq, LenProperties, WithoutType
  <2>2. DOMAIN ss = 1..Len(ss) /\ Len(ss) \in Nat
    BY LenProperties
  <2> QED BY <2>1, <2>2 DEF WithoutEach
<1> DEFINE tt == Append(ss, s)
<1>2. /\ DOMAIN tt = 1..(Len(ss) + 1) /\ Len(ss) \in Nat
      /\ \A i \in 1..Len(ss) : tt[i] = ss[i] /\ i \in DOMAIN ss /\ i \in DOMAIN tt
      /\ tt[Len(ss) + 1] = s /\ Len(ss) + 1 \in DOMAIN tt
  BY AppendProperties, LenProperties
<1>3. Without(s, S) \in Seq(A)
  BY WithoutType
<1> HIDE DEF tt
<1>4. WithoutEach(tt, S) = Append(WithoutEach(ss, S), Without(s, S))
  <2>1. WithoutEach(tt, S) = [i \in 1..(Len(ss) + 1) |-> WithoutEach(tt, S)[i]]
    BY <1>2 DEF WithoutEach
  <2>2. \A i \in 1..Len(ss) : WithoutEach(tt, S)[i] = WithoutEach(ss, S)[i]
    BY <1>2 DEF WithoutEach
  <2>3. WithoutEach(tt, S)[Len(ss) + 1] = Without(s, S)
    BY <1>2 DEF WithoutEach
  <2> QED BY <1>1, <1>3, <2>1, <2>2, <2>3, IsAppend
<1> QED BY <1>1, <1>4 DEF tt

\* ... and over flattening.
LEMMA WithoutFlatten ==
    ASSUME NEW A, NEW ss \in Seq(Seq(A)), NEW S
    PROVE  Without(FlattenSeq(ss), S) = FlattenSeq(WithoutEach(ss, S))
<1> DEFINE T == {t \in Seq(Seq(A)) : Without(FlattenSeq(t), S) = FlattenSeq(WithoutEach(t, S))}
<1>1. <<>> \in T
  <2>1. WithoutEach(<<>>, S) = <<>>
    BY DEF WithoutEach
  <2> QED BY <2>1, FlattenEmpty, WithoutEmpty, EmptySeq
<1>2. ASSUME NEW t \in Seq(Seq(A)), NEW e \in Seq(A), t \in T PROVE Append(t, e) \in T
  <2>1. Append(t, e) \in Seq(Seq(A)) /\ FlattenSeq(t) \in Seq(A) /\ Without(e, S) \in Seq(A)
    BY AppendProperties, FlattenType, WithoutType
  <2>2. Without(FlattenSeq(Append(t, e)), S) = Without(FlattenSeq(t), S) \o Without(e, S)
    <3>1. FlattenSeq(Append(t, e)) = FlattenSeq(t) \o e
      BY FlattenAppend
    <3>2. Without(FlattenSeq(t) \o e, S) = Without(FlattenSeq(t), S) \o Without(e, S)
      BY <2>1, WithoutConcat
    <3> QED BY <3>1, <3>2
  <2>3. FlattenSeq(WithoutEach(Append(t, e), S)) = FlattenSeq(WithoutEach(t, S)) \o Without(e, S)
    <3>1. /\ WithoutEach(t, S) \in Seq(Seq(A))
          /\ WithoutEach(Append(t, e), S) = Append(WithoutEach(t, S), Without(e, S))
      BY WithoutEachAppend
    <3>2. FlattenSeq(Append(WithoutEach(t, S), Without(e, S))) = FlattenSeq(WithoutEach(t, S)) \o Without(e, S)
      BY <2>1, <3>1, FlattenAppend
    <3> QED BY <3>1, <3>2
  <2> QED BY <1>2, <2>1, <2>2, <2>3
<1>3. Seq(Seq(A)) \subseteq T
  <2> HIDE DEF T
  <2> QED BY <1>1, <1>2, SeqInduct
<1> QED BY <1>3

-----------------------------------------------------------------------------
\* Joining.

\* The parts, each after its separator.
Led(parts, sep) == [i \in DOMAIN parts |-> <<sep>> \o parts[i]]

\* The first element taken off a concatenation is that of its first part.
LEMMA TailConcat ==
    ASSUME NEW A, NEW s \in Seq(A), s # <<>>, NEW t \in Seq(A)
    PROVE  Tail(s \o t) = Tail(s) \o t
<1>1. /\ s \o t \in Seq(A) /\ Len(s \o t) = Len(s) + Len(t) /\ Len(s) \in Nat /\ Len(t) \in Nat /\ Len(s) # 0
      /\ \A i \in 1..(Len(s) + Len(t)) : (s \o t)[i] = IF i <= Len(s) THEN s[i] ELSE t[i - Len(s)]
  BY ConcatProperties, LenProperties, EmptySeq
<1>2. /\ Tail(s) \in Seq(A) /\ Len(Tail(s)) = Len(s) - 1
      /\ \A i \in 1..Len(Tail(s)) : Tail(s)[i] = s[i + 1]
  BY HeadTailProperties
<1>3. s \o t # <<>>
  BY <1>1, EmptySeq
<1>4. /\ Tail(s \o t) \in Seq(A) /\ Len(Tail(s \o t)) = Len(s \o t) - 1
      /\ \A i \in 1..Len(Tail(s \o t)) : Tail(s \o t)[i] = (s \o t)[i + 1]
  BY <1>1, <1>3, HeadTailProperties
<1>5. /\ Tail(s) \o t \in Seq(A) /\ Len(Tail(s) \o t) = Len(s) - 1 + Len(t)
      /\ \A i \in 1..(Len(s) - 1 + Len(t)) :
            (Tail(s) \o t)[i] = IF i <= Len(s) - 1 THEN s[i + 1] ELSE t[i - (Len(s) - 1)]
  BY <1>1, <1>2, ConcatProperties
<1>6. \A i \in 1..(Len(s) - 1 + Len(t)) : Tail(s \o t)[i] = (Tail(s) \o t)[i]
  <2> SUFFICES ASSUME NEW i \in 1..(Len(s) - 1 + Len(t)) PROVE Tail(s \o t)[i] = (Tail(s) \o t)[i]
    OBVIOUS
  <2>1. i + 1 \in 1..(Len(s) + Len(t)) /\ i \in 1..Len(Tail(s \o t))
    BY <1>1, <1>4
  <2>2. Tail(s \o t)[i] = IF i + 1 <= Len(s) THEN s[i + 1] ELSE t[(i + 1) - Len(s)]
    BY <1>1, <1>4, <2>1
  <2>3. (i + 1) - Len(s) = i - (Len(s) - 1) /\ (i + 1 <= Len(s) <=> i <= Len(s) - 1)
    BY <1>1
  <2> QED BY <1>5, <2>2, <2>3
<1>7. Len(Tail(s \o t)) = Len(s) - 1 + Len(t)
  BY <1>1, <1>4
<1> QED BY <1>4, <1>5, <1>6, <1>7, SeqEqual

\* One more part is one more separator and the part.
LEMMA LedAppend ==
    ASSUME NEW A, NEW ps \in Seq(Seq(A)), NEW p \in Seq(A), NEW sep \in A
    PROVE  /\ Led(ps, sep) \in Seq(Seq(A))
           /\ Led(Append(ps, p), sep) = Append(Led(ps, sep), <<sep>> \o p)
<1>0. /\ DOMAIN ps = 1..Len(ps) /\ Len(ps) \in Nat
      /\ \A q \in Seq(A) : <<sep>> \o q \in Seq(A)
  <2>1. <<sep>> \in Seq(A)
    OBVIOUS
  <2> QED BY <2>1, LenProperties, ConcatProperties
<1>1. Led(ps, sep) \in Seq(Seq(A)) /\ Len(Led(ps, sep)) = Len(ps)
  <2>1. \A i \in DOMAIN ps : <<sep>> \o ps[i] \in Seq(A)
    BY <1>0, ElementOfSeq
  <2> QED BY <1>0, <2>1 DEF Led
<1> DEFINE tt == Append(ps, p)
<1>2. /\ DOMAIN tt = 1..(Len(ps) + 1)
      /\ \A i \in 1..Len(ps) : tt[i] = ps[i] /\ i \in DOMAIN ps /\ i \in DOMAIN tt
      /\ tt[Len(ps) + 1] = p /\ Len(ps) + 1 \in DOMAIN tt
  BY <1>0, AppendProperties, LenProperties
<1> HIDE DEF tt
<1>4. Led(tt, sep) = Append(Led(ps, sep), <<sep>> \o p)
  <2>1. Led(tt, sep) = [i \in 1..(Len(ps) + 1) |-> Led(tt, sep)[i]]
    BY <1>2 DEF Led
  <2>2. \A i \in 1..Len(ps) : Led(tt, sep)[i] = Led(ps, sep)[i]
    BY <1>2 DEF Led
  <2>3. Led(tt, sep)[Len(ps) + 1] = <<sep>> \o p
    BY <1>2 DEF Led
  <2> QED BY <1>0, <1>1, <2>1, <2>2, <2>3, IsAppend
<1> QED BY <1>1, <1>4 DEF tt

LEMMA JoinEmpty == ASSUME NEW sep PROVE Join(<<>>, sep) = <<>>
BY DEF Join

\* A single part is joined without a separator.
LEMMA JoinOne ==
    ASSUME NEW A, NEW p \in Seq(A), NEW sep \in A PROVE Join(<<p>>, sep) = p
<1>1. <<>> \in Seq(Seq(A)) /\ Append(<<>>, p) = <<p>> /\ <<p>> # <<>> /\ <<sep>> \in Seq(A) /\ <<sep>> # <<>>
  BY EmptySeq
<1>2. Led(<<>>, sep) = <<>>
  BY DEF Led
<1>3. Led(<<p>>, sep) = << <<sep>> \o p >>
  <2>1. Led(Append(<<>>, p), sep) = Append(Led(<<>>, sep), <<sep>> \o p)
    BY <1>1, LedAppend
  <2>2. \A x : Append(<<>>, x) = <<x>>
    OBVIOUS
  <2> QED BY <1>2, <2>1, <2>2
<1>4. <<sep>> \o p \in Seq(A)
  BY <1>1, ConcatProperties
<1>5. FlattenSeq(Led(<<p>>, sep)) = <<sep>> \o p
  BY <1>3, <1>4, FlattenOne
<1>6. Join(<<p>>, sep) = Tail(<<sep>> \o p)
  BY <1>1, <1>5 DEF Join, Led
<1>7. Tail(<<sep>> \o p) = Tail(<<sep>>) \o p
  BY <1>1, TailConcat
<1>8. Tail(<<sep>>) = <<>>
  OBVIOUS
<1> QED BY <1>6, <1>7, <1>8, ConcatEmptySeq

\* One more part is joined after a separator.
LEMMA JoinAppend ==
    ASSUME NEW A, NEW ps \in Seq(Seq(A)), ps # <<>>, NEW p \in Seq(A), NEW sep \in A
    PROVE  /\ Join(ps, sep) \in Seq(A)
           /\ Join(Append(ps, p), sep) = Join(ps, sep) \o (<<sep>> \o p)
<1> DEFINE s == FlattenSeq(Led(ps, sep))
           t == <<sep>> \o p
<1>1. \A q \in Seq(A) : <<sep>> \o q \in Seq(A) /\ <<sep>> \o q # <<>>
  <2>1. <<sep>> \in Seq(A) /\ <<sep>> # <<>>
    OBVIOUS
  <2> QED BY <2>1, ConcatProperties, ConcatEqualIffEmpty
<1>2. s \in Seq(A) /\ s # <<>>
  <2>1. PICK qs \in Seq(Seq(A)), q \in Seq(A) : ps = Append(qs, q)
    BY SequenceEmptyOrAppend
  <2>2. Led(qs, sep) \in Seq(Seq(A)) /\ Led(ps, sep) = Append(Led(qs, sep), <<sep>> \o q)
    BY <2>1, LedAppend
  <2>3. s = FlattenSeq(Led(qs, sep)) \o (<<sep>> \o q) /\ FlattenSeq(Led(qs, sep)) \in Seq(A)
    BY <1>1, <2>2, FlattenAppend
  <2> QED BY <1>1, <2>3, ConcatProperties, ConcatEqualIffEmpty
<1>3. FlattenSeq(Led(Append(ps, p), sep)) = s \o t
  <2>1. Led(ps, sep) \in Seq(Seq(A)) /\ Led(Append(ps, p), sep) = Append(Led(ps, sep), t)
    BY LedAppend
  <2>2. t \in Seq(A)
    BY <1>1
  <2> HIDE DEF t
  <2> QED BY <2>1, <2>2, FlattenAppend
<1>4. Join(ps, sep) = Tail(s) /\ Join(Append(ps, p), sep) = Tail(s \o t)
  <2>1. Append(ps, p) # <<>>
    BY AppendProperties
  <2> QED BY <1>3, <2>1 DEF Join, Led
<1>5. Tail(s \o t) = Tail(s) \o t /\ Tail(s) \in Seq(A)
  <2> HIDE DEF s, t
  <2>1. t \in Seq(A)
    BY <1>1 DEF t
  <2> QED BY <1>2, <2>1, TailConcat, HeadTailProperties
<1> QED BY <1>4, <1>5

\* Joining texts gives a text.
LEMMA JoinType ==
    ASSUME NEW A, NEW ps \in Seq(Seq(A)), NEW sep \in A PROVE Join(ps, sep) \in Seq(A)
<1>1. CASE ps = <<>>
  BY <1>1, JoinEmpty, EmptySeq
<1>2. CASE ps # <<>>
  <2>1. <<>> \in Seq(A)
    BY EmptySeq
  <2> QED BY <1>2, <2>1, JoinAppend
<1> QED BY <1>1, <1>2

\* Joining loses no word.
LEMMA JoinWords ==
    ASSUME NEW A, NEW ps \in Seq(Seq(A)), NEW sep \in A, NEW S, sep \in S
    PROVE  Without(Join(ps, sep), S) = Without(FlattenSeq(ps), S)
<1> DEFINE T == {t \in Seq(Seq(A)) : Without(Join(t, sep), S) = Without(FlattenSeq(t), S)}
<1>1. <<>> \in T
  BY FlattenEmpty, JoinEmpty, EmptySeq
<1>2. ASSUME NEW t \in Seq(Seq(A)), NEW e \in Seq(A), t \in T PROVE Append(t, e) \in T
  <2>1. Append(t, e) \in Seq(Seq(A)) /\ FlattenSeq(t) \in Seq(A) /\ FlattenSeq(Append(t, e)) = FlattenSeq(t) \o e
    BY AppendProperties, FlattenAppend
  <2>2. CASE t = <<>>
    <3>1. Append(t, e) = <<e>>
      BY <2>2
    <3> QED BY <2>1, <3>1, JoinOne, FlattenOne
  <2>3. CASE t # <<>>
    <3>1. Join(t, sep) \in Seq(A) /\ Join(Append(t, e), sep) = Join(t, sep) \o (<<sep>> \o e)
      BY <2>3, JoinAppend
    <3> DEFINE one == <<sep>>
               led == one \o e
    <3>2. one \in Seq(A) /\ Without(one, S) = <<>>
      <4>1. <<>> \in Seq(A) /\ Append(<<>>, sep) = <<sep>>
        BY EmptySeq
      <4>2. Without(Append(<<>>, sep), S) = Without(<<>>, S)
        BY <4>1, WithoutAppend
      <4> QED BY <4>1, <4>2, WithoutEmpty
    <3> HIDE DEF one
    <3>3. led \in Seq(A) /\ Without(led, S) = Without(e, S)
      <4>0. one \in Seq(A) /\ e \in Seq(A)
        BY <3>2
      <4>1. led \in Seq(A)
        BY <4>0, ConcatProperties
      <4>3. Without(one \o e, S) = Without(one, S) \o Without(e, S)
        BY <4>0, WithoutConcat
      <4>2. Without(e, S) \in Seq(A)
        BY WithoutType
      <4> QED BY <3>2, <4>1, <4>2, <4>3, ConcatEmptySeq
    <3> HIDE DEF led
    <3>4. Without(Join(t, sep) \o led, S) = Without(Join(t, sep), S) \o Without(led, S)
      <4>1. Join(t, sep) \in Seq(A) /\ led \in Seq(A)
        BY <3>1, <3>3
      <4> QED BY <4>1, WithoutConcat
    <3>5. Without(FlattenSeq(t) \o e, S) = Without(FlattenSeq(t), S) \o Without(e, S)
      BY <2>1, WithoutConcat
    <3> QED BY <1>2, <2>1, <3>1, <3>3, <3>4, <3>5 DEF led, one
  <2> QED BY <2>2, <2>3
<1>3. Seq(Seq(A)) \subseteq T
  <2> HIDE DEF T
  <2> QED BY <1>1, <1>2, SeqInduct
<1> QED BY <1>3

-----------------------------------------------------------------------------
\* Splitting.

\* The parts before the end of a text, continued by its next element.
Continued(parts, e, sep) ==
    IF e = sep THEN Append(parts, <<>>)
    ELSE [parts EXCEPT ![Len(parts)] = Append(@, e)]

\* The function by which Split is defined satisfies its equation.
LEMMA SplitRecursion ==
    ASSUME NEW text, NEW sep, Len(text) \in Nat
    PROVE  \E f : /\ f = [i \in 0..Len(text) |->
                             IF i = 0 THEN << <<>> >> ELSE Continued(f[i - 1], text[i], sep)]
                  /\ Split(text, sep) = f[Len(text)]
<1> DEFINE Def(g, i) == IF i = 0 THEN << <<>> >> ELSE Continued(g[i - 1], text[i], sep)
<1>1. PICK f : /\ f = CHOOSE g : g = [i \in 0..Len(text) |-> Def(g, i)]
               /\ Split(text, sep) = f[Len(text)]
  BY DEF Split, Continued
<1>2. OpDefinesFcn(f, 0..Len(text), Def)
  BY <1>1 DEF OpDefinesFcn
<1>3. OneBack(0, Len(text), Def)
  BY DEF OneBack
<1>4. WFInductiveDefines(f, 0..Len(text), Def)
  <2> HIDE DEF Def
  <2> QED BY <1>2, <1>3, Recursion
<1>5. f = [i \in 0..Len(text) |-> Def(f, i)]
  BY <1>4 DEF WFInductiveDefines
<1>6. Split(text, sep) = f[Len(text)]
  BY <1>1
<1> QED BY <1>5, <1>6

\* The empty text has one part, which is empty.
LEMMA SplitEmpty == ASSUME NEW sep PROVE Split(<<>>, sep) = << <<>> >>
<1>1. Len(<<>>) = 0
  BY EmptySeq
<1>2. PICK f : /\ f = [i \in 0..0 |-> IF i = 0 THEN << <<>> >> ELSE Continued(f[i - 1], <<>>[i], sep)]
               /\ Split(<<>>, sep) = f[0]
  BY <1>1, SplitRecursion
<1> QED BY <1>2

\* The parts of a text with one more element.
LEMMA SplitAppend ==
    ASSUME NEW A, NEW t \in Seq(A), NEW e \in A, NEW sep
    PROVE  Split(Append(t, e), sep) = Continued(Split(t, sep), e, sep)
<1> DEFINE u == Append(t, e)
<1>1. /\ Len(u) = Len(t) + 1 /\ Len(t) \in Nat /\ Len(u) \in Nat
      /\ u[Len(u)] = e /\ \A i \in 1..Len(t) : u[i] = t[i]
  BY AppendProperties, LenProperties
<1> HIDE DEF u
<1>2. PICK f : /\ f = [i \in 0..Len(t) |->
                          IF i = 0 THEN << <<>> >> ELSE Continued(f[i - 1], t[i], sep)]
               /\ Split(t, sep) = f[Len(t)]
  BY <1>1, SplitRecursion
<1>3. PICK g : /\ g = [i \in 0..Len(u) |->
                          IF i = 0 THEN << <<>> >> ELSE Continued(g[i - 1], u[i], sep)]
               /\ Split(u, sep) = g[Len(u)]
  BY <1>1, SplitRecursion
<1> DEFINE T == {n \in Nat : n \in 0..Len(t) => g[n] = f[n]}
<1>4. 0 \in T
  BY <1>1, <1>2, <1>3
<1>5. ASSUME NEW n \in Nat, n \in T PROVE n + 1 \in T
  <2> SUFFICES ASSUME n + 1 \in 0..Len(t) PROVE g[n + 1] = f[n + 1]
    OBVIOUS
  <2>1. /\ n \in 0..Len(t) /\ n + 1 \in 0..Len(u) /\ n + 1 # 0 /\ (n + 1) - 1 = n
        /\ n + 1 \in 1..Len(t)
    BY <1>1
  <2>2. g[n] = f[n] /\ u[n + 1] = t[n + 1]
    BY <1>1, <1>5, <2>1
  <2>3. g[n + 1] = Continued(g[n], u[n + 1], sep) /\ f[n + 1] = Continued(f[n], t[n + 1], sep)
    BY <1>2, <1>3, <2>1
  <2> QED BY <2>2, <2>3
<1>6. g[Len(t)] = f[Len(t)]
  <2>1. Nat \subseteq T
    <3> HIDE DEF T
    <3> QED BY <1>4, <1>5, Induct
  <2> QED BY <1>1, <2>1
<1>7. g[Len(u)] = Continued(g[Len(t)], e, sep)
  <2>1. Len(u) \in 0..Len(u) /\ Len(u) # 0 /\ Len(u) - 1 = Len(t)
    BY <1>1
  <2> QED BY <1>1, <1>3, <2>1
<1> QED BY <1>2, <1>3, <1>6, <1>7 DEF u

\* A text that ends with a part is continued in that part.
LEMMA ContinuedLast ==
    ASSUME NEW A, NEW qs \in Seq(Seq(A)), NEW q \in Seq(A), NEW e \in A, NEW sep, e # sep
    PROVE  Continued(Append(qs, q), e, sep) = Append(qs, Append(q, e))
<1> DEFINE ps == Append(qs, q)
           r  == Append(q, e)
<1>1. /\ ps \in Seq(Seq(A)) /\ Len(ps) = Len(qs) + 1 /\ Len(qs) \in Nat
      /\ \A i \in 1..Len(qs) : ps[i] = qs[i]
      /\ ps[Len(ps)] = q
  BY AppendProperties, LenProperties
<1>2. r \in Seq(A)
  BY AppendProperties
<1>3. Continued(ps, e, sep) = [ps EXCEPT ![Len(ps)] = r]
  <2>1. Continued(ps, e, sep) = [ps EXCEPT ![Len(ps)] = Append(ps[Len(ps)], e)]
    BY DEF Continued
  <2> QED BY <1>1, <2>1
<1> HIDE DEF ps, r
<1>4. Len(ps) \in 1..Len(ps)
  BY <1>1
<1> DEFINE n == [ps EXCEPT ![Len(ps)] = r]
<1>5. /\ n \in Seq(Seq(A)) /\ Len(n) = Len(ps)
      /\ \A j \in 1..Len(ps) : n[j] = IF j = Len(ps) THEN r ELSE ps[j]
  BY <1>1, <1>2, <1>4, ExceptSeq
<1> HIDE DEF n
<1>7. (\A i \in 1..Len(qs) : n[i] = qs[i]) /\ n[Len(qs) + 1] = r
  <2>1. \A i \in 1..Len(qs) : i \in 1..Len(ps) /\ i # Len(ps)
    BY <1>1
  <2> QED BY <1>1, <1>4, <1>5, <2>1
<1>8. n = Append(qs, r)
  <2> DEFINE m == Append(qs, r)
  <2>1. m \in Seq(Seq(A)) /\ Len(m) = Len(qs) + 1 /\ m[Len(qs) + 1] = r /\ \A i \in 1..Len(qs) : m[i] = qs[i]
    BY <1>2, AppendProperties
  <2> HIDE DEF m
  <2>2. Len(n) = Len(m) /\ \A i \in 1..Len(n) : n[i] = m[i]
    <3>1. Len(n) = Len(qs) + 1 /\ Len(qs) \in Nat
      BY <1>1, <1>5
    <3>2. ASSUME NEW i \in 1..Len(n) PROVE n[i] = m[i]
      <4>1. i \in 1..Len(qs) \/ i = Len(qs) + 1
        BY <3>1
      <4> QED BY <1>7, <2>1, <4>1
    <3> QED BY <2>1, <3>1, <3>2
  <2>3. n \in Seq(Seq(A))
    BY <1>5
  <2>4. n = m
    BY <2>1, <2>2, <2>3, SeqEqual
  <2> QED BY <2>4 DEF m
<1> QED BY <1>3, <1>8 DEF n, ps, r

\* The parts are texts, at least one.
LEMMA SplitType ==
    ASSUME NEW A, NEW t \in Seq(A), NEW sep
    PROVE  Split(t, sep) \in Seq(Seq(A)) /\ Split(t, sep) # <<>>
<1> DEFINE T == {u \in Seq(A) : Split(u, sep) \in Seq(Seq(A)) /\ Split(u, sep) # <<>>}
<1>0. <<>> \in Seq(A) /\ <<>> \in Seq(Seq(A)) /\ << <<>> >> = Append(<<>>, <<>>)
  BY EmptySeq
<1>a. \A s \in Seq(Seq(A)), x \in Seq(A) : Append(s, x) \in Seq(Seq(A)) /\ Append(s, x) # <<>>
  BY AppendProperties
<1>1. <<>> \in T
  <2>1. Append(<<>>, <<>>) \in Seq(Seq(A)) /\ Append(<<>>, <<>>) # <<>>
    BY <1>0, AppendProperties
  <2>2. Split(<<>>, sep) \in Seq(Seq(A)) /\ Split(<<>>, sep) # <<>>
    BY <1>0, <2>1, SplitEmpty
  <2> QED BY <1>0, <2>2
<1>2. ASSUME NEW u \in Seq(A), NEW e \in A, u \in T PROVE Append(u, e) \in T
  <2>1. Append(u, e) \in Seq(A) /\ Split(Append(u, e), sep) = Continued(Split(u, sep), e, sep)
    BY AppendProperties, SplitAppend
  <2> DEFINE ps == Split(u, sep)
  <2>0. ps \in Seq(Seq(A)) /\ ps # <<>>
    BY <1>2
  <2> HIDE DEF ps
  <2>2. PICK qs \in Seq(Seq(A)), q \in Seq(A) : ps = Append(qs, q)
    BY <2>0, SequenceEmptyOrAppend
  <2>3. CASE e = sep
    <3>1. Split(Append(u, e), sep) = Append(ps, <<>>)
      BY <2>1, <2>3 DEF Continued, ps
    <3>2. Append(ps, <<>>) \in Seq(Seq(A)) /\ Append(ps, <<>>) # <<>>
      BY <1>0, <1>a, <2>0
    <3> QED BY <2>1, <3>1, <3>2
  <2>4. CASE e # sep
    <3>1. Split(Append(u, e), sep) = Append(qs, Append(q, e))
      BY <2>1, <2>2, <2>4, ContinuedLast DEF ps
    <3>2. Append(q, e) \in Seq(A)
      BY AppendProperties
    <3>3. Append(qs, Append(q, e)) \in Seq(Seq(A)) /\ Append(qs, Append(q, e)) # <<>>
      BY <1>a, <3>2
    <3> QED BY <2>1, <3>1, <3>3
  <2> QED BY <2>3, <2>4
<1>3. Seq(A) \subseteq T
  <2> HIDE DEF T
  <2> QED BY <1>1, <1>2, SeqInduct
<1> QED BY <1>3

\* What is split and joined again is as before.
LEMMA JoinSplit ==
    ASSUME NEW A, NEW t \in Seq(A), NEW sep \in A
    PROVE  Join(Split(t, sep), sep) = t
<1> DEFINE T == {u \in Seq(A) : Join(Split(u, sep), sep) = u}
<1>0. <<>> \in Seq(A) /\ <<>> \in Seq(Seq(A)) /\ <<sep>> \in Seq(A)
  BY EmptySeq
<1>1. <<>> \in T
  BY <1>0, SplitEmpty, JoinOne
<1>2. ASSUME NEW u \in Seq(A), NEW e \in A, u \in T PROVE Append(u, e) \in T
  <2> DEFINE ps == Split(u, sep)
  <2>1. Append(u, e) \in Seq(A) /\ Split(Append(u, e), sep) = Continued(ps, e, sep)
    BY AppendProperties, SplitAppend
  <2>2. ps \in Seq(Seq(A)) /\ ps # <<>> /\ Join(ps, sep) = u
    BY <1>2, SplitType
  <2> HIDE DEF ps
  <2>3. CASE e = sep
    <3>1. Join(Append(ps, <<>>), sep) = Join(ps, sep) \o (<<sep>> \o <<>>)
      BY <1>0, <2>2, JoinAppend
    <3>2. <<sep>> \o <<>> = <<sep>>
      BY <1>0, ConcatEmptySeq
    <3>3. u \o <<sep>> = Append(u, e)
      BY <2>3, AppendIsConcat
    <3> QED BY <2>1, <2>2, <2>3, <3>1, <3>2, <3>3 DEF Continued
  <2>4. CASE e # sep
    <3>1. PICK qs \in Seq(Seq(A)), q \in Seq(A) : ps = Append(qs, q)
      BY <2>2, SequenceEmptyOrAppend
    <3>2. Continued(ps, e, sep) = Append(qs, Append(q, e)) /\ Append(q, e) \in Seq(A)
      BY <2>4, <3>1, ContinuedLast, AppendProperties
    <3>3. CASE qs = <<>>
      <4>1. \A x : Append(<<>>, x) = <<x>>
        OBVIOUS
      <4>2. Join(<<q>>, sep) = q /\ Join(<<Append(q, e)>>, sep) = Append(q, e)
        BY <3>2, JoinOne
      <4>3. ps = <<q>> /\ Continued(ps, e, sep) = <<Append(q, e)>>
        BY <3>1, <3>2, <3>3, <4>1
      <4>4. u = q
        BY <2>2, <4>2, <4>3
      <4>5. Join(Split(Append(u, e), sep), sep) = Append(u, e)
        BY <2>1, <4>2, <4>3, <4>4
      <4> QED BY <2>1, <4>5
    <3>4. CASE qs # <<>>
      <4> DEFINE j == Join(qs, sep)
                 l == <<sep>> \o q
      <4>1. j \in Seq(A) /\ l \in Seq(A) /\ Join(ps, sep) = j \o l
        BY <1>0, <3>1, <3>4, JoinAppend, ConcatProperties
      <4>2. Join(Append(qs, Append(q, e)), sep) = j \o (<<sep>> \o Append(q, e))
        BY <3>2, <3>4, JoinAppend
      <4>3. <<sep>> \o Append(q, e) = Append(l, e)
        BY <1>0, ConcatAppend
      <4> HIDE DEF j, l
      <4>4. j \o Append(l, e) = Append(j \o l, e)
        <5>1. j \in Seq(A) /\ l \in Seq(A)
          BY <4>1
        <5> QED BY <5>1, ConcatAppend
      <4> QED BY <2>1, <2>2, <3>2, <4>1, <4>2, <4>3, <4>4
    <3> QED BY <3>3, <3>4
  <2> QED BY <2>3, <2>4
<1>3. Seq(A) \subseteq T
  <2> HIDE DEF T
  <2> QED BY <1>1, <1>2, SeqInduct
<1> QED BY <1>3

\* A part without separators that is added to a text is its last part.
LEMMA SplitLed ==
    ASSUME NEW A, NEW t \in Seq(A), NEW sep \in A, NEW p \in Seq(A \ {sep})
    PROVE  Split(t \o (<<sep>> \o p), sep) = Append(Split(t, sep), p)
<1> DEFINE B == A \ {sep}
           T == {q \in Seq(B) : Split(t \o (<<sep>> \o q), sep) = Append(Split(t, sep), q)}
<1>0. <<>> \in Seq(A) /\ <<>> \in Seq(B) /\ <<sep>> \in Seq(A)
  BY EmptySeq
<1>1. <<>> \in T
  <2>1. <<sep>> \o <<>> = <<sep>> /\ t \o <<sep>> = Append(t, sep)
    BY <1>0, ConcatEmptySeq, AppendIsConcat
  <2>2. Split(Append(t, sep), sep) = Continued(Split(t, sep), sep, sep)
    BY SplitAppend
  <2> QED BY <1>0, <2>1, <2>2 DEF Continued
<1>2. ASSUME NEW q \in Seq(B), NEW e \in B, q \in T PROVE Append(q, e) \in T
  <2>1. q \in Seq(A) /\ e \in A /\ e # sep /\ Append(q, e) \in Seq(B)
    <3>1. B \subseteq A
      OBVIOUS
    <3> QED BY <3>1, SeqMonotonic, AppendProperties
  <2> DEFINE l == <<sep>> \o q
             u == t \o l
             ps == Split(t, sep)
  <2>2. l \in Seq(A)
    BY <1>0, <2>1, ConcatProperties
  <2>3. <<sep>> \o Append(q, e) = Append(l, e)
    BY <1>0, <2>1, ConcatAppend
  <2>4. Split(u, sep) = Append(ps, q) /\ ps \in Seq(Seq(A))
    BY <1>2, SplitType
  <2> HIDE DEF l, ps
  <2>5. u \in Seq(A) /\ t \o Append(l, e) = Append(u, e)
    BY <2>1, <2>2, ConcatAppend, ConcatProperties
  <2> HIDE DEF u
  <2>6. Split(Append(u, e), sep) = Continued(Split(u, sep), e, sep)
    BY <2>1, <2>5, SplitAppend
  <2>7. Continued(Append(ps, q), e, sep) = Append(ps, Append(q, e))
    BY <2>1, <2>4, ContinuedLast
  <2> QED BY <2>1, <2>3, <2>4, <2>5, <2>6, <2>7 DEF ps
<1>3. Seq(B) \subseteq T
  <2> HIDE DEF T, B
  <2> QED BY <1>1, <1>2, SeqInduct
<1> QED BY <1>3

\* What is joined and split again is as before, if no part holds a separator.
LEMMA SplitJoin ==
    ASSUME NEW A, NEW sep \in A, NEW ps \in Seq(Seq(A \ {sep})), ps # <<>>
    PROVE  Split(Join(ps, sep), sep) = ps
<1> DEFINE B == A \ {sep}
           T == {q \in Seq(Seq(B)) : q # <<>> => Split(Join(q, sep), sep) = q}
<1>0. Seq(B) \subseteq Seq(A) /\ Seq(Seq(B)) \subseteq Seq(Seq(A))
  <2>1. B \subseteq A
    OBVIOUS
  <2>2. Seq(B) \subseteq Seq(A)
    BY <2>1, SeqMonotonic
  <2> QED BY <2>2, SeqMonotonic
<1>1. <<>> \in T
  BY EmptySeq
<1>2. ASSUME NEW q \in Seq(Seq(B)), NEW e \in Seq(B), q \in T PROVE Append(q, e) \in T
  <2>1. q \in Seq(Seq(A)) /\ e \in Seq(A) /\ Append(q, e) \in Seq(Seq(B))
    BY <1>0, AppendProperties
  <2>2. CASE q = <<>>
    <3>1. Append(q, e) = <<e>>
      BY <2>2
    <3>2. Join(<<e>>, sep) = e
      BY <2>1, JoinOne
    <3>3. Split(e, sep) = <<e>>
      <4> DEFINE R == {r \in Seq(B) : Split(r, sep) = <<r>>}
      <4>1. <<>> \in R
        BY EmptySeq, SplitEmpty
      <4>2. ASSUME NEW r \in Seq(B), NEW x \in B, r \in R PROVE Append(r, x) \in R
        <5>1. r \in Seq(A) /\ x \in A /\ x # sep /\ Append(r, x) \in Seq(B)
          BY <1>0, AppendProperties
        <5>2. Split(Append(r, x), sep) = Continued(Split(r, sep), x, sep)
          BY <5>1, SplitAppend
        <5>3. Continued(Append(<<>>, r), x, sep) = Append(<<>>, Append(r, x))
          <6>1. \A qs \in Seq(Seq(A)) : Continued(Append(qs, r), x, sep) = Append(qs, Append(r, x))
            BY <5>1, ContinuedLast
          <6>2. <<>> \in Seq(Seq(A))
            BY EmptySeq
          <6> QED BY <6>1, <6>2
        <5>4. \A y : Append(<<>>, y) = <<y>>
          OBVIOUS
        <5> QED BY <4>2, <5>1, <5>2, <5>3, <5>4
      <4>3. Seq(B) \subseteq R
        <5> HIDE DEF R, B
        <5> QED BY <4>1, <4>2, SeqInduct
      <4> QED BY <4>3
    <3> QED BY <2>1, <3>1, <3>2, <3>3
  <2>3. CASE q # <<>>
    <3> DEFINE j == Join(q, sep)
    <3>1. j \in Seq(A) /\ Join(Append(q, e), sep) = j \o (<<sep>> \o e)
      BY <2>1, <2>3, JoinAppend
    <3>2. Split(j, sep) = q
      BY <1>2, <2>3
    <3> HIDE DEF j
    <3>3. Split(j \o (<<sep>> \o e), sep) = Append(Split(j, sep), e)
      BY <3>1, SplitLed
    <3> QED BY <2>1, <3>1, <3>2, <3>3
  <2> QED BY <2>2, <2>3
<1>3. Seq(Seq(B)) \subseteq T
  <2> HIDE DEF T, B
  <2> QED BY <1>1, <1>2, SeqInduct
<1> QED BY <1>3

-----------------------------------------------------------------------------
\* Leaving out all elements, or none.

\* All elements left out.
LEMMA WithoutAll ==
    ASSUME NEW A, NEW s \in Seq(A), NEW S, A \subseteq S PROVE Without(s, S) = <<>>
<1> DEFINE T == {u \in Seq(A) : Without(u, S) = <<>>}
<1>1. <<>> \in T
  BY WithoutEmpty, EmptySeq
<1>2. ASSUME NEW u \in Seq(A), NEW e \in A, u \in T PROVE Append(u, e) \in T
  <2>1. Append(u, e) \in Seq(A) /\ e \in S
    BY AppendProperties
  <2>2. Without(Append(u, e), S) = IF e \in S THEN Without(u, S) ELSE Append(Without(u, S), e)
    BY WithoutAppend
  <2> QED BY <1>2, <2>1, <2>2
<1>3. Seq(A) \subseteq T
  <2> HIDE DEF T
  <2> QED BY <1>1, <1>2, SeqInduct
<1> QED BY <1>3

\* None left out.
LEMMA WithoutNone ==
    ASSUME NEW A, NEW s \in Seq(A), NEW S, A \cap S = {} PROVE Without(s, S) = s
<1> DEFINE T == {u \in Seq(A) : Without(u, S) = u}
<1>1. <<>> \in T
  BY WithoutEmpty, EmptySeq
<1>2. ASSUME NEW u \in Seq(A), NEW e \in A, u \in T PROVE Append(u, e) \in T
  <2>1. Append(u, e) \in Seq(A) /\ e \notin S
    BY AppendProperties
  <2>2. Without(Append(u, e), S) = IF e \in S THEN Without(u, S) ELSE Append(Without(u, S), e)
    BY WithoutAppend
  <2> QED BY <1>2, <2>1, <2>2
<1>3. Seq(A) \subseteq T
  <2> HIDE DEF T
  <2> QED BY <1>1, <1>2, SeqInduct
<1> QED BY <1>3

\* What is left are elements that are not to be left out.
LEMMA WithoutRest ==
    ASSUME NEW A, NEW s \in Seq(A), NEW S PROVE Without(s, S) \in Seq(A \ S)
<1> DEFINE B == A \ S
           T == {u \in Seq(A) : Without(u, S) \in Seq(B)}
<1>1. <<>> \in T
  BY WithoutEmpty, EmptySeq
<1>2. ASSUME NEW u \in Seq(A), NEW e \in A, u \in T PROVE Append(u, e) \in T
  <2>1. Append(u, e) \in Seq(A)
    BY AppendProperties
  <2>2. Without(Append(u, e), S) = IF e \in S THEN Without(u, S) ELSE Append(Without(u, S), e)
    BY WithoutAppend
  <2>3. ASSUME e \notin S PROVE Append(Without(u, S), e) \in Seq(B)
    <3>1. e \in B /\ Without(u, S) \in Seq(B)
      BY <1>2, <2>3
    <3> HIDE DEF B
    <3> QED BY <3>1, AppendProperties
  <2>4. Without(Append(u, e), S) \in Seq(B)
    BY <1>2, <2>2, <2>3
  <2> QED BY <2>1, <2>4
<1>3. Seq(A) \subseteq T
  <2> HIDE DEF T
  <2> QED BY <1>1, <1>2, SeqInduct
<1> QED BY <1>3

\* Empty texts are not missed.
LEMMA NonEmptyFlat ==
    ASSUME NEW A, NEW ts \in Seq(Seq(A))
    PROVE  NonEmpty(ts) \in Seq(Seq(A)) /\ FlattenSeq(NonEmpty(ts)) = FlattenSeq(ts)
<1> DEFINE N(u) == Without(u, {<<>>})
           T == {u \in Seq(Seq(A)) : FlattenSeq(N(u)) = FlattenSeq(u)}
<1>1. <<>> \in T
  BY WithoutEmpty, EmptySeq
<1>2. ASSUME NEW u \in Seq(Seq(A)), NEW e \in Seq(A), u \in T PROVE Append(u, e) \in T
  <2>1. Append(u, e) \in Seq(Seq(A)) /\ N(u) \in Seq(Seq(A)) /\ FlattenSeq(u) \in Seq(A)
    BY AppendProperties, WithoutType, FlattenType
  <2>2. N(Append(u, e)) = IF e = <<>> THEN N(u) ELSE Append(N(u), e)
    <3>1. N(Append(u, e)) = IF e \in {<<>>} THEN N(u) ELSE Append(N(u), e)
      BY WithoutAppend
    <3> QED BY <3>1
  <2> HIDE DEF N
  <2>3. FlattenSeq(Append(u, e)) = FlattenSeq(u) \o e
    BY FlattenAppend
  <2>4. FlattenSeq(Append(N(u), e)) = FlattenSeq(N(u)) \o e
    BY <2>1, FlattenAppend
  <2>5. FlattenSeq(N(u)) = FlattenSeq(u)
    BY <1>2
  <2>6. CASE e = <<>>
    <3>1. FlattenSeq(u) \o <<>> = FlattenSeq(u)
      BY <2>1, ConcatEmptySeq
    <3> QED BY <2>1, <2>2, <2>3, <2>5, <2>6, <3>1
  <2>7. CASE e # <<>>
    BY <2>1, <2>2, <2>3, <2>4, <2>5, <2>7
  <2> QED BY <2>6, <2>7
<1>3. Seq(Seq(A)) \subseteq T
  <2> HIDE DEF T
  <2> QED BY <1>1, <1>2, SeqInduct
<1> QED BY <1>3, WithoutType DEF NonEmpty

\* Normalising loses no word.
LEMMA NormalizedWords ==
    ASSUME NEW A, NL \in A, NEW raw \in Seq(A), NEW S, NL \in S
    PROVE  /\ normalizeScrapedText(raw) \in Seq(A)
           /\ Without(normalizeScrapedText(raw), S) = Without(raw, S)
<1> DEFINE ls == Split(raw, NL)
           ns == NonEmpty(ls)
<1>1. ls \in Seq(Seq(A)) /\ Join(ls, NL) = raw
  BY SplitType, JoinSplit
<1> HIDE DEF ls
<1>2. ns \in Seq(Seq(A)) /\ FlattenSeq(ns) = FlattenSeq(ls)
  BY <1>1, NonEmptyFlat
<1> HIDE DEF ns
<1>3. Without(Join(ns, NL), S) = Without(FlattenSeq(ns), S) /\ Join(ns, NL) \in Seq(A)
  BY <1>2, JoinWords, JoinType
<1>4. Without(Join(ls, NL), S) = Without(FlattenSeq(ls), S)
  BY <1>1, JoinWords
<1> QED BY <1>1, <1>2, <1>3, <1>4 DEF normalizeScrapedText, ns, ls

-----------------------------------------------------------------------------
\* Trimming.

\* Sets of numbers have a least element, unless they are empty, ...
LEMMA MinOf ==
    ASSUME NEW I, I \subseteq Nat, I # {} PROVE Min(I) \in I /\ \A k \in I : Min(I) <= k
BY Least DEF Min

\* ... and a greatest one, if they are bounded.
LEMMA MaxOf ==
    ASSUME NEW n \in Nat, NEW I, I \subseteq 0..n, I # {} PROVE Max(I) \in I /\ \A k \in I : Max(I) >= k
<1> DEFINE U == {m \in Nat : \A k \in I : k <= m}
<1>1. n \in U /\ U \subseteq Nat
  OBVIOUS
<1>2. PICK m \in U : \A k \in U : m <= k
  BY <1>1, Least
<1>3. m \in I
  <2> SUFFICES ASSUME m \notin I PROVE FALSE
    OBVIOUS
  <2>1. PICK k \in I : TRUE
    OBVIOUS
  <2>2. m \in Nat /\ \A j \in I : j \in Nat /\ j < m
    BY <1>2
  <2>3. m - 1 \in U
    BY <2>1, <2>2
  <2> QED BY <1>2, <2>2, <2>3
<1>4. \E x \in I : \A y \in I : x >= y
  BY <1>2, <1>3
<1> QED BY <1>4 DEF Max

\* Either there is nothing but line breaks, or they are taken off both ends.
LEMMA TrimParts ==
    ASSUME NEW A, NEW t \in Seq(A)
    PROVE  \/ t \in Seq({NL}) /\ Trim(t) = <<>>
           \/ \E f, l \in 1..Len(t) :
                 /\ t[f] # NL /\ t[l] # NL /\ f <= l
                 /\ \A i \in 1..Len(t) : i < f \/ l < i => t[i] = NL
                 /\ Trim(t) = SubSeq(t, f, l)
<1> DEFINE I == {i \in 1..Len(t) : t[i] # NL}
<1>0. Len(t) \in Nat /\ I \subseteq Nat /\ I \subseteq 0..Len(t) /\ DOMAIN t = 1..Len(t)
  BY LenProperties
<1>1. CASE I = {}
  <2>1. \A i \in 1..Len(t) : t[i] \in {NL}
    BY <1>1
  <2>2. t \in Seq({NL})
    <3>1. t = [i \in 1..Len(t) |-> t[i]]
      BY LenProperties
    <3> QED BY <1>0, <2>1, <3>1
  <2> QED BY <1>1, <2>2 DEF Trim, SelectInSeq
<1>2. CASE I # {}
  <2>1. Min(I) \in I /\ \A k \in I : Min(I) <= k
    <3> HIDE DEF I
    <3> QED BY <1>0, <1>2, MinOf
  <2>2. Max(I) \in I /\ \A k \in I : Max(I) >= k
    <3> HIDE DEF I
    <3> QED BY <1>0, <1>2, MaxOf
  <2>3. Trim(t) = SubSeq(t, Min(I), Max(I))
    <3>1. Min(I) # 0
      BY <2>1
    <3> QED BY <1>2, <3>1 DEF Trim, SelectInSeq, SelectLastInSeq
  <2> DEFINE f == Min(I)
             l == Max(I)
  <2>4. /\ f \in I /\ l \in I /\ Trim(t) = SubSeq(t, f, l)
        /\ \A k \in I : f <= k /\ l >= k
    BY <2>1, <2>2, <2>3
  <2> HIDE DEF f, l
  <2>5. f \in 1..Len(t) /\ l \in 1..Len(t) /\ t[f] # NL /\ t[l] # NL /\ f <= l
    BY <2>4
  <2>6. ASSUME NEW i \in 1..Len(t), i < f \/ l < i PROVE t[i] = NL
    BY <1>0, <2>4, <2>5, <2>6
  <2> QED BY <2>4, <2>5, <2>6
<1> QED BY <1>1, <1>2

\* Trimming gives a text.
LEMMA TrimType == ASSUME NEW A, NEW t \in Seq(A) PROVE Trim(t) \in Seq(A)
<1>1. CASE Trim(t) = <<>>
  BY <1>1, EmptySeq
<1>2. CASE Trim(t) # <<>>
  <2>1. PICK f, l \in 1..Len(t) : Trim(t) = SubSeq(t, f, l)
    BY <1>2, TrimParts
  <2>2. Len(t) \in Nat
    BY LenProperties
  <2>3. \A i \in f..l : t[i] \in A
    BY <2>2, ElementOfSeq
  <2>4. f \in Int /\ l \in Int
    BY <2>2
  <2> QED BY <2>1, <2>3, <2>4, SubSeqProperties
<1> QED BY <1>1, <1>2

\* A text of line breaks is trimmed to nothing, and no other is.
LEMMA TrimBlank ==
    ASSUME NEW A, NEW t \in Seq(A) PROVE t \in Seq({NL}) <=> Trim(t) = <<>>
<1>1. CASE t \in Seq({NL}) /\ Trim(t) = <<>>
  BY <1>1
<1>2. CASE \E f, l \in 1..Len(t) : t[f] # NL /\ f <= l /\ Trim(t) = SubSeq(t, f, l)
  <2>1. PICK f, l \in 1..Len(t) : t[f] # NL /\ f <= l /\ Trim(t) = SubSeq(t, f, l)
    BY <1>2
  <2>2. Len(t) \in Nat /\ f \in Int /\ l \in Int
    BY LenProperties
  <2>3. \A i \in f..l : t[i] \in A
    BY <2>2, ElementOfSeq
  <2>4. Len(SubSeq(t, f, l)) = l - f + 1
    BY <2>1, <2>2, <2>3, SubSeqProperties
  <2>5. Trim(t) # <<>>
    BY <2>1, <2>2, <2>4, EmptySeq
  <2>6. t \notin Seq({NL})
    <3> SUFFICES ASSUME t \in Seq({NL}) PROVE FALSE
      OBVIOUS
    <3>1. t[f] \in {NL}
      BY ElementOfSeq
    <3> QED BY <2>1, <3>1
  <2> QED BY <2>5, <2>6
<1> QED BY <1>1, <1>2, TrimParts

\* A text without line breaks is trimmed to itself.
LEMMA TrimPlain ==
    ASSUME NEW A, NEW t \in Seq(A), NL \notin A PROVE Trim(t) = t
<1>1. \A i \in 1..Len(t) : t[i] # NL
  BY ElementOfSeq
<1>2. CASE t \in Seq({NL}) /\ Trim(t) = <<>>
  <2>1. t = <<>>
    <3> SUFFICES ASSUME t # <<>> PROVE FALSE
      OBVIOUS
    <3>1. 1 \in 1..Len(t)
      BY EmptySeq
    <3>2. t[1] \in {NL}
      BY <1>2, <3>1, ElementOfSeq
    <3> QED BY <1>1, <3>1, <3>2
  <2> QED BY <1>2, <2>1
<1>3. CASE \E f, l \in 1..Len(t) : /\ \A i \in 1..Len(t) : i < f \/ l < i => t[i] = NL
                                   /\ Trim(t) = SubSeq(t, f, l)
  <2>1. PICK f, l \in 1..Len(t) : /\ \A i \in 1..Len(t) : i < f \/ l < i => t[i] = NL
                                  /\ Trim(t) = SubSeq(t, f, l)
    BY <1>3
  <2>2. Len(t) \in Nat /\ 1 \in 1..Len(t) /\ Len(t) \in 1..Len(t)
    BY LenProperties
  <2>3. f = 1 /\ l = Len(t)
    BY <1>1, <2>1, <2>2
  <2> QED BY <2>1, <2>3, SubSeqFull
<1> QED BY <1>2, <1>3, TrimParts

\* Trimming loses no word.
LEMMA TrimWords ==
    ASSUME NEW A, NEW t \in Seq(A), NEW S, NL \in S
    PROVE  Without(Trim(t), S) = Without(t, S)
<1>1. \A u \in Seq({NL}) : Without(u, S) = <<>>
  BY WithoutAll
<1>2. CASE t \in Seq({NL}) /\ Trim(t) = <<>>
  BY <1>1, <1>2, WithoutEmpty
<1>3. CASE \E f, l \in 1..Len(t) : /\ f <= l
                                   /\ \A i \in 1..Len(t) : i < f \/ l < i => t[i] = NL
                                   /\ Trim(t) = SubSeq(t, f, l)
  <2>1. PICK f, l \in 1..Len(t) : /\ f <= l
                                  /\ \A i \in 1..Len(t) : i < f \/ l < i => t[i] = NL
                                  /\ Trim(t) = SubSeq(t, f, l)
    BY <1>3
  <2>0. Len(t) \in Nat /\ f \in Nat /\ l \in Nat /\ 1 <= f /\ f <= l /\ l <= Len(t)
    BY <2>1, LenProperties
  <2> DEFINE n == Len(t)
             u == SubSeq(t, 1, f - 1)
             m == SubSeq(t, f, l)
             v == SubSeq(t, l + 1, n)
  <2>2. u \in Seq({NL}) /\ u \in Seq(A)
    <3>1. \A i \in 1..(f - 1) : t[i] \in {NL} /\ t[i] \in A
      BY <2>0, <2>1, ElementOfSeq
    <3>2. 1 \in Int /\ f - 1 \in Int
      BY <2>0
    <3> QED BY <3>1, <3>2, SubSeqProperties
  <2>3. v \in Seq({NL}) /\ v \in Seq(A)
    <3>1. \A i \in (l + 1)..n : t[i] \in {NL} /\ t[i] \in A
      BY <2>0, <2>1, ElementOfSeq
    <3>2. l + 1 \in Int /\ n \in Int
      BY <2>0
    <3> HIDE DEF n
    <3> QED BY <3>1, <3>2, SubSeqProperties
  <2>4. m \in Seq(A)
    BY <2>1, TrimType
  <2>5. t = u \o (m \o v)
    <3>1. m \o v = SubSeq(t, f, n)
      <4>1. f \in 1..(Len(t) + 1) /\ l \in (f - 1)..Len(t) /\ Len(t) \in l..Len(t)
        BY <2>0
      <4> QED BY <4>1, ConcatAdjacentSubSeq
    <3>2. u \o SubSeq(t, f, n) = SubSeq(t, 1, n)
      <4>1. 1 \in 1..(Len(t) + 1) /\ f - 1 \in (1 - 1)..Len(t) /\ Len(t) \in (f - 1)..Len(t) /\ (f - 1) + 1 = f
        BY <2>0
      <4>2. SubSeq(t, 1, f - 1) \o SubSeq(t, (f - 1) + 1, Len(t)) = SubSeq(t, 1, Len(t))
        BY <4>1, ConcatAdjacentSubSeq
      <4> QED BY <4>1, <4>2
    <3> QED BY <3>1, <3>2, SubSeqFull
  <2> DEFINE w == m \o v
  <2>6. w \in Seq(A)
    BY <2>3, <2>4, ConcatProperties
  <2>7. Without(w, S) = Without(m, S) \o Without(v, S)
    <3> HIDE DEF m, v
    <3> QED BY <2>3, <2>4, WithoutConcat
  <2>8. Without(u \o w, S) = Without(u, S) \o Without(w, S)
    <3> HIDE DEF u, w
    <3> QED BY <2>2, <2>6, WithoutConcat
  <2>9. Without(u, S) = <<>> /\ Without(v, S) = <<>>
    BY <1>1, <2>2, <2>3
  <2>10. Without(m, S) \in Seq(A)
    BY <2>4, WithoutType
  <2>11. Trim(t) = m /\ t = u \o w
    BY <2>1, <2>5
  <2> HIDE DEF u, v, m, w
  <2> QED BY <2>7, <2>8, <2>9, <2>10, <2>11, ConcatEmptySeq
<1> QED BY <1>2, <1>3, TrimParts

-----------------------------------------------------------------------------
\* Applying a function to each element.

Each(f, s) == [i \in DOMAIN s |-> f[s[i]]]

\* The image of a sequence is as long as the sequence.
LEMMA EachType ==
    ASSUME NEW A, NEW B, NEW f, \A x \in A : f[x] \in B, NEW s \in Seq(A)
    PROVE  /\ Each(f, s) \in Seq(B) /\ Len(Each(f, s)) = Len(s)
           /\ DOMAIN Each(f, s) = 1..Len(s)
           /\ \A i \in 1..Len(s) : Each(f, s)[i] = f[s[i]]
<1>1. DOMAIN s = 1..Len(s) /\ Len(s) \in Nat /\ \A i \in 1..Len(s) : s[i] \in A
  BY LenProperties, ElementOfSeq
<1> QED BY <1>1 DEF Each

LEMMA EachEmpty == ASSUME NEW f PROVE Each(f, <<>>) = <<>>
BY DEF Each

\* The image of a sequence with one more element.
LEMMA EachAppend ==
    ASSUME NEW A, NEW f, NEW s \in Seq(A), NEW e \in A
    PROVE  Each(f, Append(s, e)) = Append(Each(f, s), f[e])
<1> DEFINE B == {f[x] : x \in A}
           t == Append(s, e)
           m == Each(f, s)
           n == Each(f, t)
<1>1. /\ t \in Seq(A) /\ Len(t) = Len(s) + 1 /\ Len(s) \in Nat
      /\ \A i \in 1..Len(s) : t[i] = s[i]
      /\ t[Len(s) + 1] = e
  BY AppendProperties, LenProperties
<1>2. /\ m \in Seq(B) /\ Len(m) = Len(s)
      /\ \A i \in 1..Len(s) : m[i] = f[s[i]]
  <2>1. DOMAIN s = 1..Len(s) /\ Len(s) \in Nat /\ \A i \in 1..Len(s) : s[i] \in A
    BY LenProperties, ElementOfSeq
  <2> QED BY <2>1 DEF Each
<1> HIDE DEF t, m
<1>3. /\ n \in Seq(B) /\ DOMAIN n = 1..Len(t) /\ \A i \in 1..Len(t) : n[i] = f[t[i]]
  <2>1. t \in Seq(A)
    BY <1>1
  <2>2. DOMAIN t = 1..Len(t) /\ Len(t) \in Nat /\ \A i \in 1..Len(t) : f[t[i]] \in B
    BY <2>1, LenProperties, ElementOfSeq
  <2> HIDE DEF B
  <2> QED BY <2>2 DEF Each
<1>4. n = [i \in 1..(Len(m) + 1) |-> n[i]]
  BY <1>1, <1>2, <1>3 DEF Each
<1>5. f[e] \in B /\ (\A i \in 1..Len(m) : n[i] = m[i]) /\ n[Len(m) + 1] = f[e]
  BY <1>1, <1>2, <1>3
<1> HIDE DEF n
<1>6. n = Append(m, f[e])
  <2>1. m \in Seq(B) /\ f[e] \in B
    BY <1>2, <1>5
  <2> QED BY <1>4, <1>5, <2>1, IsAppend
<1> QED BY <1>6 DEF n, m, t

-----------------------------------------------------------------------------
\* The texts of a column.

TrimEach(column) == [i \in DOMAIN column |-> Trim(column[i])]

\* One more text is trimmed at the end.
LEMMA TrimEachAppend ==
    ASSUME NEW A, NEW col \in Seq(Seq(A)), NEW e \in Seq(A)
    PROVE  /\ TrimEach(col) \in Seq(Seq(A)) /\ Len(TrimEach(col)) = Len(col)
           /\ TrimEach(Append(col, e)) = Append(TrimEach(col), Trim(e))
<1> DEFINE f == [t \in Seq(A) |-> Trim(t)]
<1>1. (\A t \in Seq(A) : f[t] \in Seq(A)) /\ f[e] = Trim(e)
  BY TrimType
<1>2. ASSUME NEW c \in Seq(Seq(A)) PROVE TrimEach(c) = Each(f, c)
  <2>1. \A i \in DOMAIN c : c[i] \in Seq(A)
    BY LenProperties, ElementOfSeq
  <2> QED BY <2>1 DEF TrimEach, Each
<1>3. Append(col, e) \in Seq(Seq(A))
  BY AppendProperties
<1>4. TrimEach(col) = Each(f, col) /\ TrimEach(Append(col, e)) = Each(f, Append(col, e))
  BY <1>2, <1>3
<1> HIDE DEF f
<1>5. Each(f, col) \in Seq(Seq(A)) /\ Len(Each(f, col)) = Len(col)
  <2>1. DOMAIN col = 1..Len(col) /\ Len(col) \in Nat /\ \A i \in 1..Len(col) : f[col[i]] \in Seq(A)
    BY <1>1, LenProperties, ElementOfSeq
  <2> QED BY <2>1 DEF Each
<1>6. Each(f, Append(col, e)) = Append(Each(f, col), f[e])
  BY <1>1, EachAppend
<1> QED BY <1>1, <1>4, <1>5, <1>6

\* What extract keeps of a column are its texts that are not blank, trimmed.
LEMMA TextsTrimmed ==
    ASSUME NEW A, NEW col \in Seq(Seq(A))
    PROVE  Texts(col) = TrimEach(Without(col, Blank))
<1> DEFINE T == {u \in Seq(Seq(A)) : Texts(u) = TrimEach(Without(u, Blank))}
<1>0. \A u : Texts(u) = Without(TrimEach(u), {<<>>})
  BY DEF Texts, TrimEach, NonEmpty
<1>1. <<>> \in T
  <2>1. TrimEach(<<>>) = <<>>
    BY DEF TrimEach
  <2> QED BY <1>0, <2>1, WithoutEmpty, EmptySeq
<1>2. ASSUME NEW u \in Seq(Seq(A)), NEW e \in Seq(A), u \in T PROVE Append(u, e) \in T
  <2> DEFINE m == TrimEach(u)
             n == Without(u, Blank)
             r == Trim(e)
  <2>1. Append(u, e) \in Seq(Seq(A)) /\ m \in Seq(Seq(A)) /\ n \in Seq(Seq(A)) /\ r \in Seq(A)
    BY AppendProperties, TrimEachAppend, WithoutType, TrimType
  <2>2. r = <<>> <=> e \in Blank
    BY TrimBlank DEF Blank
  <2>3. TrimEach(Append(u, e)) = Append(m, r)
    BY TrimEachAppend
  <2>4. Without(Append(u, e), Blank) = IF e \in Blank THEN n ELSE Append(n, e)
    BY WithoutAppend
  <2>5. Without(m, {<<>>}) = TrimEach(n)
    BY <1>0, <1>2
  <2>6. Texts(Append(u, e)) = Without(Append(m, r), {<<>>})
    BY <1>0, <2>3
  <2> HIDE DEF m, n, r
  <2>7. Without(Append(m, r), {<<>>}) = IF r \in {<<>>} THEN Without(m, {<<>>}) ELSE Append(Without(m, {<<>>}), r)
    <3>1. m \in Seq(Seq(A)) /\ r \in Seq(A)
      BY <2>1
    <3> QED BY <3>1, WithoutAppend
  <2>8. TrimEach(Append(n, e)) = Append(TrimEach(n), r)
    <3>1. n \in Seq(Seq(A)) /\ e \in Seq(A)
      BY <2>1
    <3> QED BY <3>1, TrimEachAppend DEF r
  <2> QED BY <2>1, <2>2, <2>4, <2>5, <2>6, <2>7, <2>8
<1>3. Seq(Seq(A)) \subseteq T
  <2> HIDE DEF T
  <2> QED BY <1>1, <1>2, SeqInduct
<1> QED BY <1>3

-----------------------------------------------------------------------------
\* The rows of a page.

Wide(columns) == Max({Len(columns[c]) : c \in DOMAIN columns} \cup {0})
RowsOf(columns) ==
    [i \in 1..Wide(columns) |-> [c \in DOMAIN columns |-> Cell(columns[c], i)]]
JoinEach(rs, sep) == [i \in DOMAIN rs |-> Join(rs[i], sep)]

\* A page is as high as the longest of its columns.
LEMMA WideHolds ==
    ASSUME NEW A, NEW cols \in Seq(Seq(A))
    PROVE  /\ Wide(cols) \in Nat
           /\ \A c \in DOMAIN cols : Len(cols[c]) <= Wide(cols)
           /\ Wide(cols) = 0 \/ \E c \in DOMAIN cols : Len(cols[c]) = Wide(cols)
<1> DEFINE lens(s) == {Len(s[c]) : c \in DOMAIN s} \cup {0}
           T == {s \in Seq(Seq(A)) : \E n \in Nat : lens(s) \subseteq 0..n}
<1>1. <<>> \in T
  <2>1. lens(<<>>) \subseteq 0..0
    OBVIOUS
  <2> QED BY <2>1, EmptySeq
<1>2. ASSUME NEW s \in Seq(Seq(A)), NEW e \in Seq(A), s \in T PROVE Append(s, e) \in T
  <2>1. PICK n \in Nat : lens(s) \subseteq 0..n
    BY <1>2
  <2>2. Len(e) \in Nat /\ n + Len(e) \in Nat
    BY LenProperties
  <2>3. /\ DOMAIN s = 1..Len(s) /\ DOMAIN Append(s, e) = 1..(Len(s) + 1) /\ Len(s) \in Nat
        /\ \A i \in 1..Len(s) : Append(s, e)[i] = s[i]
        /\ Append(s, e)[Len(s) + 1] = e /\ Append(s, e) \in Seq(Seq(A))
    BY AppendProperties, LenProperties
  <2>4. ASSUME NEW c \in DOMAIN Append(s, e) PROVE Len(Append(s, e)[c]) \in 0..(n + Len(e))
    <3>1. CASE c \in DOMAIN s
      <4>1. Len(s[c]) \in 0..n /\ Append(s, e)[c] = s[c]
        BY <2>1, <2>3, <3>1
      <4> QED BY <2>2, <4>1
    <3>2. CASE c = Len(s) + 1
      BY <2>2, <2>3, <3>2
    <3> QED BY <2>3, <3>1, <3>2
  <2>5. lens(Append(s, e)) \subseteq 0..(n + Len(e))
    BY <2>2, <2>4
  <2> QED BY <2>2, <2>3, <2>5
<1>3. cols \in T
  <2>1. Seq(Seq(A)) \subseteq T
    <3> HIDE DEF T
    <3> QED BY <1>1, <1>2, SeqInduct
  <2> QED BY <2>1
<1>4. PICK n \in Nat : lens(cols) \subseteq 0..n
  BY <1>3
<1> DEFINE I == lens(cols)
<1>5. I # {} /\ Wide(cols) = Max(I)
  BY DEF Wide
<1>6. Max(I) \in I /\ \A k \in I : Max(I) >= k
  <2>1. I \subseteq 0..n
    BY <1>4
  <2> HIDE DEF I
  <2> QED BY <1>5, <2>1, MaxOf
<1> DEFINE w == Max(I)
<1>7. w \in I /\ \A k \in I : w >= k
  BY <1>6
<1>8. Wide(cols) = w
  BY <1>5
<1> HIDE DEF w
<1>9. \A c \in DOMAIN cols : Len(cols[c]) \in I
  OBVIOUS
<1>10. I \subseteq Nat
  BY <1>4
<1> QED BY <1>7, <1>8, <1>9, <1>10

\* A cell holds a text.
LEMMA CellType ==
    ASSUME NEW A, NEW cells \in Seq(Seq(A)), NEW i \in Nat \ {0} PROVE Cell(cells, i) \in Seq(A)
<1>1. CASE i <= Len(cells)
  <2>1. i \in 1..Len(cells)
    BY <1>1, LenProperties
  <2>2. cells[i] \in Seq(A)
    BY <2>1, ElementOfSeq
  <2> QED BY <1>1, <2>2 DEF Cell
<1>2. CASE ~(i <= Len(cells))
  BY <1>2, EmptySeq DEF Cell
<1> QED BY <1>1, <1>2

\* A page has a row for every line of its longest column.
LEMMA RowsType ==
    ASSUME NEW A, NEW cs \in Seq(Seq(Seq(A)))
    PROVE  /\ RowsOf(cs) \in Seq(Seq(Seq(A))) /\ Len(RowsOf(cs)) = Wide(cs)
           /\ Wide(cs) \in Nat /\ Len(cs) \in Nat /\ DOMAIN cs = 1..Len(cs)
           /\ \A i \in 1..Wide(cs) : /\ Len(RowsOf(cs)[i]) = Len(cs)
                                     /\ RowsOf(cs)[i] \in Seq(Seq(A))
                                     /\ \A c \in 1..Len(cs) : RowsOf(cs)[i][c] = Cell(cs[c], i)
<1> DEFINE row(i) == [c \in DOMAIN cs |-> Cell(cs[c], i)]
<1>1. Wide(cs) \in Nat /\ Len(cs) \in Nat /\ DOMAIN cs = 1..Len(cs) /\ \A c \in 1..Len(cs) : cs[c] \in Seq(Seq(A))
  BY WideHolds, LenProperties, ElementOfSeq
<1>2. ASSUME NEW i \in 1..Wide(cs)
      PROVE  row(i) \in Seq(Seq(A)) /\ Len(row(i)) = Len(cs) /\ \A c \in 1..Len(cs) : row(i)[c] = Cell(cs[c], i)
  <2>1. i \in Nat \ {0}
    BY <1>1
  <2>2. \A c \in 1..Len(cs) : Cell(cs[c], i) \in Seq(A)
    BY <1>1, <2>1, CellType
  <2> QED BY <1>1, <2>2
<1>3. RowsOf(cs) = [i \in 1..Wide(cs) |-> row(i)]
  BY DEF RowsOf
<1> HIDE DEF row
<1>4. \A i \in 1..Wide(cs) : RowsOf(cs)[i] = row(i)
  BY <1>3
<1>5. RowsOf(cs) \in Seq(Seq(Seq(A))) /\ Len(RowsOf(cs)) = Wide(cs)
  <2>1. \A i \in 1..Wide(cs) : row(i) \in Seq(Seq(A))
    BY <1>2
  <2> QED BY <1>1, <1>3, <2>1
<1> QED BY <1>1, <1>2, <1>4, <1>5

\* Joined rows are texts.
LEMMA JoinEachType ==
    ASSUME NEW A, NEW rs \in Seq(Seq(Seq(A))), NEW sep \in A
    PROVE  /\ JoinEach(rs, sep) \in Seq(Seq(A)) /\ Len(JoinEach(rs, sep)) = Len(rs)
           /\ Len(rs) \in Nat /\ DOMAIN rs = 1..Len(rs)
           /\ \A i \in 1..Len(rs) : JoinEach(rs, sep)[i] = Join(rs[i], sep) /\ rs[i] \in Seq(Seq(A))
<1>1. DOMAIN rs = 1..Len(rs) /\ Len(rs) \in Nat /\ \A i \in 1..Len(rs) : rs[i] \in Seq(Seq(A))
  BY LenProperties, ElementOfSeq
<1>2. \A i \in 1..Len(rs) : Join(rs[i], sep) \in Seq(A)
  BY <1>1, JoinType
<1> QED BY <1>1, <1>2 DEF JoinEach

\* Zipping joins rows.
LEMMA ZipRows ==
    ASSUME NEW cs PROVE zipColumns(cs) = Join(JoinEach(RowsOf(cs), Bar), NL)
<1> DEFINE row(i) == [c \in DOMAIN cs |-> Cell(cs[c], i)]
<1>1. DOMAIN RowsOf(cs) = 1..Wide(cs) /\ \A i \in 1..Wide(cs) : RowsOf(cs)[i] = row(i)
  BY DEF RowsOf
<1>2. zipColumns(cs) = Join([i \in 1..Wide(cs) |-> Join(row(i), Bar)], NL)
  BY DEF zipColumns, Wide
<1> HIDE DEF row
<1>3. JoinEach(RowsOf(cs), Bar) = [i \in 1..Wide(cs) |-> Join(row(i), Bar)]
  BY <1>1 DEF JoinEach
<1> QED BY <1>2, <1>3

\* One column is zipped to itself.
LEMMA ZipOne ==
    ASSUME NEW A, Bar \in A, NEW cs \in Seq(Seq(Seq(A))), Len(cs) = 1
    PROVE  zipColumns(cs) = Join(cs[1], NL)
<1> DEFINE col == cs[1]
<1>1. col \in Seq(Seq(A)) /\ DOMAIN cs = 1..1
  BY LenProperties, ElementOfSeq
<1>2. Wide(cs) = Len(col) /\ Len(col) \in Nat /\ DOMAIN col = 1..Len(col)
  <2>1. /\ Wide(cs) \in Nat /\ Len(col) <= Wide(cs)
        /\ Wide(cs) = 0 \/ Len(col) = Wide(cs)
    BY <1>1, WideHolds
  <2>2. Len(col) \in Nat /\ DOMAIN col = 1..Len(col)
    BY <1>1, LenProperties
  <2> HIDE DEF col
  <2> QED BY <2>1, <2>2
<1>3. /\ RowsOf(cs) \in Seq(Seq(Seq(A))) /\ Len(RowsOf(cs)) = Wide(cs)
      /\ \A i \in 1..Wide(cs) : RowsOf(cs)[i] = <<Cell(col, i)>>
  <2>1. /\ RowsOf(cs) \in Seq(Seq(Seq(A))) /\ Len(RowsOf(cs)) = Wide(cs)
    BY RowsType
  <2>2. \A i \in 1..Wide(cs) : RowsOf(cs)[i] = [c \in 1..1 |-> Cell(cs[c], i)]
    BY <1>1 DEF RowsOf
  <2>3. ASSUME NEW i PROVE [c \in 1..1 |-> Cell(cs[c], i)] = <<Cell(col, i)>>
    OBVIOUS
  <2> QED BY <2>1, <2>2, <2>3
<1> HIDE DEF col
<1>4. /\ JoinEach(RowsOf(cs), Bar) \in Seq(Seq(A)) /\ Len(JoinEach(RowsOf(cs), Bar)) = Len(col)
      /\ \A i \in 1..Len(col) : JoinEach(RowsOf(cs), Bar)[i] = Join(RowsOf(cs)[i], Bar)
  BY <1>2, <1>3, JoinEachType
<1>5. ASSUME NEW i \in 1..Len(col) PROVE JoinEach(RowsOf(cs), Bar)[i] = col[i]
  <2>1. Cell(col, i) = col[i] /\ col[i] \in Seq(A)
    BY <1>1, <1>2, ElementOfSeq DEF Cell
  <2>2. Join(<<col[i]>>, Bar) = col[i]
    BY <2>1, JoinOne
  <2> QED BY <1>2, <1>3, <1>4, <2>1, <2>2
<1>6. JoinEach(RowsOf(cs), Bar) = col
  <2>1. JoinEach(RowsOf(cs), Bar) \in Seq(Seq(A))
    BY <1>4
  <2> QED BY <1>1, <1>4, <1>5, <2>1, SeqEqual
<1> QED BY <1>6, ZipRows DEF col

-----------------------------------------------------------------------------
\* The words of rows.

\* Rows whose cells have the same words have the same words.
LEMMA FlatWords ==
    ASSUME NEW A, NEW R \in Seq(Seq(Seq(A))), NEW Q \in Seq(Seq(Seq(A))), NEW S, Len(R) = Len(Q),
           \A i \in 1..Len(R) : /\ Len(R[i]) = Len(Q[i])
                                /\ \A c \in 1..Len(R[i]) : Without(R[i][c], S) = Without(Q[i][c], S)
    PROVE  Without(FlattenSeq(FlattenSeq(R)), S) = Without(FlattenSeq(FlattenSeq(Q)), S)
<1>1. ASSUME NEW X \in Seq(Seq(Seq(A)))
      PROVE  /\ FlattenEach(X) \in Seq(Seq(A)) /\ DOMAIN FlattenEach(X) = 1..Len(X)
             /\ \A i \in 1..Len(X) : FlattenEach(X)[i] = FlattenSeq(X[i]) /\ X[i] \in Seq(Seq(A))
             /\ Without(FlattenSeq(FlattenSeq(X)), S) = FlattenSeq(WithoutEach(FlattenEach(X), S))
  <2>0. <<>> \in Seq(Seq(A))
    BY EmptySeq
  <2>1. FlattenEach(X) \in Seq(Seq(A))
    BY <2>0, FlattenEachAppend
  <2>2. DOMAIN X = 1..Len(X) /\ \A i \in 1..Len(X) : X[i] \in Seq(Seq(A))
    BY LenProperties, ElementOfSeq
  <2>3. FlattenSeq(FlattenSeq(X)) = FlattenSeq(FlattenEach(X))
    BY FlattenFlatten
  <2>4. Without(FlattenSeq(FlattenEach(X)), S) = FlattenSeq(WithoutEach(FlattenEach(X), S))
    BY <2>1, WithoutFlatten
  <2> QED BY <2>1, <2>2, <2>3, <2>4 DEF FlattenEach
<1>2. ASSUME NEW i \in 1..Len(R) PROVE Without(FlattenSeq(R[i]), S) = Without(FlattenSeq(Q[i]), S)
  <2> DEFINE r == R[i]
             q == Q[i]
  <2>1. r \in Seq(Seq(A)) /\ q \in Seq(Seq(A))
    BY <1>1
  <2>2. Len(r) = Len(q) /\ \A c \in 1..Len(r) : Without(r[c], S) = Without(q[c], S)
    OBVIOUS
  <2> HIDE DEF r, q
  <2>3. Without(FlattenSeq(r), S) = FlattenSeq(WithoutEach(r, S)) /\ Without(FlattenSeq(q), S) = FlattenSeq(WithoutEach(q, S))
    BY <2>1, WithoutFlatten
  <2>4. DOMAIN r = 1..Len(r) /\ DOMAIN q = 1..Len(r)
    BY <2>1, <2>2, LenProperties
  <2>5. WithoutEach(r, S) = WithoutEach(q, S)
    BY <2>2, <2>4 DEF WithoutEach
  <2> QED BY <2>3, <2>5 DEF r, q
<1>3. WithoutEach(FlattenEach(R), S) = WithoutEach(FlattenEach(Q), S)
  BY <1>1, <1>2 DEF WithoutEach
<1> QED BY <1>1, <1>3

\* Joining cells to rows and rows to a text loses no word.
LEMMA JoinedWords ==
    ASSUME NEW A, NEW b \in A, NEW n \in A, NEW R \in Seq(Seq(Seq(A))), NEW S, b \in S, n \in S
    PROVE  Without(Join(JoinEach(R, b), n), S) = Without(FlattenSeq(FlattenSeq(R)), S)
<1> DEFINE J == JoinEach(R, b)
           F == FlattenEach(R)
<1>1. /\ J \in Seq(Seq(A)) /\ Len(J) = Len(R) /\ DOMAIN R = 1..Len(R)
      /\ \A i \in 1..Len(R) : J[i] = Join(R[i], b) /\ R[i] \in Seq(Seq(A))
  BY JoinEachType
<1>2. F \in Seq(Seq(A)) /\ DOMAIN F = 1..Len(R) /\ \A i \in 1..Len(R) : F[i] = FlattenSeq(R[i])
  <2>0. <<>> \in Seq(Seq(A))
    BY EmptySeq
  <2>1. FlattenEach(R) \in Seq(Seq(A))
    BY <2>0, FlattenEachAppend
  <2> QED BY <1>1, <2>1 DEF FlattenEach
<1>3. \A i \in 1..Len(R) : Without(J[i], S) = Without(F[i], S)
  <2> SUFFICES ASSUME NEW i \in 1..Len(R) PROVE Without(J[i], S) = Without(F[i], S)
    OBVIOUS
  <2>1. R[i] \in Seq(Seq(A))
    BY <1>1
  <2>2. Without(Join(R[i], b), S) = Without(FlattenSeq(R[i]), S)
    BY <2>1, JoinWords
  <2> QED BY <1>1, <1>2, <2>2
<1>4. FlattenSeq(FlattenSeq(R)) = FlattenSeq(F)
  BY FlattenFlatten
<1> HIDE DEF J, F
<1>5. Without(Join(J, n), S) = Without(FlattenSeq(J), S)
  BY <1>1, JoinWords
<1>6. Without(FlattenSeq(J), S) = FlattenSeq(WithoutEach(J, S)) /\ Without(FlattenSeq(F), S) = FlattenSeq(WithoutEach(F, S))
  <2>1. J \in Seq(Seq(A)) /\ F \in Seq(Seq(A))
    BY <1>1, <1>2
  <2> QED BY <2>1, WithoutFlatten
<1>7. WithoutEach(J, S) = WithoutEach(F, S)
  <2>1. DOMAIN J = 1..Len(R)
    BY <1>1, LenProperties
  <2> QED BY <1>2, <1>3, <2>1 DEF WithoutEach
<1> QED BY <1>4, <1>5, <1>6, <1>7 DEF J, F

-----------------------------------------------------------------------------
\* The words of a page.

Char == Words \cup {Bar, NL}
Separators == {Bar, NL}

\* The texts of a page that are not blank.
Shown(p) == [c \in DOMAIN site[p].columns |-> Without(site[p].columns[c], Blank)]

LEMMA Separates == Bar \in Char /\ NL \in Char /\ Text = Seq(Char)
BY DEF Char, Text

\* The columns a page shows are those a scrape finds, before trimming.
LEMMA ColumnsOf ==
    ASSUME site \in Site, NEW p \in Pages
    PROVE  /\ Shown(p) \in Seq(Seq(Seq(Char))) /\ Columns(p) \in Seq(Seq(Seq(Char)))
           /\ Len(Shown(p)) = Len(site[p].columns) /\ Len(Columns(p)) = Len(site[p].columns)
           /\ Len(site[p].columns) \in Nat
           /\ DOMAIN Shown(p) = 1..Len(site[p].columns) /\ DOMAIN Columns(p) = 1..Len(site[p].columns)
           /\ \A c \in 1..Len(site[p].columns) :
                 /\ site[p].columns[c] \in Seq(Seq(Char)) /\ Shown(p)[c] \in Seq(Seq(Char))
                 /\ Shown(p)[c] = Without(site[p].columns[c], Blank)
                 /\ Columns(p)[c] = TrimEach(Shown(p)[c])
<1> DEFINE cs == site[p].columns
<1>1. cs \in Seq(Seq(Seq(Char)))
  BY DEF Site, Text, Char
<1> HIDE DEF cs
<1>2. Len(cs) \in Nat /\ DOMAIN cs = 1..Len(cs) /\ \A c \in 1..Len(cs) : cs[c] \in Seq(Seq(Char))
  BY <1>1, LenProperties, ElementOfSeq
<1>3. ASSUME NEW c \in 1..Len(cs)
      PROVE  /\ Without(cs[c], Blank) \in Seq(Seq(Char)) /\ Texts(cs[c]) \in Seq(Seq(Char))
             /\ Texts(cs[c]) = TrimEach(Without(cs[c], Blank))
  <2> DEFINE col == cs[c]
             n == Without(col, Blank)
  <2>1. col \in Seq(Seq(Char))
    BY <1>2
  <2> HIDE DEF col
  <2>2. n \in Seq(Seq(Char)) /\ Texts(col) = TrimEach(n)
    BY <2>1, WithoutType, TextsTrimmed
  <2> HIDE DEF n
  <2>3. TrimEach(n) \in Seq(Seq(Char))
    <3>1. <<>> \in Seq(Char)
      BY EmptySeq
    <3> QED BY <2>2, <3>1, TrimEachAppend
  <2> QED BY <2>2, <2>3 DEF n, col
<1>4. Shown(p) = [c \in 1..Len(cs) |-> Without(cs[c], Blank)] /\ Columns(p) = [c \in 1..Len(cs) |-> Texts(cs[c])]
  BY <1>2 DEF Shown, Columns, cs
<1>5. Shown(p) \in Seq(Seq(Seq(Char))) /\ Len(Shown(p)) = Len(cs)
  BY <1>2, <1>3, <1>4
<1>6. Columns(p) \in Seq(Seq(Seq(Char))) /\ Len(Columns(p)) = Len(cs)
  BY <1>2, <1>3, <1>4
<1>7. \A c \in 1..Len(cs) : /\ Shown(p)[c] = Without(cs[c], Blank) /\ Shown(p)[c] \in Seq(Seq(Char))
                            /\ Columns(p)[c] = TrimEach(Shown(p)[c])
  BY <1>3, <1>4
<1> QED BY <1>2, <1>4, <1>5, <1>6, <1>7 DEF cs

\* What is trimmed and what is not stands in the same places.
LEMMA TrimmedColumn ==
    ASSUME NEW A, NEW col \in Seq(Seq(A))
    PROVE  /\ TrimEach(col) \in Seq(Seq(A)) /\ Len(TrimEach(col)) = Len(col) /\ Len(col) \in Nat
           /\ \A i \in Nat \ {0} : Cell(TrimEach(col), i) = Trim(Cell(col, i)) /\ Cell(col, i) \in Seq(A)
<1>1. TrimEach(col) \in Seq(Seq(A)) /\ Len(TrimEach(col)) = Len(col)
  <2>1. <<>> \in Seq(A)
    BY EmptySeq
  <2> QED BY <2>1, TrimEachAppend
<1>2. Len(col) \in Nat /\ DOMAIN col = 1..Len(col)
  BY LenProperties
<1>3. Trim(<<>>) = <<>>
  <2>1. <<>> \in Seq({NL})
    BY EmptySeq
  <2> QED BY <2>1, TrimBlank
<1>4. ASSUME NEW i \in Nat \ {0} PROVE Cell(TrimEach(col), i) = Trim(Cell(col, i))
  <2>1. CASE i <= Len(col)
    <3>1. i \in DOMAIN col
      BY <1>2, <2>1
    <3> QED BY <1>1, <2>1, <3>1 DEF Cell, TrimEach
  <2>2. CASE ~(i <= Len(col))
    BY <1>1, <1>3, <2>2 DEF Cell
  <2> QED BY <2>1, <2>2
<1> QED BY <1>1, <1>2, <1>4, CellType

\* Columns of the same lengths make pages of the same height.
LEMMA WideEqual ==
    ASSUME NEW A, NEW cs \in Seq(Seq(A)), NEW ds \in Seq(Seq(A)), Len(cs) = Len(ds),
           \A c \in 1..Len(cs) : Len(cs[c]) = Len(ds[c])
    PROVE  Wide(cs) = Wide(ds)
<1>1. DOMAIN cs = 1..Len(cs) /\ DOMAIN ds = 1..Len(cs)
  BY LenProperties
<1>2. {Len(cs[c]) : c \in DOMAIN cs} = {Len(ds[c]) : c \in DOMAIN ds}
  BY <1>1
<1> QED BY <1>2 DEF Wide

\* Trimming moves no cell of a page.
LEMMA ColumnsAligned ==
    ASSUME site \in Site, NEW p \in Pages
    PROVE  /\ Wide(Columns(p)) = Wide(Shown(p)) /\ Wide(Shown(p)) \in Nat
           /\ \A c \in 1..Len(site[p].columns), i \in 1..Wide(Shown(p)) :
                 /\ Cell(Columns(p)[c], i) = Trim(Cell(Shown(p)[c], i))
                 /\ Cell(Shown(p)[c], i) \in Seq(Char)
<1> DEFINE cs == Columns(p)
           ds == Shown(p)
           n == Len(site[p].columns)
<1>1. /\ cs \in Seq(Seq(Seq(Char))) /\ ds \in Seq(Seq(Seq(Char))) /\ Len(cs) = n /\ Len(ds) = n
      /\ \A c \in 1..n : ds[c] \in Seq(Seq(Char)) /\ cs[c] = TrimEach(ds[c])
  BY ColumnsOf
<1> HIDE DEF cs, ds, n
<1>2. ASSUME NEW c \in 1..n
      PROVE  Len(cs[c]) = Len(ds[c]) /\ \A i \in Nat \ {0} : Cell(cs[c], i) = Trim(Cell(ds[c], i)) /\ Cell(ds[c], i) \in Seq(Char)
  <2> DEFINE col == ds[c]
  <2>1. col \in Seq(Seq(Char)) /\ cs[c] = TrimEach(col)
    BY <1>1
  <2> HIDE DEF col
  <2>2. /\ Len(TrimEach(col)) = Len(col)
        /\ \A i \in Nat \ {0} : Cell(TrimEach(col), i) = Trim(Cell(col, i)) /\ Cell(col, i) \in Seq(Char)
    BY <2>1, TrimmedColumn
  <2> QED BY <2>1, <2>2 DEF col
<1>3. Wide(cs) = Wide(ds) /\ Wide(ds) \in Nat
  <2>1. cs \in Seq(Seq(Seq(Char))) /\ ds \in Seq(Seq(Seq(Char))) /\ Len(cs) = Len(ds)
    BY <1>1
  <2>2. \A c \in 1..Len(cs) : Len(cs[c]) = Len(ds[c])
    BY <1>1, <1>2
  <2> QED BY <2>1, <2>2, WideEqual, WideHolds
<1>4. \A i \in 1..Wide(ds) : i \in Nat \ {0}
  BY <1>3
<1> QED BY <1>2, <1>3, <1>4 DEF cs, ds, n

\* A table of a page are the rows of what it shows.
LEMMA PageRows == ASSUME NEW p PROVE PageTable(p) = RowsOf(Shown(p))
<1> DEFINE cs == Shown(p)
<1>1. PageTable(p) = LET columns == cs
                         height == Max({Len(columns[c]) : c \in DOMAIN columns} \cup {0})
                     IN  [i \in 1..height |-> [c \in DOMAIN columns |-> Cell(columns[c], i)]]
  BY DEF PageTable, Shown
<1> HIDE DEF cs
<1>2. PageTable(p) = RowsOf(cs)
  BY <1>1 DEF RowsOf, Wide
<1> QED BY <1>2 DEF cs

\* The text extracted are the rows of what was found, joined.
LEMMA ExtractedRows ==
    ASSUME site \in Site, NEW p \in Pages
    PROVE  Extracted(p) = Join(JoinEach(RowsOf(Columns(p)), Bar), NL)
<1>1. CASE Len(Columns(p)) = 1
  <2>1. Columns(p) \in Seq(Seq(Seq(Char))) /\ Bar \in Char
    BY ColumnsOf, Separates
  <2>2. zipColumns(Columns(p)) = Join(Columns(p)[1], NL)
    BY <1>1, <2>1, ZipOne
  <2> QED BY <1>1, <2>2, ZipRows DEF Extracted
<1>2. CASE Len(Columns(p)) # 1
  BY <1>2, ZipRows DEF Extracted
<1> QED BY <1>1, <1>2

PageWords(p) == Without(FlattenSeq(FlattenSeq(PageTable(p))), Separators)

\* The text extracted from a page has the words its table has.
LEMMA ExtractedWords ==
    ASSUME site \in Site, NEW p \in Pages
    PROVE  /\ PageTable(p) \in Seq(Seq(Seq(Char))) /\ PageWords(p) \in Seq(Char)
           /\ Extracted(p) \in Seq(Char)
           /\ Without(Extracted(p), Separators) = PageWords(p)
<1> DEFINE cs == Columns(p)
           ds == Shown(p)
           n == Len(site[p].columns)
           R == RowsOf(cs)
           Q == RowsOf(ds)
<1>1. cs \in Seq(Seq(Seq(Char))) /\ ds \in Seq(Seq(Seq(Char))) /\ Len(cs) = n /\ Len(ds) = n
  BY ColumnsOf
<1>2. /\ Wide(cs) = Wide(ds) /\ Wide(ds) \in Nat
      /\ \A c \in 1..n, i \in 1..Wide(ds) : Cell(cs[c], i) = Trim(Cell(ds[c], i)) /\ Cell(ds[c], i) \in Seq(Char)
  BY ColumnsAligned
<1> HIDE DEF cs, ds, n
<1>3. /\ R \in Seq(Seq(Seq(Char))) /\ Len(R) = Wide(cs)
      /\ \A i \in 1..Wide(cs) : Len(R[i]) = Len(cs) /\ \A c \in 1..Len(cs) : R[i][c] = Cell(cs[c], i)
  BY <1>1, RowsType
<1>4. /\ Q \in Seq(Seq(Seq(Char))) /\ Len(Q) = Wide(ds)
      /\ \A i \in 1..Wide(ds) : Len(Q[i]) = Len(ds) /\ \A c \in 1..Len(ds) : Q[i][c] = Cell(ds[c], i)
  BY <1>1, RowsType
<1> HIDE DEF R, Q
<1>5. \A t \in Seq(Char) : Without(Trim(t), Separators) = Without(t, Separators)
  <2>1. NL \in Separators
    BY DEF Separators
  <2> QED BY <2>1, TrimWords
<1>6. Len(R) = Len(Q) /\ \A i \in 1..Len(R) :
         /\ Len(R[i]) = Len(Q[i])
         /\ \A c \in 1..Len(R[i]) : Without(R[i][c], Separators) = Without(Q[i][c], Separators)
  BY <1>1, <1>2, <1>3, <1>4, <1>5
<1>7. Without(FlattenSeq(FlattenSeq(R)), Separators) = Without(FlattenSeq(FlattenSeq(Q)), Separators)
  BY <1>3, <1>4, <1>6, FlatWords
<1>8. Bar \in Char /\ NL \in Char /\ Bar \in Separators /\ NL \in Separators
  BY Separates DEF Separators
<1>9. Without(Join(JoinEach(R, Bar), NL), Separators) = Without(FlattenSeq(FlattenSeq(R)), Separators)
  BY <1>3, <1>8, JoinedWords
<1>10. Extracted(p) = Join(JoinEach(R, Bar), NL)
  BY ExtractedRows DEF R, cs
<1>11. Extracted(p) \in Seq(Char)
  <2>1. JoinEach(R, Bar) \in Seq(Seq(Char))
    BY <1>3, <1>8, JoinEachType
  <2> QED BY <1>8, <1>10, <2>1, JoinType
<1>12. PageTable(p) = Q
  BY PageRows DEF Q, ds
<1>13. Without(FlattenSeq(FlattenSeq(Q)), Separators) \in Seq(Char)
  <2>1. FlattenSeq(Q) \in Seq(Seq(Char))
    BY <1>4, FlattenType
  <2>2. FlattenSeq(FlattenSeq(Q)) \in Seq(Char)
    BY <2>1, FlattenType
  <2> QED BY <2>2, WithoutType
<1> QED BY <1>4, <1>7, <1>9, <1>10, <1>11, <1>12, <1>13 DEF PageWords

\* The pages that are left out have nothing to show.
Textless == {p \in Pages : Range(Columns(p)) = {<<>>}}

\* The table of a page without texts is empty.
LEMMA TextlessPage ==
    ASSUME site \in Site, NEW p \in Textless
    PROVE  PageTable(p) = <<>>
<1> DEFINE cs == Columns(p)
           n == Len(site[p].columns)
<1>0. p \in Pages /\ Range(cs) = {<<>>}
  BY DEF Textless
<1>1. /\ cs \in Seq(Seq(Seq(Char))) /\ DOMAIN cs = 1..n
      /\ Wide(cs) = Wide(Shown(p)) /\ Wide(cs) \in Nat
  BY <1>0, ColumnsOf, ColumnsAligned
<1> HIDE DEF cs, n
<1>2. \A c \in DOMAIN cs : cs[c] = <<>>
  BY <1>0 DEF Range
<1>3. Wide(cs) = 0
  <2>1. Wide(cs) = 0 \/ \E c \in DOMAIN cs : Len(cs[c]) = Wide(cs)
    BY <1>1, WideHolds
  <2>2. Len(<<>>) = 0
    BY EmptySeq
  <2> QED BY <1>2, <2>1, <2>2
<1>4. PageTable(p) = [i \in 1..0 |-> [c \in DOMAIN Shown(p) |-> Cell(Shown(p)[c], i)]]
  BY <1>1, <1>3, PageRows DEF RowsOf
<1> QED BY <1>4

-----------------------------------------------------------------------------
\* The words of several pages.

\* Elements without an image are not missed in what is flattened.
LEMMA DropEmpty ==
    ASSUME NEW A, NEW B, NEW f \in [A -> Seq(B)], NEW S, \A x \in A \cap S : f[x] = <<>>, NEW s \in Seq(A)
    PROVE  FlattenSeq(Each(f, Without(s, S))) = FlattenSeq(Each(f, s))
<1> DEFINE T == {u \in Seq(A) : FlattenSeq(Each(f, Without(u, S))) = FlattenSeq(Each(f, u))}
<1>1. <<>> \in T
  BY WithoutEmpty, EmptySeq
<1>2. ASSUME NEW u \in Seq(A), NEW e \in A, u \in T PROVE Append(u, e) \in T
  <2> DEFINE m == Without(u, S)
             x == Each(f, m)
             y == Each(f, u)
  <2>1. Append(u, e) \in Seq(A) /\ m \in Seq(A) /\ f[e] \in Seq(B)
    BY AppendProperties, WithoutType
  <2>2. Without(Append(u, e), S) = IF e \in S THEN m ELSE Append(m, e)
    BY WithoutAppend
  <2>3. Each(f, Append(u, e)) = Append(y, f[e])
    BY EachAppend
  <2>4. FlattenSeq(x) = FlattenSeq(y)
    BY <1>2
  <2> HIDE DEF m
  <2>5. Each(f, Append(m, e)) = Append(x, f[e])
    <3>1. m \in Seq(A)
      BY <2>1
    <3> QED BY <3>1, EachAppend
  <2>6. x \in Seq(Seq(B)) /\ y \in Seq(Seq(B))
    BY <2>1, EachType
  <2> HIDE DEF x, y
  <2>7. FlattenSeq(Append(x, f[e])) = FlattenSeq(x) \o f[e] /\ FlattenSeq(x) \in Seq(B)
    BY <2>1, <2>6, FlattenAppend
  <2>8. FlattenSeq(Append(y, f[e])) = FlattenSeq(y) \o f[e]
    BY <2>1, <2>6, FlattenAppend
  <2>9. CASE e \in S
    <3>1. FlattenSeq(y) \o f[e] = FlattenSeq(y)
      BY <2>4, <2>7, <2>9, ConcatEmptySeq
    <3>2. FlattenSeq(Each(f, Without(Append(u, e), S))) = FlattenSeq(x)
      BY <2>2, <2>9 DEF x
    <3> QED BY <2>1, <2>3, <2>4, <2>8, <3>1, <3>2
  <2>10. CASE e \notin S
    <3>1. FlattenSeq(Each(f, Without(Append(u, e), S))) = FlattenSeq(Append(x, f[e]))
      BY <2>2, <2>5, <2>10
    <3> QED BY <2>1, <2>3, <2>4, <2>7, <2>8, <3>1
  <2> QED BY <2>9, <2>10
<1>3. Seq(A) \subseteq T
  <2> HIDE DEF T
  <2> QED BY <1>1, <1>2, SeqInduct
<1> QED BY <1>3

WordsOf == [p \in Pages |-> PageWords(p)]

\* The text returned has the words of the pages kept ...
LEMMA ReturnedWords ==
    ASSUME site \in Site, rows \in Seq(Pages)
    PROVE  Without(Returned, Separators) = FlattenSeq(Each(WordsOf, rows))
<1> DEFINE es == [i \in DOMAIN rows |-> Extracted(rows[i])]
           raw == Join(es, NL)
<1>0. Bar \in Char /\ NL \in Char /\ NL \in Separators
  BY Separates DEF Separators
<1>1. DOMAIN rows = 1..Len(rows) /\ Len(rows) \in Nat /\ \A i \in 1..Len(rows) : rows[i] \in Pages
  BY LenProperties, ElementOfSeq
<1>2. /\ es \in Seq(Seq(Char)) /\ DOMAIN es = 1..Len(rows)
      /\ \A i \in 1..Len(rows) : es[i] = Extracted(rows[i])
  <2>1. \A i \in 1..Len(rows) : Extracted(rows[i]) \in Seq(Char)
    BY <1>1, ExtractedWords
  <2> QED BY <1>1, <2>1
<1> HIDE DEF es
<1>3. raw \in Seq(Char) /\ Without(raw, Separators) = Without(FlattenSeq(es), Separators)
  BY <1>0, <1>2, JoinType, JoinWords
<1>4. Returned = raw \/ Returned = normalizeScrapedText(raw)
  BY DEF Returned, es
<1> HIDE DEF raw
<1>5. Without(normalizeScrapedText(raw), Separators) = Without(raw, Separators)
  BY <1>0, <1>3, NormalizedWords
<1>6. Without(FlattenSeq(es), Separators) = FlattenSeq(WithoutEach(es, Separators))
  BY <1>2, WithoutFlatten
<1>7. WithoutEach(es, Separators) = Each(WordsOf, rows)
  <2>1. \A i \in 1..Len(rows) : Without(es[i], Separators) = WordsOf[rows[i]]
    BY <1>1, <1>2, ExtractedWords DEF WordsOf
  <2> QED BY <1>1, <1>2, <2>1 DEF WithoutEach, Each
<1> QED BY <1>3, <1>4, <1>5, <1>6, <1>7

\* ... and the table those of the pages read.
LEMMA TableWords ==
    ASSUME site \in Site, NEW ps \in Seq(Pages)
    PROVE  LET t == FlattenSeq([k \in DOMAIN ps |-> PageTable(ps[k])])
           IN  /\ t \in Seq(Seq(Seq(Char)))
               /\ Without(FlattenSeq(FlattenSeq(t)), Separators) = FlattenSeq(Each(WordsOf, ps))
<1> DEFINE X == [k \in DOMAIN ps |-> PageTable(ps[k])]
           t == FlattenSeq(X)
           Y == FlattenEach(X)
           Z == FlattenEach(Y)
<1>1. DOMAIN ps = 1..Len(ps) /\ Len(ps) \in Nat /\ \A k \in 1..Len(ps) : ps[k] \in Pages
  BY LenProperties, ElementOfSeq
<1>2. /\ X \in Seq(Seq(Seq(Seq(Char)))) /\ DOMAIN X = 1..Len(ps)
      /\ \A k \in 1..Len(ps) : X[k] = PageTable(ps[k])
  <2>1. \A k \in 1..Len(ps) : PageTable(ps[k]) \in Seq(Seq(Seq(Char)))
    BY <1>1, ExtractedWords
  <2> QED BY <1>1, <2>1
<1> HIDE DEF X
<1>3. t \in Seq(Seq(Seq(Char)))
  BY <1>2, FlattenType
<1>4. Y \in Seq(Seq(Seq(Char))) /\ DOMAIN Y = 1..Len(ps) /\ \A k \in 1..Len(ps) : Y[k] = FlattenSeq(X[k])
  <2>1. Y \in Seq(Seq(Seq(Char)))
    <3>1. <<>> \in Seq(Seq(Seq(Char)))
      BY EmptySeq
    <3> QED BY <1>2, <3>1, FlattenEachAppend
  <2> QED BY <1>2, <2>1 DEF FlattenEach
<1>5. FlattenSeq(t) = FlattenSeq(Y)
  BY <1>2, FlattenFlatten
<1> HIDE DEF Y, t
<1>6. Z \in Seq(Seq(Char)) /\ DOMAIN Z = 1..Len(ps) /\ \A k \in 1..Len(ps) : Z[k] = FlattenSeq(Y[k])
  <2>1. Z \in Seq(Seq(Char))
    <3>1. <<>> \in Seq(Seq(Char))
      BY EmptySeq
    <3> QED BY <1>4, <3>1, FlattenEachAppend
  <2> QED BY <1>4, <2>1 DEF FlattenEach
<1>7. FlattenSeq(FlattenSeq(Y)) = FlattenSeq(Z)
  BY <1>4, FlattenFlatten
<1> HIDE DEF Z
<1>8. Without(FlattenSeq(Z), Separators) = FlattenSeq(WithoutEach(Z, Separators))
  BY <1>6, WithoutFlatten
<1>9. WithoutEach(Z, Separators) = Each(WordsOf, ps)
  <2>1. \A k \in 1..Len(ps) : Without(Z[k], Separators) = WordsOf[ps[k]]
    BY <1>1, <1>2, <1>4, <1>6 DEF WordsOf, PageWords
  <2> QED BY <1>1, <1>6, <2>1 DEF WithoutEach, Each
<1>10. t \in Seq(Seq(Seq(Char))) /\ Without(FlattenSeq(FlattenSeq(t)), Separators) = FlattenSeq(Each(WordsOf, ps))
  BY <1>3, <1>5, <1>7, <1>8, <1>9
<1> QED BY <1>10 DEF t, X

\* Leaving out the pages without texts loses no word.
LEMMA KeptWords ==
    ASSUME site \in Site, NEW ps \in Seq(Pages), rows = Without(ps, Textless)
    PROVE  LET t == FlattenSeq([k \in DOMAIN ps |-> PageTable(ps[k])])
           IN  Without(Returned, Separators) = Without(FlattenSeq(FlattenSeq(t)), Separators)
<1>1. WordsOf \in [Pages -> Seq(Char)] /\ \A p \in Pages \cap Textless : WordsOf[p] = <<>>
  <2>1. WordsOf \in [Pages -> Seq(Char)]
    BY ExtractedWords DEF WordsOf
  <2>2. ASSUME NEW p \in Textless PROVE PageWords(p) = <<>>
    BY TextlessPage, FlattenEmpty, WithoutEmpty DEF PageWords
  <2> QED BY <2>1, <2>2 DEF WordsOf
<1>2. rows \in Seq(Pages)
  BY WithoutType
<1>3. FlattenSeq(Each(WordsOf, Without(ps, Textless))) = FlattenSeq(Each(WordsOf, ps))
  <2> HIDE DEF Textless, WordsOf
  <2> QED BY <1>1, DropEmpty
<1>4. Without(Returned, Separators) = FlattenSeq(Each(WordsOf, rows))
  BY <1>2, ReturnedWords
<1> QED BY <1>3, <1>4, TableWords

(***************************************************************************)
(* The inductive invariant: where a scrape is tells how many pages it may  *)
(* still extract, and whether it holds a page of the shared browser.       *)
(***************************************************************************)

Budget ==
    /\ pc \in {"extract", "next"} /\ Paged => page < request.maxPages
    /\ pc = "next" => Paged
    /\ pc = "close" => Smart /\ result \in {"done", "failed"}

Holding ==
    /\ browser # "up" => open = 0
    /\ ~Smart => open = 0
    /\ pc \in {"start", "newPage"} => open = 0
    /\ pc \in {"start", "newPage", "setup"} => Smart

IInv == TypeOK /\ Budget /\ Holding /\ PageClosed

-----------------------------------------------------------------------------
\* The steps.

LEMMA InitIInv == Init => IInv
<1> SUFFICES ASSUME Init PROVE IInv
  OBVIOUS
<1>1. request \in Request /\ site \in Site /\ request.start \in Pages /\ request.maxPages \in Nat
      /\ request.kind \in {"BASIC", "SMART"}
  BY ScrapingAssumption DEF Init, Request
<1>2. TypeOK
  BY <1>1, ScrapingAssumption DEF Init, TypeOK, Ended
<1> QED BY <1>1, <1>2 DEF Init, IInv, Budget, Holding, PageClosed, Smart, Paged

\* What the steps of a scrape read.
LEMMA Typed ==
    ASSUME TypeOK
    PROVE  /\ request.maxPages \in Nat /\ request.kind \in {"BASIC", "SMART"}
           /\ page \in Nat /\ page <= request.maxPages
           /\ faults \in Nat /\ faults <= MaxFaults /\ MaxFaults \in Nat
           /\ \A p \in Pages : /\ site[p].next \in Pages \cup {None}
                               /\ site[p].alt \in Pages \cup {None}
BY ScrapingAssumption DEF TypeOK, Request, Site

\* A scrape that returns or rejects has closed its page, or goes on to close it.
LEMMA FinishKeeps ==
    ASSUME IInv, NEW verdict \in {"done", "failed"}, Finish(verdict), TypeOK',
           UNCHANGED <<inputs, shared>>
    PROVE  IInv'
BY DEF IInv, Finish, Budget, Holding, PageClosed, Smart, Paged, inputs, shared

\* Following a link extracts one page more, of those that are left.
LEMMA FollowKeeps ==
    ASSUME IInv, pc = "next", NEW p \in Pages \cup {None}, Follow(p), faults' \in 0..MaxFaults
    PROVE  IInv'
<1>1. /\ TypeOK /\ Budget /\ page < request.maxPages /\ UNCHANGED <<inputs, rows, shared>>
  BY DEF IInv, Budget, Follow
<1>2. CASE p = None
  <2>1. TypeOK'
    BY <1>1, <1>2 DEF TypeOK, Follow, Finish, inputs, shared, Ended
  <2> QED BY <1>2, <2>1, FinishKeeps DEF Follow, inputs, shared
<1>3. CASE p # None
  <2>1. page' = page + 1 /\ at' = p /\ page' \in 0..request.maxPages
    BY <1>1, <1>3, Typed DEF Follow
  <2>2. TypeOK'
    BY <1>1, <1>3, <2>1 DEF TypeOK, Follow, Finish, inputs, shared, Ended
  <2>3. CASE Finish("done")
    BY <1>1, <2>2, <2>3, FinishKeeps DEF inputs, shared
  <2>4. CASE pc' = "load"
    BY <1>1, <2>2, <2>4 DEF IInv, Budget, Holding, PageClosed, Smart, Paged, inputs, shared
  <2> QED BY <1>3, <2>3, <2>4 DEF Follow
<1> QED BY <1>2, <1>3

\* A rejected call leaves the page to the finally block, or, outside the try
\* block, behind: then there is none, or a failure to remember.
LEMMA RejectKeeps ==
    ASSUME IInv, Reject, faults' \in 0..MaxFaults, faults' # 0 \/ open = 0
    PROVE  IInv'
<1>1. TypeOK /\ UNCHANGED <<inputs, work, shared>>
  BY DEF IInv, Reject
<1>2. TypeOK'
  BY <1>1 DEF TypeOK, Reject, Finish, inputs, work, shared, Ended
<1>3. CASE pc \in Unguarded
  BY <1>1, <1>2, <1>3 DEF Reject, IInv, Budget, Holding, PageClosed, Smart, Paged, inputs, shared
<1>4. CASE pc \notin Unguarded
  BY <1>1, <1>2, <1>4, FinishKeeps DEF Reject, inputs, work, shared
<1> QED BY <1>3, <1>4

LEMMA NextIInv == IInv /\ [Next]_vars => IInv'
<1> SUFFICES ASSUME IInv, [Next]_vars PROVE IInv'
  OBVIOUS
<1> USE DEF Goto, Ended
<1>1. TypeOK /\ Budget /\ Holding /\ PageClosed
  BY DEF IInv
<1>2. CASE GetBrowser \/ NewPage \/ SetUpPage
  <2>1. TypeOK'
    BY <1>1, <1>2 DEF GetBrowser, NewPage, SetUpPage, TypeOK, Holding, inputs, work, shared
  <2> QED BY <1>1, <1>2, <2>1 DEF GetBrowser, NewPage, SetUpPage, IInv, Budget, Holding, PageClosed,
                Smart, Paged, inputs, work, shared
<1>3. CASE Load
  <2>1. TypeOK'
    BY <1>1, <1>3 DEF Load, Finish, TypeOK, inputs, shared
  <2>2. CASE Finish("done")
    BY <1>3, <2>1, <2>2, FinishKeeps DEF Load
  <2>3. CASE pc' = "extract" /\ ~(Paged /\ page = request.maxPages)
    BY <1>1, <1>3, <2>1, <2>3, Typed DEF Load, IInv, Budget, Holding, PageClosed, Smart, Paged, inputs, shared
  <2> QED BY <1>3, <2>2, <2>3 DEF Load
<1>4. CASE ExtractNothing
  <2>1. TypeOK'
    BY <1>1, <1>4 DEF ExtractNothing, Finish, TypeOK, inputs, work, shared
  <2> QED BY <1>4, <2>1, FinishKeeps DEF ExtractNothing
<1>5. Keep(at) \in Seq(Pages)
  BY <1>1 DEF Keep, TypeOK
<1>6. CASE ExtractOnly
  <2>1. TypeOK'
    BY <1>1, <1>5, <1>6 DEF ExtractOnly, Finish, TypeOK, inputs, shared
  <2> QED BY <1>6, <2>1, FinishKeeps DEF ExtractOnly
<1>7. CASE ExtractPage
  <2>1. TypeOK'
    BY <1>1, <1>5, <1>7 DEF ExtractPage, TypeOK, inputs, shared
  <2> QED BY <1>1, <1>7, <2>1 DEF ExtractPage, IInv, Budget, Holding, PageClosed, Smart, Paged, inputs, shared
<1>8. CASE FollowNext
  <2>1. (IF Smart /\ browser # "up" THEN None ELSE NextPage(request.kind, at)) \in Pages \cup {None}
    BY <1>1, Typed DEF NextPage, TypeOK
  <2>2. faults' \in 0..MaxFaults
    BY <1>1, <1>8 DEF FollowNext, TypeOK
  <2> QED BY <1>8, <2>1, <2>2, FollowKeeps DEF FollowNext
<1>9. CASE LookupFails
  <2>1. faults' \in 0..MaxFaults
    BY <1>1, <1>9, Typed DEF LookupFails
  <2>2. site[at].alt \in Pages \cup {None}
    BY <1>1, Typed DEF TypeOK
  <2> QED BY <1>9, <2>1, <2>2, FollowKeeps DEF LookupFails
<1>10. CASE ClosePage
  <2>1. TypeOK'
    BY <1>1, <1>10 DEF ClosePage, TypeOK, Budget, inputs, work
  <2> QED BY <1>1, <1>10, <2>1 DEF ClosePage, IInv, Budget, Holding, PageClosed, Smart, Paged, inputs
<1>11. CASE CallFails
  <2>1. faults' \in 0..MaxFaults /\ faults' # 0
    BY <1>1, <1>11, Typed DEF CallFails
  <2> QED BY <1>11, <2>1, RejectKeeps DEF CallFails
<1>12. CASE BrowserGone
  BY <1>1, <1>12, RejectKeeps DEF BrowserGone, Holding, TypeOK
<1>13. CASE LoseBrowser("lost") \/ LoseBrowser("none")
  <2>1. TypeOK'
    BY <1>1, <1>13 DEF LoseBrowser, TypeOK, inputs, work
  <2> QED BY <1>1, <1>13, <2>1 DEF LoseBrowser, IInv, Budget, Holding, PageClosed, Smart, Paged, inputs, work
<1>14. CASE UNCHANGED vars
  BY <1>1, <1>14 DEF vars, inputs, work, shared, IInv, TypeOK, Budget, Holding, PageClosed, Smart, Paged
<1> QED BY <1>2, <1>3, <1>4, <1>6, <1>7, <1>8, <1>9, <1>10, <1>11, <1>12, <1>13, <1>14
        DEF Next, Scrape, Stop

-----------------------------------------------------------------------------
\* How long a scrape takes: fewer than eight steps without a next page, and
\* fewer than four for each page it goes on to.

Rank ==
    IF pc = "start" THEN 7 ELSE IF pc = "newPage" THEN 6 ELSE IF pc = "setup" THEN 5
    ELSE IF pc = "load" THEN 4 ELSE IF pc = "extract" THEN 3 ELSE IF pc = "next" THEN 2
    ELSE IF pc = "close" THEN 1 ELSE 0

StepsLeft == 4 * (request.maxPages - page) + Rank

\* A step of the scrape, its calls' failures among them, uses up some of the
\* steps that are left; losing the browser gives none back.
StepsRunDown ==
    /\ Scrape \/ CallFails \/ LookupFails => StepsLeft' < StepsLeft
    /\ StepsLeft' <= StepsLeft

LEMMA StepsLeftTyped == IInv => StepsLeft \in Nat
BY Typed DEF IInv, StepsLeft, Rank

LEMMA FinishRunsDown ==
    ASSUME IInv, UNCHANGED <<inputs, page>>, NEW verdict \in {"done", "failed"}, Finish(verdict),
           pc \in {"load", "extract", "next"}
    PROVE  StepsLeft' < StepsLeft
<1>1. request.maxPages \in Nat /\ page \in Nat /\ UNCHANGED <<request.maxPages, page>>
  BY Typed DEF IInv, inputs
<1>2. Rank \in Nat /\ Rank' \in Nat /\ Rank' < Rank
  BY DEF Finish, Rank
<1> QED BY <1>1, <1>2 DEF StepsLeft

LEMMA FollowRunsDown ==
    ASSUME IInv, pc = "next", NEW p, Follow(p)
    PROVE  StepsLeft' < StepsLeft
<1>1. /\ request.maxPages \in Nat /\ page \in Nat /\ request' = request
      /\ Rank = 2
  BY Typed DEF IInv, Follow, inputs, Rank
<1>2. CASE p = None
  BY <1>2, FinishRunsDown DEF Follow, inputs
<1>3. CASE p # None
  <2>1. page' = page + 1 /\ pc' \in {"load", "close", "done"}
    BY <1>3 DEF Follow, Finish
  <2>2. Rank' \in 0..4
    BY <2>1 DEF Rank
  <2>3. StepsLeft = 4 * (request.maxPages - page) + 2
        /\ StepsLeft' = 4 * (request.maxPages - (page + 1)) + Rank'
    BY <1>1, <2>1 DEF StepsLeft
  <2> QED BY <1>1, <2>2, <2>3
<1> QED BY <1>2, <1>3

LEMMA RejectRunsDown ==
    ASSUME IInv, Reject
    PROVE  StepsLeft' < StepsLeft
<1>1. request.maxPages \in Nat /\ page \in Nat /\ UNCHANGED <<inputs, request, page>>
  BY Typed DEF IInv, Reject, inputs, work
<1>2. CASE pc \in Unguarded
  <2>1. Rank \in 1..7 /\ Rank' = 0
    BY <1>2 DEF Reject, Unguarded, Rank
  <2> QED BY <1>1, <2>1 DEF StepsLeft
<1>3. CASE pc \notin Unguarded
  BY <1>1, <1>3, FinishRunsDown DEF Reject
<1> QED BY <1>2, <1>3

LEMMA NextRunsDown == ASSUME IInv, [Next]_vars PROVE StepsRunDown
<1>1. request.maxPages \in Nat /\ page \in Nat /\ StepsLeft \in Nat
  BY Typed, StepsLeftTyped DEF IInv
<1>2. CASE GetBrowser \/ NewPage \/ SetUpPage \/ ExtractPage \/ ClosePage
  <2>1. UNCHANGED <<request, page>>
    BY <1>2 DEF GetBrowser, NewPage, SetUpPage, ExtractPage, ClosePage, inputs, work
  <2>2. Rank \in Nat /\ Rank' \in Nat /\ Rank' < Rank
    BY <1>2 DEF GetBrowser, NewPage, SetUpPage, ExtractPage, ClosePage, Goto, Rank, IInv, Budget
  <2>3. StepsLeft' < StepsLeft
    BY <1>1, <2>1, <2>2 DEF StepsLeft
  <2>4. StepsLeft' \in Int
    BY <1>1, <2>1, <2>2 DEF StepsLeft
  <2> QED BY <1>1, <2>3, <2>4 DEF StepsRunDown
<1>3. CASE Load \/ ExtractNothing \/ ExtractOnly \/ FollowNext \/ LookupFails \/ CallFails
           \/ BrowserGone
  <2>1. StepsLeft' < StepsLeft
    <3>1. CASE Load
      <4>1. UNCHANGED <<inputs, request, page>> /\ pc = "load"
        BY <3>1 DEF Load, inputs
      <4>2. CASE Finish("done")
        BY <4>1, <4>2, FinishRunsDown
      <4>3. CASE pc' = "extract"
        BY <1>1, <4>1, <4>3 DEF StepsLeft, Rank
      <4> QED BY <3>1, <4>2, <4>3 DEF Load
    <3>2. CASE ExtractNothing \/ ExtractOnly
      BY <3>2, FinishRunsDown DEF ExtractNothing, ExtractOnly, work
    <3>3. CASE FollowNext \/ LookupFails
      BY <3>3, FollowRunsDown DEF FollowNext, LookupFails
    <3>4. CASE CallFails \/ BrowserGone
      BY <3>4, RejectRunsDown DEF CallFails, BrowserGone
    <3> QED BY <1>3, <3>1, <3>2, <3>3, <3>4
  <2>2. request'.maxPages \in Nat /\ page' \in 0..request'.maxPages
    BY NextIInv DEF IInv, TypeOK, Request
  <2>3. StepsLeft' \in Nat
    BY <2>2 DEF StepsLeft, Rank
  <2> QED BY <1>1, <2>1, <2>3 DEF StepsRunDown
<1>4. ASSUME ~Scrape, ~CallFails, ~LookupFails PROVE StepsRunDown
  <2>1. UNCHANGED <<request, page, pc>>
    BY <1>4 DEF Next, LoseBrowser, Stop, vars, inputs, work
  <2> QED BY <1>1, <1>4, <2>1 DEF StepsRunDown, StepsLeft, Rank
<1> QED BY <1>2, <1>3, <1>4 DEF Scrape

-----------------------------------------------------------------------------
\* What a scrape is to read.

\* What a scrape is to read does not change,
LEMMA ChainKept == UNCHANGED inputs => Chain' = Chain
BY DEF Chain, Limit, Paged, NextPage, inputs

\* nor what is found on a page,
LEMMA ColumnsKept == ASSUME NEW p, UNCHANGED inputs PROVE Columns(p)' = Columns(p)
BY DEF Columns, inputs

\* nor where nothing is found.
LEMMA TextlessKept == UNCHANGED inputs => Textless' = Textless
BY DEF Textless, Columns, inputs

\* The function by which Chain is defined satisfies its equation.
LEMMA ChainRecursion ==
    ASSUME request.maxPages \in Nat
    PROVE  Chain = [k \in 1..Limit |-> IF k = 1 THEN request.start
                       ELSE IF Chain[k - 1] = None THEN None
                       ELSE NextPage(request.kind, Chain[k - 1])]
<1> DEFINE Def(g, k) == IF k = 1 THEN request.start
                        ELSE IF g[k - 1] = None THEN None ELSE NextPage(request.kind, g[k - 1])
<1>1. Chain = CHOOSE g : g = [k \in 1..Limit |-> Def(g, k)]
  BY DEF Chain
<1>2. OpDefinesFcn(Chain, 1..Limit, Def)
  BY <1>1 DEF OpDefinesFcn
<1>3. OneBack(1, Limit, Def)
  BY DEF OneBack
<1>0. Limit \in Nat
  BY DEF Limit
<1>4. WFInductiveDefines(Chain, 1..Limit, Def)
  <2> HIDE DEF Def
  <2> QED BY <1>0, <1>2, <1>3, Recursion
<1>5. Chain = [k \in 1..Limit |-> Def(Chain, k)]
  BY <1>4 DEF WFInductiveDefines
<1> QED BY <1>5

-----------------------------------------------------------------------------
\* The pages read.

\* A chain starts where the scrape does and follows the links.
LEMMA ChainPages ==
    ASSUME TypeOK
    PROVE  /\ Limit \in Nat \ {0} /\ DOMAIN Chain = 1..Limit
           /\ \A k \in 1..Limit : Chain[k] \in Pages \cup {None}
           /\ Chain \in Seq(Pages \cup {None}) /\ Len(Chain) = Limit
           /\ Chain[1] = request.start
           /\ \A k \in 1..Limit : k + 1 \in 1..Limit =>
                 Chain[k + 1] = IF Chain[k] = None THEN None ELSE NextPage(request.kind, Chain[k])
<1>1. Limit \in Nat \ {0} /\ request.maxPages \in Nat /\ request.start \in Pages
  BY DEF TypeOK, Request, Limit, Paged
<1>2. Chain = [k \in 1..Limit |-> IF k = 1 THEN request.start
                  ELSE IF Chain[k - 1] = None THEN None
                  ELSE NextPage(request.kind, Chain[k - 1])]
  BY <1>1, ChainRecursion
<1>3. \A p \in Pages : NextPage(request.kind, p) \in Pages \cup {None}
  BY Typed DEF NextPage
<1>4. DOMAIN Chain = 1..Limit /\ Chain[1] = request.start
  BY <1>1, <1>2
<1>5. ASSUME NEW k \in 1..Limit, k + 1 \in 1..Limit
      PROVE  Chain[k + 1] = IF Chain[k] = None THEN None ELSE NextPage(request.kind, Chain[k])
  <2>1. k + 1 # 1 /\ (k + 1) - 1 = k
    BY <1>1
  <2> QED BY <1>2, <1>5, <2>1
<1> DEFINE T == {n \in Nat : n + 1 \in 1..Limit => Chain[n + 1] \in Pages \cup {None}}
<1>6. 0 \in T
  BY <1>1, <1>4
<1>7. ASSUME NEW n \in Nat, n \in T PROVE n + 1 \in T
  <2> SUFFICES ASSUME (n + 1) + 1 \in 1..Limit PROVE Chain[(n + 1) + 1] \in Pages \cup {None}
    OBVIOUS
  <2>1. n + 1 \in 1..Limit
    BY <1>1
  <2>2. Chain[n + 1] \in Pages \cup {None}
    BY <1>7, <2>1
  <2>3. Chain[(n + 1) + 1] = IF Chain[n + 1] = None THEN None ELSE NextPage(request.kind, Chain[n + 1])
    BY <1>5, <2>1
  <2> QED BY <1>3, <2>2, <2>3
<1>8. \A k \in 1..Limit : Chain[k] \in Pages \cup {None}
  <2> SUFFICES ASSUME NEW k \in 1..Limit PROVE Chain[k] \in Pages \cup {None}
    OBVIOUS
  <2>1. Nat \subseteq T
    <3> HIDE DEF T
    <3> QED BY <1>6, <1>7, Induct
  <2>2. PICK n \in Nat : n + 1 = k
    <3>1. k - 1 \in Nat /\ (k - 1) + 1 = k
      BY <1>1
    <3> QED BY <3>1
  <2>3. n \in T
    BY <2>1
  <2> QED BY <2>2, <2>3
<1>9. Chain \in Seq(Pages \cup {None}) /\ Len(Chain) = Limit
  <2>1. Chain = [k \in 1..Limit |-> Chain[k]]
    BY <1>2, <1>4
  <2> QED BY <1>1, <1>8, <2>1
<1> QED BY <1>1, <1>4, <1>5, <1>8, <1>9

Prefix(k) == [i \in 1..k |-> Chain[i]]

\* The first k pages are what has been read.
ReadUpTo(k) ==
    /\ \A i \in 1..k : Chain[i] # None
    /\ rows = Without(Prefix(k), Textless)

\* Unless a lookup has failed, the pages read are the first of the pages to
\* read, and a scrape that is done has read them all.
Progress ==
    /\ ~Paged => at = request.start
    /\ faults = 0 =>
       /\ pc \in {"start", "newPage", "setup", "load", "extract"} =>
             ReadUpTo(page) /\ (page < Limit => at = Chain[page + 1])
       /\ pc = "next" => ReadUpTo(page + 1) /\ at = Chain[page + 1]
       /\ pc = "done" \/ (pc = "close" /\ result = "done" /\ browser = "up") =>
             \E k \in 1..Limit : ReadUpTo(k) /\ (k = Limit \/ Chain[k + 1] = None)

\* The beginning of a chain that has not ended are pages.
LEMMA PrefixPages ==
    ASSUME TypeOK, NEW k \in 0..Limit, \A i \in 1..k : Chain[i] # None
    PROVE  Prefix(k) \in Seq(Pages) /\ Len(Prefix(k)) = k
<1>1. Limit \in Nat /\ \A i \in 1..k : i \in 1..Limit
  BY ChainPages
<1>2. \A i \in 1..k : Chain[i] \in Pages
  BY <1>1, ChainPages
<1>3. k \in Nat
  BY <1>1
<1> QED BY <1>2, <1>3 DEF Prefix

\* One page more.
LEMMA KeepReads ==
    ASSUME TypeOK, NEW k \in 0..Limit, k < Limit, ReadUpTo(k), at = Chain[k + 1],
           UNCHANGED inputs, rows' = Keep(at)
    PROVE  ReadUpTo(k + 1)'
<1>1. Limit \in Nat /\ k \in Nat /\ k + 1 \in 1..Limit /\ at \in Pages /\ None \notin Pages
  BY ChainPages, ScrapingAssumption DEF TypeOK
<1>2. Prefix(k) \in Seq(Pages) /\ Len(Prefix(k)) = k
  BY PrefixPages DEF ReadUpTo
<1>3. Prefix(k + 1) = Append(Prefix(k), at)
  <2> DEFINE m == Prefix(k)
             n == Prefix(k + 1)
  <2>1. n = [i \in 1..(Len(m) + 1) |-> n[i]] /\ (\A i \in 1..Len(m) : n[i] = m[i]) /\ n[Len(m) + 1] = at
    BY <1>1, <1>2 DEF Prefix
  <2> HIDE DEF m, n
  <2>2. m \in Seq(Pages)
    BY <1>2 DEF m
  <2>3. n = Append(m, at)
    BY <1>1, <2>1, <2>2, IsAppend
  <2> QED BY <2>3 DEF m, n
<1>4. Without(Append(Prefix(k), at), Textless) =
         IF at \in Textless THEN Without(Prefix(k), Textless) ELSE Append(Without(Prefix(k), Textless), at)
  <2> DEFINE m == Prefix(k)
  <2>1. m \in Seq(Pages) /\ at \in Pages
    BY <1>1, <1>2
  <2> HIDE DEF m
  <2>2. \A s \in Seq(Pages), p \in Pages : Without(Append(s, p), Textless) =
           IF p \in Textless THEN Without(s, Textless) ELSE Append(Without(s, Textless), p)
    BY WithoutAppend
  <2> QED BY <2>1, <2>2 DEF m
<1>5. at \in Textless <=> Range(Columns(at)) = {<<>>}
  BY <1>1 DEF Textless
<1>6. rows' = Without(Prefix(k + 1), Textless)
  BY <1>3, <1>4, <1>5 DEF Keep, ReadUpTo
<1>7. \A i \in 1..(k + 1) : Chain[i] # None
  BY <1>1 DEF ReadUpTo
<1>8. Chain' = Chain /\ Textless' = Textless
  BY ChainKept, TextlessKept
<1> QED BY <1>6, <1>7, <1>8 DEF ReadUpTo, Prefix

\* What has been read stays read.
LEMMA ReadKept ==
    ASSUME NEW k, ReadUpTo(k), UNCHANGED <<inputs, rows>> PROVE ReadUpTo(k)'
<1>1. Chain' = Chain /\ Textless' = Textless /\ rows' = rows
  BY ChainKept, TextlessKept
<1> QED BY <1>1 DEF ReadUpTo, Prefix

-----------------------------------------------------------------------------
\* Every step keeps the progress.

\* Nothing has been read at first.
LEMMA InitProgress == Init => Progress
<1> SUFFICES ASSUME Init PROVE Progress
  OBVIOUS
<1>1. TypeOK /\ IInv
  BY InitIInv DEF IInv
<1>2. page = 0 /\ rows = <<>> /\ at = request.start /\ pc \in {"start", "load"}
  BY DEF Init
<1>3. ReadUpTo(0)
  <2>1. Prefix(0) = <<>>
    BY DEF Prefix
  <2> QED BY <1>2, <2>1, WithoutEmpty DEF ReadUpTo
<1>4. at = Chain[0 + 1]
  BY <1>1, <1>2, ChainPages
<1> QED BY <1>2, <1>3, <1>4 DEF Progress

\* A step that neither reads nor follows.
LEMMA OnTheWay ==
    ASSUME Progress, UNCHANGED <<inputs, work>>, faults' = faults,
           pc \in {"start", "newPage", "setup", "load", "extract"},
           pc' \in {"start", "newPage", "setup", "load", "extract"}
    PROVE  Progress'
<1>1. Chain' = Chain /\ Limit' = Limit /\ Paged' = Paged /\ request' = request
  BY ChainKept DEF Limit, Paged, inputs
<1>2. UNCHANGED <<at, page, rows>>
  BY DEF work
<1>3. CASE faults = 0
  <2>1. ReadUpTo(page) /\ (page < Limit => at = Chain[page + 1])
    BY <1>3 DEF Progress
  <2>2. ReadUpTo(page)'
    <3>1. (\A i \in 1..page : Chain[i] # None) /\ rows = Without(Prefix(page), Textless)
      BY <2>1 DEF ReadUpTo
    <3>2. Textless' = Textless
      BY TextlessKept
    <3> QED BY <1>1, <1>2, <3>1, <3>2 DEF ReadUpTo, Prefix
  <2> QED BY <1>1, <1>2, <2>1, <2>2 DEF Progress
<1>4. CASE faults # 0
  BY <1>1, <1>2, <1>4 DEF Progress
<1> QED BY <1>3, <1>4

\* A scrape that gives up has nothing to return.
LEMMA GivesUp ==
    ASSUME Progress, UNCHANGED <<inputs, at>>,
           pc' \in {"failed", "abandoned"} \/ (pc' = "close" /\ (result' = "failed" \/ browser' # "up"))
    PROVE  Progress'
BY DEF Progress, Paged, inputs

\* The scrape is done once all pages are read.
LEMMA NowDone ==
    ASSUME Progress, UNCHANGED inputs, faults' = faults, Paged \/ at' = at,
           faults = 0 => \E k \in 1..Limit : ReadUpTo(k)' /\ (k = Limit \/ Chain[k + 1] = None),
           pc' \in {"close", "done"}
    PROVE  Progress'
<1>1. Chain' = Chain /\ Limit' = Limit /\ Paged' = Paged /\ request' = request
  BY ChainKept DEF Limit, Paged, inputs
<1> QED BY <1>1 DEF Progress

\* A step reads at most the page that is next.
LEMMA NextProgress == IInv /\ Progress /\ [Next]_vars => Progress'
<1> SUFFICES ASSUME IInv, Progress, [Next]_vars PROVE Progress'
  OBVIOUS
<1> USE DEF Goto, Ended
<1>1. TypeOK /\ Budget /\ Holding
  BY DEF IInv
<1>2. /\ Limit \in Nat \ {0} /\ page \in Nat /\ page + 1 \in Nat /\ page <= request.maxPages
      /\ Paged => Limit = request.maxPages
      /\ ~Paged => Limit = 1 /\ page = 0
      /\ None \notin Pages /\ at \in Pages
      /\ request.kind \in {"BASIC", "SMART"}
  BY <1>1, Typed, ChainPages, ScrapingAssumption DEF Limit, Paged, TypeOK
<1>0. UNCHANGED inputs => Chain' = Chain /\ Limit' = Limit /\ Paged' = Paged /\ request' = request
  BY ChainKept DEF Limit, Paged, inputs
<1>3. CASE GetBrowser \/ NewPage \/ SetUpPage
  BY <1>3, OnTheWay DEF GetBrowser, NewPage, SetUpPage
<1>4. CASE Load
  <2>1. CASE Paged /\ page = request.maxPages
    <3>1. UNCHANGED <<inputs, rows>> /\ faults' = faults /\ pc' \in {"close", "done"}
      BY <1>4, <2>1 DEF Load, Finish
    <3>2. ASSUME NEW k, ReadUpTo(k) PROVE ReadUpTo(k)'
      BY <3>1, <3>2, ReadKept
    <3>4. faults = 0 => ReadUpTo(Limit)
      BY <1>2, <1>4, <2>1 DEF Progress, Load
    <3>3. faults = 0 => \E k \in 1..Limit : ReadUpTo(k)' /\ (k = Limit \/ Chain[k + 1] = None)
      BY <1>2, <3>2, <3>4
    <3> QED BY <2>1, <3>1, <3>3, NowDone
  <2>2. CASE ~(Paged /\ page = request.maxPages)
    BY <1>4, <2>2, OnTheWay DEF Load, work
  <2> QED BY <2>1, <2>2
<1>5. CASE ExtractNothing
  BY <1>5, GivesUp DEF ExtractNothing, Finish, work
<1>6. ASSUME UNCHANGED inputs, rows' = Keep(at), pc = "extract", faults = 0
      PROVE  \E k \in 1..Limit : k = page + 1 /\ ReadUpTo(k)' /\ at = Chain[k]
  <2>1. page < Limit /\ page \in 0..Limit /\ page + 1 \in 1..Limit
    BY <1>1, <1>2, <1>6 DEF Budget
  <2>2. ReadUpTo(page) /\ at = Chain[page + 1]
    BY <1>6, <2>1 DEF Progress
  <2>3. \A j \in 0..Limit : j < Limit /\ ReadUpTo(j) /\ at = Chain[j + 1] => ReadUpTo(j + 1)'
    BY <1>1, <1>6, KeepReads
  <2>4. PICK j \in 0..Limit : j = page
    BY <2>1
  <2>5. PICK k \in 1..Limit : k = j + 1
    BY <2>1, <2>4
  <2>6. ReadUpTo(k)'
    BY <2>1, <2>2, <2>3, <2>4, <2>5
  <2> QED BY <2>2, <2>4, <2>5, <2>6
<1>7. CASE ExtractOnly
  <2>1. UNCHANGED <<inputs, at>> /\ faults' = faults /\ rows' = Keep(at) /\ pc = "extract" /\ ~Paged
        /\ pc' \in {"close", "done"} /\ page' = page
    BY <1>7 DEF ExtractOnly, Finish
  <2>2. faults = 0 => \E k \in 1..Limit : ReadUpTo(k)' /\ (k = Limit \/ Chain[k + 1] = None)
    BY <1>2, <1>6, <2>1
  <2> QED BY <2>1, <2>2, NowDone
<1>8. CASE ExtractPage
  <2>1. UNCHANGED <<inputs, at, page>> /\ faults' = faults /\ rows' = Keep(at) /\ pc = "extract" /\ Paged
        /\ pc' = "next"
    BY <1>8 DEF ExtractPage
  <2>2. faults = 0 => \E k \in 1..Limit : k = page + 1 /\ ReadUpTo(k)' /\ at = Chain[k]
    BY <1>6, <2>1
  <2> QED BY <1>0, <2>1, <2>2 DEF Progress
<1>9. CASE FollowNext
  <2> DEFINE q == IF Smart /\ browser # "up" THEN None ELSE NextPage(request.kind, at)
  <2>1. /\ pc = "next" /\ Follow(q) /\ faults' = faults /\ UNCHANGED <<inputs, rows, shared>>
        /\ Paged /\ page < request.maxPages
    BY <1>1, <1>9 DEF FollowNext, Follow, Budget
  <2>2. ASSUME faults = 0
        PROVE  \E k \in 1..Limit : /\ k = page + 1 /\ ReadUpTo(k)'
                                   /\ k + 1 \in 1..Limit => Chain[k + 1] = NextPage(request.kind, at)
    <3>1. ReadUpTo(page + 1) /\ at = Chain[page + 1] /\ page + 1 \in 1..Limit
      BY <1>2, <2>1, <2>2 DEF Progress
    <3>2. PICK k \in 1..Limit : k = page + 1
      BY <3>1
    <3>3. ReadUpTo(k)'
      <4>1. UNCHANGED <<inputs, rows>>
        BY <2>1
      <4>2. ReadUpTo(k)
        BY <3>1, <3>2
      <4> QED BY <4>1, <4>2, ReadKept
    <3>4. k + 1 \in 1..Limit => Chain[k + 1] = NextPage(request.kind, at)
      BY <1>1, <1>2, <3>1, <3>2, ChainPages
    <3> QED BY <3>2, <3>3, <3>4
  <2>3. CASE q = None /\ Smart /\ browser # "up"
    BY <2>1, <2>3, GivesUp DEF Follow, Finish, shared
  <2>4. CASE q = None /\ ~(Smart /\ browser # "up")
    <3>1. UNCHANGED <<inputs, at>> /\ pc' \in {"close", "done"}
      BY <2>1, <2>4 DEF Follow, Finish
    <3>2. faults = 0 => \E k \in 1..Limit : ReadUpTo(k)' /\ (k = Limit \/ Chain[k + 1] = None)
      BY <1>2, <2>2, <2>4
    <3> QED BY <2>1, <3>1, <3>2, NowDone
  <2>5. CASE q # None /\ ~Smart /\ page + 1 = request.maxPages
    <3>1. UNCHANGED inputs /\ pc' = "done"
      BY <2>1, <2>5 DEF Follow, Finish
    <3>2. faults = 0 => \E k \in 1..Limit : ReadUpTo(k)' /\ (k = Limit \/ Chain[k + 1] = None)
      BY <1>2, <2>1, <2>2, <2>5
    <3> QED BY <2>1, <3>1, <3>2, NowDone
  <2>6. CASE q # None /\ ~(~Smart /\ page + 1 = request.maxPages)
    <3>1. UNCHANGED inputs /\ pc' = "load" /\ page' = page + 1 /\ at' = NextPage(request.kind, at)
      BY <2>1, <2>6 DEF Follow
    <3>2. ASSUME faults = 0 PROVE ReadUpTo(page)' /\ (page' < Limit => at' = Chain[page' + 1])
      BY <1>2, <2>2, <3>1, <3>2
    <3> QED BY <1>0, <2>1, <3>1, <3>2 DEF Progress
  <2> QED BY <2>3, <2>4, <2>5, <2>6
<1>10. CASE LookupFails
  <2>1. faults' # 0 /\ Paged /\ UNCHANGED inputs
    BY <1>1, <1>10, Typed DEF LookupFails, Follow, Budget
  <2> QED BY <1>0, <2>1 DEF Progress
<1>11. CASE ClosePage
  <2>1. UNCHANGED <<inputs, rows, at>> /\ pc = "close" /\ browser = "up" /\ pc' = result /\ faults' = faults
        /\ result \in {"done", "failed"}
    BY <1>1, <1>11 DEF ClosePage, work, Budget
  <2>2. CASE result = "done"
    <3>1. ASSUME NEW k, ReadUpTo(k) PROVE ReadUpTo(k)'
      BY <2>1, <3>1, ReadKept
    <3>2. faults = 0 => \E k \in 1..Limit : ReadUpTo(k) /\ (k = Limit \/ Chain[k + 1] = None)
      BY <2>1, <2>2 DEF Progress
    <3>3. faults = 0 => \E k \in 1..Limit : ReadUpTo(k)' /\ (k = Limit \/ Chain[k + 1] = None)
      BY <3>1, <3>2
    <3> QED BY <2>1, <2>2, <3>3, NowDone
  <2>3. CASE result = "failed"
    BY <2>1, <2>3, GivesUp
  <2> QED BY <2>1, <2>2, <2>3
<1>12. CASE CallFails
  <2>1. faults' # 0 /\ UNCHANGED <<inputs, at>>
    BY <1>1, <1>12, Typed DEF CallFails, Reject, work
  <2> QED BY <1>0, <2>1 DEF Progress
<1>13. CASE BrowserGone
  BY <1>13, GivesUp DEF BrowserGone, Reject, Finish, work
<1>14. CASE LoseBrowser("lost") \/ LoseBrowser("none")
  <2>1. UNCHANGED <<inputs, pc, work, result, faults>> /\ browser' # "up" /\ UNCHANGED <<at, page, rows>>
    BY <1>14 DEF LoseBrowser, work
  <2>2. CASE pc \in {"start", "newPage", "setup", "load", "extract"}
    BY <2>1, <2>2, OnTheWay
  <2>3. CASE pc \in {"close", "failed", "abandoned"}
    BY <2>1, <2>3, GivesUp
  <2>4. ASSUME NEW k, ReadUpTo(k) PROVE ReadUpTo(k)'
    BY <2>1, <2>4, ReadKept
  <2>5. CASE pc = "next"
    BY <1>0, <2>1, <2>4, <2>5 DEF Progress
  <2>6. CASE pc = "done"
    BY <1>0, <2>1, <2>4, <2>6 DEF Progress
  <2> QED BY <1>1, <2>2, <2>3, <2>5, <2>6 DEF TypeOK
<1>15. CASE UNCHANGED vars
  <2>1. UNCHANGED <<inputs, pc, at, page, rows, result, browser, faults>>
    BY <1>15 DEF vars, work, shared
  <2>2. ASSUME NEW k, ReadUpTo(k) PROVE ReadUpTo(k)'
    BY <2>1, <2>2, ReadKept
  <2> QED BY <1>0, <2>1, <2>2 DEF Progress
<1> QED BY <1>3, <1>4, <1>5, <1>7, <1>8, <1>9, <1>10, <1>11, <1>12, <1>13, <1>14, <1>15
        DEF Next, Scrape, Stop

-----------------------------------------------------------------------------
\* What has been read once the scrape is done.

\* After the last page there is none.
LEMMA ChainEnd ==
    ASSUME TypeOK, NEW k \in 1..Limit, \A i \in 1..k : Chain[i] # None,
           k = Limit \/ Chain[k + 1] = None
    PROVE  Read = Prefix(k)
<1>1. /\ Limit \in Nat \ {0} /\ Chain \in Seq(Pages \cup {None}) /\ Len(Chain) = Limit
      /\ \A i \in 1..Limit : i + 1 \in 1..Limit =>
            Chain[i + 1] = IF Chain[i] = None THEN None ELSE NextPage(request.kind, Chain[i])
  BY ChainPages
<1>2. Prefix(k) \in Seq(Pages) /\ Len(Prefix(k)) = k
  <2>1. k \in 0..Limit
    BY <1>1
  <2> QED BY <2>1, PrefixPages
<1> DEFINE T == {n \in Nat : k + 1 + n \in 1..Limit => Chain[k + 1 + n] = None}
           rest == SubSeq(Chain, k + 1, Limit)
<1>3. 0 \in T
  BY <1>1
<1>4. ASSUME NEW n \in Nat, n \in T PROVE n + 1 \in T
  <2> SUFFICES ASSUME k + 1 + (n + 1) \in 1..Limit PROVE Chain[k + 1 + (n + 1)] = None
    OBVIOUS
  <2>1. k + 1 + n \in 1..Limit /\ k + 1 + (n + 1) = (k + 1 + n) + 1
    BY <1>1
  <2>2. Chain[k + 1 + n] = None
    BY <1>4, <2>1
  <2> QED BY <1>1, <2>1, <2>2
<1>5. \A i \in (k + 1)..Limit : Chain[i] \in {None}
  <2> SUFFICES ASSUME NEW i \in (k + 1)..Limit PROVE Chain[i] \in {None}
    OBVIOUS
  <2>1. Nat \subseteq T
    <3> HIDE DEF T
    <3> QED BY <1>3, <1>4, Induct
  <2>2. PICK n \in Nat : k + 1 + n = i
    <3>1. i - (k + 1) \in Nat /\ k + 1 + (i - (k + 1)) = i
      BY <1>1
    <3> QED BY <3>1
  <2>3. n \in T /\ i \in 1..Limit
    BY <1>1, <2>1
  <2> QED BY <2>2, <2>3
<1>6. rest \in Seq({None})
  <2>1. k + 1 \in Int /\ Limit \in Int
    BY <1>1
  <2> QED BY <1>5, <2>1, SubSeqProperties
<1>7. Chain = Prefix(k) \o rest
  <2>1. 1 \in 1..(Len(Chain) + 1) /\ k \in (1 - 1)..Len(Chain) /\ Len(Chain) \in k..Len(Chain)
    BY <1>1
  <2>2. SubSeq(Chain, 1, k) \o SubSeq(Chain, k + 1, Len(Chain)) = SubSeq(Chain, 1, Len(Chain))
    BY <1>1, <2>1, ConcatAdjacentSubSeq
  <2>3. SubSeq(Chain, 1, Len(Chain)) = Chain
    BY <1>1, SubSeqFull
  <2>4. SubSeq(Chain, 1, k) = Prefix(k)
    <3> DEFINE s == SubSeq(Chain, 1, k)
    <3>1. \A i \in 1..k : Chain[i] \in Pages
      BY <1>1, ChainPages
    <3>2. 1 \in Int /\ k \in Int /\ k >= 1 /\ k \in Nat
      BY <1>1
    <3>3. s \in Seq(Pages) /\ Len(s) = (IF 1 <= k THEN k - 1 + 1 ELSE 0)
          /\ \A i \in 1..(k - 1 + 1) : s[i] = Chain[1 + i - 1]
      BY <3>1, <3>2, SubSeqProperties
    <3> HIDE DEF s
    <3>4. Len(s) = k /\ \A i \in 1..k : s[i] = Prefix(k)[i]
      BY <3>2, <3>3 DEF Prefix
    <3>5. s = Prefix(k)
      <4>1. s \in Seq(Pages) /\ Prefix(k) \in Seq(Pages)
        BY <1>2, <3>3
      <4> QED BY <1>2, <3>4, <4>1, SeqEqual
    <3> QED BY <3>5 DEF s
  <2> QED BY <1>1, <2>2, <2>3, <2>4
<1> DEFINE pre == Prefix(k)
<1>8. Without(pre, {None}) = pre /\ Without(rest, {None}) = <<>>
  <2>1. pre \in Seq(Pages) /\ Pages \cap {None} = {}
    BY <1>2, ScrapingAssumption
  <2>2. {None} \subseteq {None}
    OBVIOUS
  <2> HIDE DEF pre, rest
  <2> QED BY <1>6, <2>1, <2>2, WithoutNone, WithoutAll
<1>9. Without(pre \o rest, {None}) = Without(pre, {None}) \o Without(rest, {None})
  <2> DEFINE B == Pages \cup {None}
  <2>1. Pages \subseteq B /\ {None} \subseteq B
    OBVIOUS
  <2>2. pre \in Seq(B) /\ rest \in Seq(B)
    <3> HIDE DEF B, pre, rest
    <3>1. pre \in Seq(Pages)
      BY <1>2 DEF pre
    <3> QED BY <1>6, <2>1, <3>1, SeqMonotonic
  <2> HIDE DEF B, pre, rest
  <2> QED BY <2>2, WithoutConcat
<1>10. pre \in Seq(Pages)
  BY <1>2
<1>11. Read = Without(pre \o rest, {None}) /\ pre = Prefix(k)
  BY <1>7 DEF Read
<1> HIDE DEF pre, rest
<1> QED BY <1>8, <1>9, <1>10, <1>11, ConcatEmptySeq

\* A scrape that is done has kept the pages to read, up to those without texts.
LEMMA AllRead ==
    ASSUME IInv, Progress, Complete
    PROVE  Read \in Seq(Pages) /\ rows = Without(Read, Textless) /\ site \in Site
<1>1. TypeOK /\ site \in Site
  BY DEF IInv, TypeOK
<1>2. PICK k \in 1..Limit : ReadUpTo(k) /\ (k = Limit \/ Chain[k + 1] = None)
  BY DEF Complete, Progress
<1>3. k \in 0..Limit /\ \A i \in 1..k : Chain[i] # None
  BY <1>1, <1>2, ChainPages DEF ReadUpTo
<1>4. Read = Prefix(k)
  BY <1>1, <1>2, <1>3, ChainEnd
<1>5. Prefix(k) \in Seq(Pages)
  BY <1>1, <1>3, PrefixPages
<1> QED BY <1>1, <1>2, <1>4, <1>5 DEF ReadUpTo

\* The words of the pages read are the words returned.
LEMMA KeepsWords == IInv /\ Progress => WordsKept
<1> SUFFICES ASSUME IInv, Progress, Complete
             PROVE  Without(Returned, {Bar, NL}) = Without(FlattenSeq(FlattenSeq(Table)), {Bar, NL})
  BY DEF WordsKept
<1>1. Read \in Seq(Pages) /\ rows = Without(Read, Textless) /\ site \in Site
  BY AllRead
<1> DEFINE ps == Read
<1>2. LET t == FlattenSeq([k \in DOMAIN ps |-> PageTable(ps[k])])
      IN  Without(Returned, Separators) = Without(FlattenSeq(FlattenSeq(t)), Separators)
  <2> HIDE DEF ps
  <2>1. ps \in Seq(Pages) /\ rows = Without(ps, Textless) /\ site \in Site
    BY <1>1 DEF ps
  <2> QED BY <2>1, KeptWords
<1> QED BY <1>2 DEF Table, Separators

-----------------------------------------------------------------------------
\* Joining what has been joined.

After(sep, s) == <<sep>> \o s

\* Two joined sequences of parts are joined after a separator.
LEMMA JoinConcat ==
    ASSUME NEW A, NEW ps \in Seq(Seq(A)), NEW qs \in Seq(Seq(A)), NEW sep \in A, ps # <<>>, qs # <<>>
    PROVE  Join(ps \o qs, sep) = Join(ps, sep) \o After(sep, Join(qs, sep))
<1> DEFINE T == {q \in Seq(Seq(A)) : q # <<>> => Join(ps \o q, sep) = Join(ps, sep) \o (<<sep>> \o Join(q, sep))}
           one == <<sep>>
<1>a. \A x, y, z \in Seq(A) : (x \o y) \o z = x \o (y \o z)
  BY ConcatAssociative
<1>0. Join(ps, sep) \in Seq(A) /\ one \in Seq(A)
  BY JoinType
<1>1. <<>> \in T
  BY EmptySeq
<1>2. ASSUME NEW q \in Seq(Seq(A)), NEW e \in Seq(A), q \in T PROVE Append(q, e) \in T
  <2> DEFINE j == Join(ps, sep)
             k == Join(q, sep)
             v == one \o e
             u == ps \o q
  <2>0. j \in Seq(A) /\ k \in Seq(A) /\ v \in Seq(A)
    <3>1. one \in Seq(A)
      BY <1>0
    <3> HIDE DEF one
    <3> QED BY <3>1, ConcatProperties, JoinType
  <2>1. /\ Append(q, e) \in Seq(Seq(A)) /\ u \in Seq(Seq(A)) /\ ps \o Append(q, e) = Append(u, e)
        /\ j \in Seq(A) /\ k \in Seq(A) /\ v \in Seq(A)
    <3>1. ps \o Append(q, e) = Append(u, e)
      BY ConcatAppend
    <3>2. u \in Seq(Seq(A))
      BY ConcatProperties
    <3>3. Append(q, e) \in Seq(Seq(A))
      BY AppendProperties
    <3> QED BY <2>0, <3>1, <3>2, <3>3
  <2>2. CASE q = <<>>
    <3>1. ps \o Append(q, e) = Append(ps, e) /\ Append(q, e) = <<e>>
      BY <2>1, <2>2, ConcatEmptySeq
    <3>2. Join(Append(ps, e), sep) = j \o (<<sep>> \o e)
      BY JoinAppend
    <3>3. Join(<<e>>, sep) = e
      BY JoinOne
    <3> QED BY <2>1, <3>1, <3>2, <3>3
  <2>3. CASE q # <<>>
    <3>1. u # <<>>
      BY <2>3, ConcatEqualIffEmpty
    <3>2. Join(Append(q, e), sep) = k \o v
      BY <2>3, JoinAppend
    <3>3. Join(u, sep) = j \o (one \o k)
      BY <1>2, <2>3
    <3> HIDE DEF u
    <3>4. Join(Append(u, e), sep) = Join(u, sep) \o v
      BY <2>1, <3>1, JoinAppend
    <3> HIDE DEF j, k, v, one
    <3> DEFINE w == one \o k
    <3>5. w \in Seq(A) /\ w \o v = one \o (k \o v)
      <4>1. one \in Seq(A) /\ k \in Seq(A) /\ v \in Seq(A)
        BY <1>0, <2>1 DEF one, k, v
      <4>2. w \in Seq(A)
        BY <4>1, ConcatProperties
      <4>3. (one \o k) \o v = one \o (k \o v)
        BY <1>a, <4>1
      <4> QED BY <4>2, <4>3
    <3> HIDE DEF w
    <3>6. (j \o w) \o v = j \o (w \o v)
      <4>1. j \in Seq(A) /\ w \in Seq(A) /\ v \in Seq(A)
        BY <2>1, <3>5 DEF j, v
      <4> QED BY <1>a, <4>1
    <3>7. Join(ps \o Append(q, e), sep) = j \o (one \o Join(Append(q, e), sep))
      BY <2>1, <3>2, <3>3, <3>4, <3>5, <3>6 DEF w, u
    <3> QED BY <2>1, <3>7 DEF j, one
  <2> QED BY <2>2, <2>3
<1>3. Seq(Seq(A)) \subseteq T
  <2> HIDE DEF T
  <2> QED BY <1>1, <1>2, SeqInduct
<1> QED BY <1>3 DEF After

LEMMA JoinEachAppend ==
    ASSUME NEW A, NEW rs \in Seq(Seq(Seq(A))), NEW r \in Seq(Seq(A)), NEW sep \in A
    PROVE  JoinEach(Append(rs, r), sep) = Append(JoinEach(rs, sep), Join(r, sep))
<1> DEFINE f == [t \in Seq(Seq(A)) |-> Join(t, sep)]
<1>1. f \in [Seq(Seq(A)) -> Seq(A)] /\ f[r] = Join(r, sep)
  BY JoinType
<1>2. ASSUME NEW c \in Seq(Seq(Seq(A))) PROVE JoinEach(c, sep) = Each(f, c)
  <2>1. \A i \in DOMAIN c : c[i] \in Seq(Seq(A))
    BY LenProperties, ElementOfSeq
  <2> QED BY <2>1 DEF JoinEach, Each
<1>3. Append(rs, r) \in Seq(Seq(Seq(A)))
  BY AppendProperties
<1>4. JoinEach(rs, sep) = Each(f, rs) /\ JoinEach(Append(rs, r), sep) = Each(f, Append(rs, r))
  BY <1>2, <1>3
<1> HIDE DEF f
<1>6. Each(f, Append(rs, r)) = Append(Each(f, rs), f[r])
  BY <1>1, EachAppend
<1> QED BY <1>1, <1>4, <1>6

\* Pages of lines are joined as their lines are, if no page is without lines.
LEMMA JoinJoin ==
    ASSUME NEW A, NEW sep \in A, NEW X \in Seq(Seq(Seq(A)) \ {<<>>})
    PROVE  /\ Join(JoinEach(X, sep), sep) = Join(FlattenSeq(X), sep)
           /\ X # <<>> => FlattenSeq(X) # <<>>
<1>a. \A x, y \in Seq(Seq(A)) : x # <<>> /\ y # <<>> =>
         Join(x \o y, sep) = Join(x, sep) \o After(sep, Join(y, sep))
  BY JoinConcat
<1> DEFINE N == Seq(Seq(A)) \ {<<>>}
           T == {Y \in Seq(N) : /\ Join(JoinEach(Y, sep), sep) = Join(FlattenSeq(Y), sep)
                                /\ Y # <<>> => FlattenSeq(Y) # <<>>}
<1>0. \A Y \in Seq(N) : Y \in Seq(Seq(Seq(A)))
  <2>1. N \subseteq Seq(Seq(A))
    OBVIOUS
  <2> HIDE DEF N
  <2> QED BY <2>1, SeqMonotonic
<1>1. <<>> \in T
  <2>1. JoinEach(<<>>, sep) = <<>>
    BY DEF JoinEach
  <2> QED BY <2>1, FlattenEmpty, EmptySeq
<1>2. ASSUME NEW Y \in Seq(N), NEW e \in N, Y \in T PROVE Append(Y, e) \in T
  <2> DEFINE J == JoinEach(Y, sep)
             F == FlattenSeq(Y)
             k == Join(e, sep)
  <2>1. /\ Y \in Seq(Seq(Seq(A))) /\ e \in Seq(Seq(A)) /\ e # <<>>
        /\ Append(Y, e) \in Seq(N)
    BY <1>0, AppendProperties
  <2> HIDE DEF N
  <2>2. J \in Seq(Seq(A)) /\ Len(J) = Len(Y) /\ F \in Seq(Seq(A)) /\ k \in Seq(A)
    BY <2>1, JoinEachType, FlattenType, JoinType
  <2>3. JoinEach(Append(Y, e), sep) = Append(J, k)
    BY <2>1, JoinEachAppend
  <2>4. FlattenSeq(Append(Y, e)) = F \o e
    BY <2>1, FlattenAppend
  <2>5. F \o e # <<>>
    BY <2>1, <2>2, ConcatEqualIffEmpty
  <2>6. Join(Append(J, k), sep) = Join(F \o e, sep)
    <3>1. CASE Y = <<>>
      <4>1. J = <<>> /\ F = <<>>
        BY <3>1, FlattenEmpty DEF JoinEach
      <4>2. Append(J, k) = <<k>> /\ F \o e = e
        BY <2>1, <4>1, ConcatEmptySeq
      <4>3. Join(<<k>>, sep) = k
        BY <2>2, JoinOne
      <4> QED BY <4>2, <4>3
    <3>2. CASE Y # <<>>
      <4>1. J # <<>> /\ F # <<>> /\ Join(J, sep) = Join(F, sep)
        <5>1. Len(Y) # 0
          BY <2>1, <3>2, EmptySeq
        <5>2. J # <<>>
          BY <2>2, <5>1, EmptySeq
        <5> QED BY <1>2, <3>2, <5>2
      <4> HIDE DEF J, F, k
      <4>2. Join(Append(J, k), sep) = Join(J, sep) \o (<<sep>> \o k)
        BY <2>2, <4>1, JoinAppend
      <4>3. Join(F \o e, sep) = Join(F, sep) \o After(sep, Join(e, sep))
        <5>1. F \in Seq(Seq(A)) /\ e \in Seq(Seq(A)) /\ F # <<>> /\ e # <<>>
          BY <2>1, <2>2, <4>1
        <5> QED BY <1>a, <5>1
      <4> QED BY <4>1, <4>2, <4>3 DEF k, After
    <3> QED BY <3>1, <3>2
  <2> QED BY <2>1, <2>3, <2>4, <2>5, <2>6
<1>3. Seq(N) \subseteq T
  <2> HIDE DEF T, N
  <2> QED BY <1>1, <1>2, SeqInduct
<1> QED BY <1>3

-----------------------------------------------------------------------------
\* Applying a function to what is flattened.

\* Images of concatenations and of what is flattened.
LEMMA EachConcat ==
    ASSUME NEW A, NEW f
    PROVE  \A s, t \in Seq(A) : Each(f, s \o t) = Each(f, s) \o Each(f, t)
<1> SUFFICES ASSUME NEW s \in Seq(A), NEW t \in Seq(A) PROVE Each(f, s \o t) = Each(f, s) \o Each(f, t)
  OBVIOUS
<1> DEFINE B == {f[x] : x \in A}
           T == {u \in Seq(A) : Each(f, s \o u) = Each(f, s) \o Each(f, u)}
           x == Each(f, s)
<1>0. x \in Seq(B)
  BY EachType
<1>1. <<>> \in T
  BY <1>0, EachEmpty, EmptySeq, ConcatEmptySeq
<1>2. ASSUME NEW u \in Seq(A), NEW e \in A, u \in T PROVE Append(u, e) \in T
  <2> DEFINE y == Each(f, u)
             v == s \o u
  <2>1. Append(u, e) \in Seq(A) /\ v \in Seq(A) /\ s \o Append(u, e) = Append(v, e) /\ y \in Seq(B) /\ f[e] \in B
    <3>1. s \o Append(u, e) = Append(v, e)
      BY ConcatAppend
    <3>2. v \in Seq(A) /\ Append(u, e) \in Seq(A)
      BY ConcatProperties, AppendProperties
    <3>3. y \in Seq(B) /\ f[e] \in B
      <4> HIDE DEF v
      <4> QED BY EachType
    <3> QED BY <3>1, <3>2, <3>3
  <2>2. Each(f, Append(u, e)) = Append(y, f[e])
    BY EachAppend
  <2>3. Each(f, v) = x \o y
    BY <1>2
  <2> HIDE DEF v
  <2>4. Each(f, Append(v, e)) = Append(Each(f, v), f[e])
    <3>1. v \in Seq(A)
      BY <2>1
    <3> QED BY <3>1, EachAppend
  <2> HIDE DEF x, y
  <2>5. x \o Append(y, f[e]) = Append(x \o y, f[e])
    BY <1>0, <2>1, ConcatAppend
  <2>6. Each(f, s \o Append(u, e)) = x \o Each(f, Append(u, e))
    BY <2>1, <2>2, <2>3, <2>4, <2>5
  <2> QED BY <2>1, <2>6 DEF x
<1>3. Seq(A) \subseteq T
  <2> HIDE DEF T
  <2> QED BY <1>1, <1>2, SeqInduct
<1> QED BY <1>3

EachEach(f, X) == [k \in DOMAIN X |-> Each(f, X[k])]

LEMMA EachFlat ==
    ASSUME NEW A, NEW f, NEW X \in Seq(Seq(A))
    PROVE  Each(f, FlattenSeq(X)) = FlattenSeq(EachEach(f, X))
<1> DEFINE B == {f[x] : x \in A}
<1>b. \A x \in A : f[x] \in B
  OBVIOUS
<1> HIDE DEF B
<1>a. \A s, t \in Seq(A) : Each(f, s \o t) = Each(f, s) \o Each(f, t)
  BY EachConcat
<1> DEFINE T == {Y \in Seq(Seq(A)) : Each(f, FlattenSeq(Y)) = FlattenSeq(EachEach(f, Y))}
           g == [s \in Seq(A) |-> Each(f, s)]
<1>0. /\ g \in [Seq(A) -> Seq(B)]
      /\ \A Y \in Seq(Seq(A)) : EachEach(f, Y) = Each(g, Y)
  <2>1. ASSUME NEW s \in Seq(A) PROVE Each(f, s) \in Seq(B)
    BY <1>b, EachType
  <2>2. ASSUME NEW Y \in Seq(Seq(A)) PROVE EachEach(f, Y) = Each(g, Y)
    <3>1. \A i \in DOMAIN Y : Y[i] \in Seq(A)
      BY LenProperties, ElementOfSeq
    <3> QED BY <3>1 DEF EachEach, Each
  <2> QED BY <2>1, <2>2
<1>1. <<>> \in T
  <2>1. EachEach(f, <<>>) = <<>>
    BY DEF EachEach
  <2> QED BY <2>1, FlattenEmpty, EachEmpty, EmptySeq
<1>2. ASSUME NEW Y \in Seq(Seq(A)), NEW e \in Seq(A), Y \in T PROVE Append(Y, e) \in T
  <2> DEFINE F == FlattenSeq(Y)
             E == Each(g, Y)
             x == Each(f, e)
  <2>1. Append(Y, e) \in Seq(Seq(A)) /\ F \in Seq(A)
    BY AppendProperties, FlattenType
  <2>2. FlattenSeq(Append(Y, e)) = F \o e
    BY FlattenAppend
  <2>3. g[e] = x /\ x \in Seq(B)
    BY <1>b, EachType
  <2>4. EachEach(f, Append(Y, e)) = Each(g, Append(Y, e)) /\ EachEach(f, Y) = E
    BY <1>0, <2>1
  <2>5. Each(f, F) = FlattenSeq(EachEach(f, Y))
    BY <1>2
  <2> HIDE DEF g, F, x
  <2>6. Each(g, Append(Y, e)) = Append(E, g[e]) /\ E \in Seq(Seq(B))
    <3>1. g \in [Seq(A) -> Seq(B)] /\ Y \in Seq(Seq(A)) /\ e \in Seq(A)
      BY <1>0
    <3>2. Each(g, Append(Y, e)) = Append(Each(g, Y), g[e])
      BY <3>1, EachAppend
    <3>3. Each(g, Y) \in Seq(Seq(B))
      BY <3>1, EachType
    <3> QED BY <3>2, <3>3
  <2> HIDE DEF E
  <2>7. FlattenSeq(Append(E, x)) = FlattenSeq(E) \o x
    BY <2>3, <2>6, FlattenAppend
  <2>8. Each(f, F \o e) = Each(f, F) \o Each(f, e)
    <3>1. F \in Seq(A)
      BY <2>1
    <3> QED BY <1>a, <3>1
  <2>9. Each(f, FlattenSeq(Append(Y, e))) = FlattenSeq(EachEach(f, Append(Y, e)))
    BY <2>2, <2>3, <2>4, <2>5, <2>6, <2>7, <2>8 DEF x
  <2> QED BY <2>1, <2>9
<1>3. Seq(Seq(A)) \subseteq T
  <2> HIDE DEF T
  <2> QED BY <1>1, <1>2, SeqInduct
<1> QED BY <1>3

\* Lines that are not empty are found again.
LEMMA LinesBack ==
    ASSUME NEW A, NEW sep, sep \notin A, NEW ls \in Seq(Seq(A) \ {<<>>})
    PROVE  NonEmpty(Split(Join(ls, sep), sep)) = ls
<1> DEFINE B == A \cup {sep}
           N == Seq(A) \ {<<>>}
<1>0. B \ {sep} = A /\ ls \in Seq(Seq(A))
  <2>1. N \subseteq Seq(A)
    OBVIOUS
  <2> HIDE DEF N
  <2>2. ls \in Seq(Seq(A))
    <3>1. ls \in Seq(N)
      BY DEF N
    <3> QED BY <2>1, <3>1, SeqMonotonic
  <2> QED BY <2>2
<1>1. CASE ls = <<>>
  <2>1. Split(Join(ls, sep), sep) = << <<>> >>
    BY <1>1, JoinEmpty, SplitEmpty
  <2>2. Without(<< <<>> >>, {<<>>}) = <<>>
    <3>1. << <<>> >> \in Seq({<<>>})
      OBVIOUS
    <3> QED BY <3>1, WithoutAll
  <2> QED BY <1>1, <2>1, <2>2 DEF NonEmpty
<1>2. CASE ls # <<>>
  <2>1. Split(Join(ls, sep), sep) = ls
    <3>1. ls \in Seq(Seq(B \ {sep})) /\ sep \in B
      BY <1>0
    <3> HIDE DEF B
    <3> QED BY <1>2, <3>1, SplitJoin
  <2>2. Without(ls, {<<>>}) = ls
    <3>1. N \cap {<<>>} = {}
      OBVIOUS
    <3>2. ls \in Seq(N)
      OBVIOUS
    <3> HIDE DEF N
    <3> QED BY <3>1, <3>2, WithoutNone
  <2> QED BY <2>1, <2>2 DEF NonEmpty
<1> QED BY <1>1, <1>2

-----------------------------------------------------------------------------
\* Plain pages.

Line == Seq(Words \cup {Bar}) \ {<<>>}

\* What is shown of a plain page are texts without line breaks or bars, which
\* extract leaves as they are.
LEMMA PlainColumns ==
    ASSUME site \in Site, Plain, NEW p \in Pages
    PROVE  /\ Columns(p) = Shown(p)
           /\ \A c \in 1..Len(site[p].columns) : Columns(p)[c] \in Seq(Seq(Words) \ {<<>>})
<1> DEFINE n == Len(site[p].columns)
<1>1. /\ Shown(p) \in Seq(Seq(Seq(Char))) /\ Columns(p) \in Seq(Seq(Seq(Char)))
      /\ DOMAIN Shown(p) = 1..n /\ DOMAIN Columns(p) = 1..n
      /\ \A c \in 1..n : /\ site[p].columns[c] \in Seq(Seq(Char))
                         /\ Shown(p)[c] = Without(site[p].columns[c], Blank)
                         /\ Columns(p)[c] = TrimEach(Shown(p)[c])
  BY ColumnsOf
<1>2. ASSUME NEW c \in 1..n
      PROVE  Shown(p)[c] \in Seq(Seq(Words) \ {<<>>}) /\ TrimEach(Shown(p)[c]) = Shown(p)[c]
  <2> DEFINE col == site[p].columns[c]
             B == Seq(Words) \cup Blank
             w == Without(col, Blank)
  <2>1. DOMAIN col = 1..Len(col) /\ Len(col) \in Nat /\ col = [i \in 1..Len(col) |-> col[i]]
    <3>1. col \in Seq(Seq(Char))
      BY <1>1
    <3> HIDE DEF col
    <3> QED BY <3>1, LenProperties
  <2>2. \A i \in 1..Len(col) : col[i] \in B
    <3>1. c \in DOMAIN site[p].columns
      <4>1. site[p].columns \in Seq(Seq(Seq(Char)))
        BY DEF Site, Text, Char
      <4> QED BY <4>1, LenProperties
    <3> QED BY <2>1, <3>1 DEF Plain
  <2>3. col \in Seq(B)
    <3> HIDE DEF col, B
    <3> QED BY <2>1, <2>2
  <2>4. w \in Seq(B \ Blank)
    <3> HIDE DEF col, B
    <3> QED BY <2>3, WithoutRest
  <2>5. B \ Blank \subseteq Seq(Words) \ {<<>>}
    <3>1. <<>> \in Blank
      BY EmptySeq DEF Blank
    <3> QED BY <3>1
  <2> HIDE DEF B, col
  <2>6. w \in Seq(Seq(Words) \ {<<>>})
    <3> HIDE DEF w
    <3> QED BY <2>4, <2>5, SeqMonotonic
  <2> HIDE DEF w
  <2>7. DOMAIN w = 1..Len(w) /\ w = [i \in 1..Len(w) |-> w[i]] /\ \A i \in 1..Len(w) : w[i] \in Seq(Words)
    <3> DEFINE N == Seq(Words) \ {<<>>}
    <3>1. \A x \in N : x \in Seq(Words)
      OBVIOUS
    <3> HIDE DEF N
    <3>2. w \in Seq(N)
      BY <2>6 DEF N
    <3> QED BY <3>1, <3>2, LenProperties, ElementOfSeq
  <2>8. \A i \in 1..Len(w) : Trim(w[i]) = w[i]
    <3>1. NL \notin Words
      BY ScrapingAssumption
    <3>2. \A t \in Seq(Words) : Trim(t) = t
      BY <3>1, TrimPlain
    <3> QED BY <2>7, <3>2
  <2>9. TrimEach(w) = w
    BY <2>7, <2>8 DEF TrimEach
  <2> QED BY <1>1, <2>6, <2>9 DEF w, col
<1>3. Columns(p) = [c \in 1..n |-> Columns(p)[c]] /\ Shown(p) = [c \in 1..n |-> Shown(p)[c]]
  <2>1. Len(Columns(p)) = n /\ Len(Shown(p)) = n
    BY ColumnsOf
  <2> QED BY <1>1, <2>1, LenProperties
<1>4. \A c \in 1..n : Columns(p)[c] = Shown(p)[c] /\ Columns(p)[c] \in Seq(Seq(Words) \ {<<>>})
  BY <1>1, <1>2
<1> HIDE DEF n
<1>5. Columns(p) = Shown(p)
  BY <1>3, <1>4
<1> QED BY <1>4, <1>5 DEF n

\* A sequence whose elements are in a set is one over that set.
LEMMA Retyped ==
    ASSUME NEW A, NEW B, NEW s \in Seq(A), \A i \in 1..Len(s) : s[i] \in B PROVE s \in Seq(B)
<1>1. Len(s) \in Nat /\ s \in [1..Len(s) -> A]
  BY LenProperties
<1>2. s \in [1..Len(s) -> B]
  BY <1>1
<1> QED BY <1>1, <1>2

\* The rows of a plain page, and its lines.
PageLines(p) == JoinEach(PageTable(p), Bar)
Row(n) == {r \in Seq(Seq(Words)) : Len(r) = n}

LEMMA PlainRows ==
    ASSUME site \in Site, Plain, NEW p \in Pages, site[p].columns # <<>>
    PROVE  /\ PageTable(p) \in Seq(Row(Len(site[p].columns)))
           /\ PageLines(p) \in Seq(Line)
           /\ Extracted(p) = Join(PageLines(p), NL)
           /\ Len(PageTable(p)) = Len(PageLines(p)) /\ DOMAIN PageLines(p) = 1..Len(PageLines(p))
           /\ \A i \in 1..Len(PageLines(p)) : Split(PageLines(p)[i], Bar) = PageTable(p)[i]
           /\ p \notin Textless => PageLines(p) # <<>>
<1> DEFINE cs == Columns(p)
           n == Len(site[p].columns)
           A == Words \cup {Bar}
           N == Seq(Words) \ {<<>>}
<1>0. /\ cs = Shown(p) /\ \A c \in 1..n : cs[c] \in Seq(N)
      /\ cs \in Seq(Seq(Seq(Char))) /\ Len(cs) = n /\ DOMAIN cs = 1..n /\ n \in Nat
  BY PlainColumns, ColumnsOf
<1>1. n # 0
  <2>1. site[p].columns \in Seq(Seq(Seq(Char)))
    BY DEF Site, Text, Char
  <2> QED BY <2>1, EmptySeq
<1>2. PageTable(p) = RowsOf(cs) /\ Extracted(p) = Join(PageLines(p), NL)
  BY <1>0, PageRows, ExtractedRows DEF PageLines
<1>3. cs \in Seq(Seq(Seq(Words)))
  <2>1. N \subseteq Seq(Words)
    OBVIOUS
  <2> HIDE DEF N
  <2>2. \A c \in 1..n : cs[c] \in Seq(Seq(Words))
    BY <1>0, <2>1, SeqMonotonic
  <2> HIDE DEF cs, n
  <2>3. cs \in Seq(Seq(Seq(Char))) /\ \A c \in 1..Len(cs) : cs[c] \in Seq(Seq(Words))
    BY <1>0, <2>2
  <2> QED BY <2>3, Retyped
<1> HIDE DEF cs, n
<1> DEFINE R == RowsOf(cs)
<1>4. /\ R \in Seq(Seq(Seq(Words))) /\ Len(R) = Wide(cs) /\ Wide(cs) \in Nat
      /\ \A i \in 1..Wide(cs) : /\ Len(R[i]) = n /\ R[i] \in Seq(Seq(Words))
                                /\ \A c \in 1..n : R[i][c] = Cell(cs[c], i)
  BY <1>0, <1>3, RowsType
<1> HIDE DEF R
<1>5. R \in Seq(Row(n))
  <2>1. \A i \in 1..Wide(cs) : R[i] \in Row(n)
    BY <1>4 DEF Row
  <2>2. R \in Seq(Seq(Seq(Words))) /\ \A i \in 1..Len(R) : R[i] \in Row(n)
    BY <1>4, <2>1
  <2> QED BY <2>2, Retyped
<1>6. \A s \in Seq(Seq(Words)) : s \in Seq(Seq(A)) /\ s \in Seq(Seq(A \ {Bar}))
  <2>1. Words \subseteq A /\ Words = A \ {Bar}
    BY ScrapingAssumption
  <2> HIDE DEF A
  <2>2. Seq(Words) \subseteq Seq(A)
    BY <2>1, SeqMonotonic
  <2> QED BY <2>1, <2>2, SeqMonotonic
<1>7. ASSUME NEW i \in 1..Wide(cs)
      PROVE  Split(Join(R[i], Bar), Bar) = R[i] /\ Join(R[i], Bar) \in Line
  <2> DEFINE r == R[i]
             l == Join(r, Bar)
  <2>1. r \in Seq(Seq(A)) /\ r \in Seq(Seq(A \ {Bar})) /\ Len(r) = n /\ r # <<>> /\ Bar \in A
    <3>1. r \in Seq(Seq(Words)) /\ Len(r) = n
      BY <1>4
    <3>2. Len(<<>>) = 0
      BY EmptySeq
    <3> QED BY <1>1, <1>6, <3>1, <3>2
  <2>2. Split(l, Bar) = r /\ l \in Seq(A)
    <3> HIDE DEF r, A
    <3> QED BY <2>1, SplitJoin, JoinType
  <2>3. l # <<>>
    <3> SUFFICES ASSUME l = <<>> PROVE FALSE
      OBVIOUS
    <3>1. r = << <<>> >>
      BY <2>2, SplitEmpty
    <3>2. PICK c \in 1..n : Len(cs[c]) = Wide(cs)
      <4>1. Wide(cs) # 0
        BY <1>4
      <4>2. Wide(cs) = 0 \/ \E c \in DOMAIN cs : Len(cs[c]) = Wide(cs)
        BY <1>3, WideHolds
      <4> QED BY <1>0, <4>1, <4>2
    <3>3. cs[c][i] \in N
      <4> HIDE DEF N
      <4>1. cs[c] \in Seq(N) /\ i \in 1..Len(cs[c])
        BY <1>0, <3>2
      <4> QED BY <4>1, ElementOfSeq
    <3>4. r[c] = cs[c][i]
      BY <1>4, <3>2 DEF Cell
    <3>5. c = 1 /\ r[1] = <<>>
      BY <2>1, <3>1, <3>2
    <3> QED BY <3>3, <3>4, <3>5
  <2> QED BY <2>2, <2>3 DEF Line
<1>8. /\ PageLines(p) = [i \in 1..Wide(cs) |-> Join(R[i], Bar)]
  BY <1>2, <1>4, LenProperties DEF PageLines, JoinEach, R
<1>9. /\ PageLines(p) \in Seq(Line) /\ Len(PageLines(p)) = Wide(cs) /\ DOMAIN PageLines(p) = 1..Wide(cs)
      /\ \A i \in 1..Wide(cs) : PageLines(p)[i] = Join(R[i], Bar)
  BY <1>4, <1>7, <1>8
<1>10. ASSUME p \notin Textless PROVE Wide(cs) # 0
  <2> SUFFICES ASSUME Wide(cs) = 0 PROVE FALSE
    OBVIOUS
  <2>1. ASSUME NEW c \in DOMAIN cs PROVE cs[c] = <<>>
    <3>1. Len(cs[c]) <= 0 /\ cs[c] \in Seq(Seq(Words))
      BY <1>0, <1>3, WideHolds, ElementOfSeq
    <3>2. Len(cs[c]) = 0
      BY <3>1, LenProperties
    <3> QED BY <3>1, <3>2, EmptySeq
  <2>2. 1 \in DOMAIN cs
    BY <1>0, <1>1
  <2>3. Range(cs) = {<<>>}
    BY <2>1, <2>2 DEF Range
  <2> QED BY <1>10, <2>3 DEF Textless, cs
<1>11. PageTable(p) = R
  BY <1>2 DEF R
<1>12. p \notin Textless => PageLines(p) # <<>>
  BY <1>9, <1>10, EmptySeq
<1> QED BY <1>2, <1>4, <1>5, <1>7, <1>9, <1>11, <1>12 DEF n

\* The table a reader of the site sees comes back from the text that a scrape
\* of plain pages returns.
LEMMA TableParsed ==
    ASSUME IInv, Progress, Complete, Plain, site \in Sites
    PROVE  Table \in Seq(Row(Fields)) /\ parseRows(Returned) = Table /\ Fields \in Nat \ {0}
<1> DEFINE n == Fields
           ps == Read
           X == [k \in DOMAIN ps |-> PageTable(ps[k])]
           LL == [i \in DOMAIN rows |-> PageLines(rows[i])]
           L == FlattenSeq(LL)
<1>1. ps \in Seq(Pages) /\ rows = Without(ps, Textless) /\ site \in Site
  BY AllRead
<1>2. \A p \in Pages : site[p].columns # <<>> /\ Len(site[p].columns) = n /\ n \in Nat \ {0}
  <2>1. request.start \in Pages
    BY DEF IInv, TypeOK, Request
  <2>2. site[request.start].columns \in Seq(Seq(Seq(Char))) /\ site[request.start].columns # <<>>
    BY <1>1, <2>1, ScrapingAssumption DEF Site, Text, Char
  <2>3. n \in Nat \ {0}
    <3> DEFINE c == site[request.start].columns
    <3>1. c \in Seq(Seq(Seq(Char))) /\ c # <<>>
      BY <2>2
    <3> HIDE DEF c
    <3>2. Len(c) \in Nat \ {0}
      BY <3>1, EmptySeq
    <3> QED BY <3>2 DEF Fields, c
  <2> QED BY <2>1, <2>3, ScrapingAssumption DEF Fields
<1>3. ASSUME NEW p \in Pages
      PROVE  /\ PageTable(p) \in Seq(Row(n)) /\ PageLines(p) \in Seq(Line)
             /\ Extracted(p) = Join(PageLines(p), NL)
             /\ Len(PageTable(p)) = Len(PageLines(p)) /\ DOMAIN PageLines(p) = 1..Len(PageLines(p))
             /\ \A i \in 1..Len(PageLines(p)) : Split(PageLines(p)[i], Bar) = PageTable(p)[i]
             /\ p \notin Textless => PageLines(p) # <<>>
  BY <1>1, <1>2, PlainRows
<1> HIDE DEF n, ps
<1>4. rows \in Seq(Pages \ Textless) /\ rows \in Seq(Pages)
  BY <1>1, WithoutRest, WithoutType
<1>5. DOMAIN rows = 1..Len(rows) /\ Len(rows) \in Nat /\ \A i \in 1..Len(rows) : rows[i] \in Pages /\ rows[i] \notin Textless
  <2> DEFINE B == Pages \ Textless
  <2>1. \A x \in B : x \in Pages /\ x \notin Textless
    OBVIOUS
  <2>2. rows \in Seq(B)
    BY <1>4
  <2> HIDE DEF B
  <2> QED BY <2>1, <2>2, LenProperties, ElementOfSeq
<1>6. /\ LL \in Seq(Seq(Line) \ {<<>>}) /\ LL \in Seq(Seq(Line)) /\ DOMAIN LL = 1..Len(rows)
      /\ \A i \in 1..Len(rows) : LL[i] = PageLines(rows[i])
  <2>1. \A i \in 1..Len(rows) : PageLines(rows[i]) \in Seq(Line) /\ PageLines(rows[i]) # <<>>
    BY <1>3, <1>5
  <2> QED BY <1>5, <2>1
<1>7. L \in Seq(Line)
  <2> HIDE DEF LL
  <2> QED BY <1>6, FlattenType
<1>8. [i \in DOMAIN rows |-> Extracted(rows[i])] = JoinEach(LL, NL)
  BY <1>3, <1>5, <1>6 DEF JoinEach
<1> DEFINE A == Words \cup {Bar}
           B == A \cup {NL}
<1>9. Join(JoinEach(LL, NL), NL) = Join(L, NL)
  <2>1. LL \in Seq(Seq(Seq(B)) \ {<<>>})
    <3>1. Line \subseteq Seq(B)
      <4>1. A \subseteq B
        OBVIOUS
      <4>2. Seq(A) \subseteq Seq(B)
        <5> HIDE DEF A, B
        <5> QED BY <4>1, SeqMonotonic
      <4> QED BY <4>2 DEF Line
    <3>2. Seq(Line) \subseteq Seq(Seq(B))
      <4> HIDE DEF B
      <4> QED BY <3>1, SeqMonotonic
    <3>3. Seq(Line) \ {<<>>} \subseteq Seq(Seq(B)) \ {<<>>}
      BY <3>2
    <3> HIDE DEF B, LL
    <3> QED BY <1>6, <3>3, SeqMonotonic
  <2>2. NL \in B
    OBVIOUS
  <2> HIDE DEF B, LL
  <2> QED BY <2>1, <2>2, JoinJoin
<1>10. NonEmpty(Split(Join(L, NL), NL)) = L
  <2>1. NL \notin A
    BY ScrapingAssumption DEF NL, Bar
  <2>2. L \in Seq(Seq(A) \ {<<>>})
    BY <1>7 DEF Line
  <2> HIDE DEF A, L
  <2> QED BY <2>1, <2>2, LinesBack
<1>11. Returned = Join(L, NL)
  <2>1. Returned = Join(L, NL) \/ Returned = normalizeScrapedText(Join(L, NL))
    <3> HIDE DEF LL, L
    <3> QED BY <1>8, <1>9 DEF Returned
  <2>2. normalizeScrapedText(Join(L, NL)) = Join(L, NL)
    <3> HIDE DEF L
    <3> QED BY <1>10 DEF normalizeScrapedText
  <2> QED BY <2>1, <2>2
<1> DEFINE cut == [l \in Line |-> Split(l, Bar)]
           tab == [p \in Pages |-> PageTable(p)]
<1>12. parseRows(Returned) = Each(cut, L)
  <2> HIDE DEF L
  <2>1. parseRows(Returned) = [i \in DOMAIN L |-> Split(L[i], Bar)]
    BY <1>10, <1>11 DEF parseRows
  <2>2. \A i \in DOMAIN L : L[i] \in Line
    BY <1>7, LenProperties, ElementOfSeq
  <2> QED BY <2>1, <2>2 DEF Each
<1>13. Each(cut, L) = FlattenSeq(EachEach(cut, LL))
  <2>1. LL \in Seq(Seq(Line))
    BY <1>6
  <2> HIDE DEF cut, LL
  <2> QED BY <2>1, EachFlat
<1>14. EachEach(cut, LL) = Each(tab, rows)
  <2>1. ASSUME NEW i \in 1..Len(rows) PROVE Each(cut, LL[i]) = tab[rows[i]]
    <3> DEFINE p == rows[i]
               t == PageTable(p)
               m == PageLines(p)
    <3>1. p \in Pages /\ LL[i] = m /\ tab[p] = t
      BY <1>5, <1>6
    <3>2. /\ t \in Seq(Row(n)) /\ m \in Seq(Line)
          /\ Len(t) = Len(m) /\ DOMAIN m = 1..Len(m)
          /\ \A j \in 1..Len(m) : Split(m[j], Bar) = t[j]
      BY <1>3, <3>1
    <3> HIDE DEF t, m, LL
    <3>3. \A j \in 1..Len(m) : cut[m[j]] = t[j]
      BY <3>2, ElementOfSeq
    <3>4. t = [j \in 1..Len(t) |-> t[j]]
      BY <3>2, LenProperties
    <3> HIDE DEF cut
    <3> QED BY <3>1, <3>2, <3>3, <3>4 DEF Each
  <2> QED BY <1>5, <1>6, <2>1 DEF EachEach, Each
<1>15. FlattenSeq(Each(tab, rows)) = FlattenSeq(Each(tab, ps))
  <2>1. tab \in [Pages -> Seq(Row(n))]
    BY <1>3
  <2>2. \A p \in Pages \cap Textless : tab[p] = <<>>
    BY <1>1, TextlessPage
  <2> HIDE DEF tab
  <2> QED BY <1>1, <2>1, <2>2, DropEmpty
<1>16. Each(tab, ps) = X /\ X \in Seq(Seq(Row(n)))
  <2>1. DOMAIN ps = 1..Len(ps) /\ \A k \in DOMAIN ps : ps[k] \in Pages
    BY <1>1, LenProperties, ElementOfSeq
  <2>2. Each(tab, ps) = X
    BY <2>1 DEF Each
  <2>3. \A p \in Pages : tab[p] \in Seq(Row(n))
    BY <1>3
  <2> HIDE DEF tab, X
  <2> QED BY <1>1, <2>2, <2>3, EachType
<1>17. Table = FlattenSeq(X)
  BY DEF Table, ps
<1>18. FlattenSeq(X) \in Seq(Row(n))
  <2> HIDE DEF X
  <2> QED BY <1>16, FlattenType
<1>19. parseRows(Returned) = FlattenSeq(X)
  <2> HIDE DEF cut, LL, L, tab, X
  <2> QED BY <1>12, <1>13, <1>14, <1>15, <1>16
<1>20. n \in Nat \ {0}
  <2>1. request.start \in Pages
    BY DEF IInv, TypeOK, Request
  <2> QED BY <1>2, <2>1
<1> HIDE DEF X
<1> QED BY <1>17, <1>18, <1>19, <1>20 DEF n

-----------------------------------------------------------------------------
\* Formatting.

\* A table with n columns is formatted without moving a cell.
LEMMA FormatShape ==
    ASSUME NEW n \in Nat \ {0}, NEW t \in Seq(Row(n)), t # <<>>
    PROVE  /\ DOMAIN t = 1..Len(t) /\ Len(t) \in Nat \ {0}
           /\ \A i \in 1..Len(t) : t[i] \in Seq(Seq(Words)) /\ Len(t[i]) = n /\ DOMAIN t[i] = 1..n
           /\ isMultiField(t) <=> n > 1
           /\ FirstCells(t) = [i \in 1..Len(t) |-> t[i][1]]
           /\ Padded(t) = t
<1>1. DOMAIN t = 1..Len(t) /\ Len(t) \in Nat \ {0}
  BY LenProperties, EmptySeq
<1>2. ASSUME NEW i \in 1..Len(t) PROVE t[i] \in Seq(Seq(Words)) /\ Len(t[i]) = n /\ DOMAIN t[i] = 1..n
  <2>1. t[i] \in Row(n)
    BY ElementOfSeq
  <2>2. t[i] \in Seq(Seq(Words)) /\ Len(t[i]) = n
    BY <2>1 DEF Row
  <2> QED BY <2>2, LenProperties
<1>3. isMultiField(t) <=> n > 1
  BY <1>1, <1>2 DEF isMultiField
<1>4. colCount(t) = n
  <2>1. {Len(t[i]) : i \in DOMAIN t} = {n}
    BY <1>1, <1>2
  <2>2. n \in Nat /\ {n} \subseteq 0..n /\ {n} # {}
    OBVIOUS
  <2>3. Max({n}) \in {n}
    BY <2>2, MaxOf
  <2> QED BY <2>1, <2>3 DEF colCount
<1>5. Padded(t) = t
  <2>1. ASSUME NEW i \in 1..Len(t) PROVE [c \in 1..n |-> Cell(t[i], c)] = t[i]
    <3> DEFINE r == t[i]
    <3>1. r \in Seq(Seq(Words)) /\ Len(r) = n /\ DOMAIN r = 1..n
      BY <1>2
    <3> HIDE DEF r
    <3>2. r = [c \in 1..n |-> r[c]]
      BY <3>1, LenProperties
    <3>3. \A c \in 1..n : Cell(r, c) = r[c]
      BY <3>1 DEF Cell
    <3> QED BY <3>2, <3>3 DEF r
  <2>2. t = [i \in 1..Len(t) |-> t[i]]
    BY <1>1, LenProperties
  <2> QED BY <1>1, <1>4, <2>1, <2>2 DEF Padded
<1> QED BY <1>1, <1>2, <1>3, <1>5 DEF FirstCells

\* A header is a row above the others.
LEMMA Header ==
    ASSUME NEW A, NEW h, NEW t \in Seq(A)
    PROVE  /\ Len(<<h>> \o t) = Len(t) + 1 /\ <<h>> \o t # <<>>
           /\ \A i \in 1..Len(t) : (<<h>> \o t)[i + 1] = t[i]
<1> DEFINE B == A \cup {h}
           a == <<h>>
           b == a \o t
<1>1. a \in Seq(B) /\ Len(a) = 1 /\ t \in Seq(B) /\ Len(t) \in Nat
  BY LenProperties
<1> HIDE DEF a, B
<1>2. Len(b) = Len(t) + 1 /\ \A i \in 1..Len(t) : b[i + 1] = t[i]
  <2>1. /\ Len(b) = Len(a) + Len(t)
        /\ \A i \in 1..Len(a) + Len(t) : b[i] = IF i <= Len(a) THEN a[i] ELSE t[i - Len(a)]
    BY <1>1, ConcatProperties
  <2> QED BY <1>1, <2>1
<1>3. b # <<>>
  BY <1>1, <1>2
<1> QED BY <1>2, <1>3 DEF a

\* Of the cells of a row none has another's name.
LEMMA OneLabel ==
    ASSUME NEW n \in Nat \ {0}, NEW names, NEW c \in 1..n,
           \A k, l \in 1..n : Label(names, k) = Label(names, l) => k = l
    PROVE  Max({d \in 1..n : Label(names, d) = Label(names, c)}) = c
<1>1. {d \in 1..n : Label(names, d) = Label(names, c)} = {c}
  OBVIOUS
<1>2. c \in Nat /\ {c} \subseteq 0..c /\ {c} # {}
  OBVIOUS
<1>3. Max({c}) \in {c}
  BY <1>2, MaxOf
<1> QED BY <1>1, <1>3

\* What is read in a formatted text is what was formatted: every cell of a
\* table of any size, in every format and under any names that tell the columns
\* apart (parseRows and the format methods of the four formatters).
THEOREM FormatKeeps ==
    ASSUME NEW n \in Nat \ {0}, NEW t \in Seq(Row(n)), NEW raw, parseRows(raw) = t,
           NEW format \in OutputFormats, NEW names,
           \A k, l \in 1..n : Label(names, k) = Label(names, l) => k = l
    PROVE  /\ ReadRows(format, Format(format, raw, names), n) = Len(t)
           /\ \A i \in DOMAIN t, c \in 1..n :
                 ReadCell(format, Format(format, raw, names), names, n, i, c) = t[i][c]
<1> DEFINE out == Format(format, raw, names)
<1>1. CASE t = <<>>
  <2>1. out = <<>>
    BY <1>1 DEF Format
  <2> QED BY <1>1, <2>1, EmptySeq DEF ReadRows
<1>2. CASE t # <<>>
  <2>1. /\ DOMAIN t = 1..Len(t) /\ Len(t) \in Nat \ {0}
        /\ \A i \in 1..Len(t) : t[i] \in Seq(Seq(Words)) /\ Len(t[i]) = n /\ DOMAIN t[i] = 1..n
        /\ isMultiField(t) <=> n > 1
        /\ FirstCells(t) = [i \in 1..Len(t) |-> t[i][1]]
        /\ Padded(t) = t
    BY <1>2, FormatShape
  <2>2. CASE Headed(format, n)
    <3>1. PICK h : out = <<h>> \o t
      <4>1. CASE format = "CSV"
        <5>1. out = CsvFormat(t, names)
          BY <1>2, <4>1 DEF Format
        <5> QED BY <2>1, <5>1 DEF CsvFormat
      <4>2. CASE format = "MD" /\ n > 1
        <5>1. out = MdFormat(t, names)
          BY <1>2, <4>2 DEF Format
        <5> QED BY <2>1, <4>2, <5>1 DEF MdFormat
      <4> QED BY <2>2, <4>1, <4>2 DEF Headed
    <3>2. Len(out) = Len(t) + 1 /\ out # <<>> /\ \A i \in 1..Len(t) : out[i + 1] = t[i]
      BY <3>1, Header
    <3> HIDE DEF out
    <3>3. ReadRows(format, out, n) = Len(t)
      BY <2>1, <2>2, <3>2 DEF ReadRows
    <3> QED BY <2>1, <2>2, <3>2, <3>3 DEF ReadCell, out
  <2>3. CASE ~Headed(format, n) /\ n = 1
    <3>1. format \in {"JSON", "MD", "TXT"} /\ ~isMultiField(t)
      BY <2>1, <2>3 DEF Headed, OutputFormats
    <3>2. out = FirstCells(t)
      BY <1>2, <3>1 DEF Format, JsonFormat, MdFormat, TxtFormat
    <3>3. out = [i \in 1..Len(t) |-> t[i][1]]
      BY <2>1, <3>2
    <3>4. Len(out) = Len(t) /\ out # <<>>
      BY <2>1, <3>3
    <3>5. ReadRows(format, out, n) = Len(t)
      BY <2>3, <3>4 DEF ReadRows
    <3>6. \A i \in 1..Len(t), c \in 1..n : ReadCell(format, out, names, n, i, c) = t[i][c]
      BY <2>3, <3>3 DEF ReadCell
    <3> QED BY <2>1, <3>5, <3>6
  <2>4. CASE ~Headed(format, n) /\ n > 1 /\ format = "JSON"
    <3>1. out = JsonFormat(t, names)
      BY <1>2, <2>4 DEF Format
    <3> DEFINE Rec(i) == [name \in {Label(names, c) : c \in 1..n} |->
                             t[i][Max({c \in 1..n : Label(names, c) = name})]]
    <3>2. out = [i \in 1..Len(t) |-> Rec(i)]
      BY <2>1, <2>4, <3>1 DEF JsonFormat
    <3>3. ASSUME NEW i \in 1..Len(t), NEW c \in 1..n PROVE out[i][Label(names, c)] = t[i][c]
      <4>1. Max({d \in 1..n : Label(names, d) = Label(names, c)}) = c
        BY OneLabel
      <4> QED BY <3>2, <4>1
    <3>4. Len(out) = Len(t) /\ out # <<>>
      BY <2>1, <3>2
    <3> HIDE DEF out
    <3>5. ReadRows(format, out, n) = Len(t)
      BY <2>4, <3>4 DEF ReadRows
    <3>6. \A i \in 1..Len(t), c \in 1..n : ReadCell(format, out, names, n, i, c) = t[i][c]
      BY <2>4, <3>3 DEF ReadCell
    <3> QED BY <2>1, <3>5, <3>6 DEF out
  <2>5. CASE ~Headed(format, n) /\ n > 1 /\ format # "JSON"
    <3>1. format = "TXT"
      BY <2>5 DEF Headed, OutputFormats
    <3>2. out = TxtFormat(t, names)
      BY <1>2, <3>1 DEF Format
    <3>3. out = [i \in 1..Len(t) |-> [c \in 1..n |-> <<Label(names, c), t[i][c]>>]]
      BY <2>1, <2>5, <3>2 DEF TxtFormat
    <3>4. Len(out) = Len(t) /\ out # <<>>
      BY <2>1, <3>3
    <3>5. \A i \in 1..Len(t), c \in 1..n : out[i][c][2] = t[i][c]
      BY <3>3
    <3> HIDE DEF out
    <3>6. ReadRows(format, out, n) = Len(t)
      BY <2>5, <3>4 DEF ReadRows
    <3>7. \A i \in 1..Len(t), c \in 1..n : ReadCell(format, out, names, n, i, c) = t[i][c]
      BY <2>5, <3>5 DEF ReadCell
    <3> QED BY <2>1, <3>6, <3>7 DEF out
  <2> QED BY <2>1, <2>2, <2>3, <2>4, <2>5
<1> QED BY <1>1, <1>2

\* The site is one of those the scrape may be sent to, and stays the same.
LEMMA SiteStays == ASSUME site \in Sites, [Next]_vars PROVE (site \in Sites)'
<1>1. site' = site
  BY DEF Next, Scrape, GetBrowser, NewPage, SetUpPage, Load, ExtractNothing, ExtractOnly, ExtractPage,
     FollowNext, ClosePage, BrowserGone, CallFails, LookupFails, LoseBrowser, Stop, Reject, Follow,
     vars, inputs
<1> QED BY <1>1

\* The table read in the formatted text is the table of the pages read.
LEMMA KeepsTable == ASSUME IInv, Progress, site \in Sites PROVE TableKept
<1> SUFFICES ASSUME Complete, Plain PROVE
       \A format \in OutputFormats, names \in {l \in NameLists : Distinct(l)} :
         /\ ReadRows(format, Format(format, Returned, names), Fields) = Len(Table)
         /\ \A i \in DOMAIN Table, c \in 1..Fields :
               ReadCell(format, Format(format, Returned, names), names, Fields, i, c) = Table[i][c]
  BY DEF TableKept
<1>1. Table \in Seq(Row(Fields)) /\ parseRows(Returned) = Table /\ Fields \in Nat \ {0}
  BY TableParsed
<1> SUFFICES ASSUME NEW format \in OutputFormats, NEW names, Distinct(names)
             PROVE  /\ ReadRows(format, Format(format, Returned, names), Fields) = Len(Table)
                    /\ \A i \in DOMAIN Table, c \in 1..Fields :
                          ReadCell(format, Format(format, Returned, names), names, Fields, i, c) = Table[i][c]
  OBVIOUS
<1>2. \A k, l \in 1..Fields : Label(names, k) = Label(names, l) => k = l
  BY DEF Distinct
<1> QED BY <1>1, <1>2, FormatKeeps

-----------------------------------------------------------------------------
\* The inductive invariant holds of every reachable state.
THEOREM Invariance == Spec => []IInv
BY InitIInv, NextIInv, PTL DEF Spec

\* The theorems.

\* Every value of the state is of its kind; in particular no scraper extracts
\* more pages than it was asked for, whatever the links of the site.
THEOREM TypeCorrect == Spec => []TypeOK
<1>1. IInv => TypeOK
  BY DEF IInv
<1> QED BY <1>1, Invariance, PTL

\* However a scrape ends, it leaves no page open in the shared browser, unless
\* opening or closing the page is what failed (SmartScraperService.scrape).
THEOREM PageIsClosed == Spec => []PageClosed
<1>1. IInv => PageClosed
  BY DEF IInv
<1> QED BY <1>1, Invariance, PTL

\* A scrape takes at most 4 * maxPages + 7 steps, failed calls included, however
\* the links of the site run in circles and whenever the browser is lost: each
\* of its steps uses up some of those that are left, and no other gives any back.
THEOREM ScrapesRunDown == Spec => [][StepsRunDown]_vars
BY InitIInv, NextIInv, NextRunsDown, PTL DEF Spec

\* A scrape that reports success has the words of all the pages it was to read,
\* in order; no lost browser passes for the end of a site (scrape of both
\* scrapers, extract, zipColumns, normalizeScrapedText).
THEOREM WordsAreKept == Spec => []WordsKept
<1>1. Init => IInv /\ Progress
  BY InitIInv, InitProgress
<1>2. IInv /\ Progress /\ [Next]_vars => (IInv /\ Progress)'
  BY NextIInv, NextProgress
<1>3. IInv /\ Progress => WordsKept
  BY KeepsWords
<1> QED BY <1>1, <1>2, <1>3, PTL DEF Spec

\* If no text of a site but a blank one holds a line break, and none a bar,
\* every cell is in its row and column of the formatted text, in every format
\* and under any names that tell the columns apart (zipColumns, normalizeScrapedText,
\* parseRows and the format methods of the four formatters).
THEOREM TablesAreKept == Spec => []TableKept
<1>1. Init => IInv /\ Progress /\ site \in Sites
  BY InitIInv, InitProgress DEF Init
<1>2. (IInv /\ Progress /\ site \in Sites) /\ [Next]_vars => (IInv /\ Progress /\ site \in Sites)'
  BY NextIInv, NextProgress, SiteStays
<1>3. IInv /\ Progress /\ site \in Sites => TableKept
  BY KeepsTable
<1> QED BY <1>1, <1>2, <1>3, PTL DEF Spec
=============================================================================
