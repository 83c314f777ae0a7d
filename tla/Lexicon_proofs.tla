--------------------------- MODULE Lexicon_proofs ---------------------------
(***************************************************************************)
(* Proofs about the lexicon.  The algorithms are recursive functions; what *)
(* they compute is proved by induction on the position: SetInduction gets  *)
(* it from the least element of a set of naturals, RecursionExists gives   *)
(* the function a definition chooses.                                      *)
(***************************************************************************)
EXTENDS Lexicon, SequenceTheorems, FiniteSetTheorems, WellFoundedInduction, TLAPS

-----------------------------------------------------------------------------
(* Induction and recursion                                                 *)

NatLess == {p \in Nat \X Nat : p[1] < p[2]}

\* A set of naturals with 0 and every successor is Nat.  The library's induction
\* takes a predicate; this is the same for a set, from the least element.
LEMMA SetInduction ==
    ASSUME NEW S \in SUBSET Nat, 0 \in S, \A n \in S : n + 1 \in S
    PROVE  S = Nat
<1> DEFINE T == Nat \ S
<1>1. SUFFICES ASSUME T # {} PROVE FALSE
  OBVIOUS
<1>2. PICK x \in T : \A y \in T : ~ (<<y, x>> \in NatLess)
  <2>1. IsWellFoundedOn(NatLess, Nat)
    BY NatLessThanWellFounded DEF OpToRel, NatLess
  <2>2. T \subseteq Nat
    OBVIOUS
  <2> HIDE DEF T
  <2> QED BY <1>1, <2>1, <2>2, WFMin
<1>3. x # 0 /\ x - 1 \in Nat
  OBVIOUS
<1>4. <<x - 1, x>> \in NatLess
  BY <1>3 DEF NatLess
<1> QED
  BY <1>2, <1>3, <1>4

\* The same up to a bound.
LEMMA BoundedInduction ==
    ASSUME NEW n \in Nat, NEW S \in SUBSET Nat, 0 \in S,
           \A i \in 0..n : (i \in S /\ i < n) => i + 1 \in S
    PROVE  \A i \in 0..n : i \in S
<1> DEFINE T == {i \in Nat : i <= n => i \in S}
<1>1. T \in SUBSET Nat /\ 0 \in T
  OBVIOUS
<1>2. ASSUME NEW i \in T PROVE i + 1 \in T
  <2>1. CASE i < n
    BY <2>1
  <2>2. CASE ~(i < n)
    BY <2>2
  <2> QED BY <2>1, <2>2
<1>3. T = Nat
  <2> HIDE DEF T
  <2> QED BY <1>1, <1>2, SetInduction
<1> QED
  BY <1>3

Computes(g, n, A, a, F) ==
    /\ g \in [0..n -> A]
    /\ g[0] = a
    /\ \A i \in 1..n : g[i] = F[i][g[i - 1]]

\* A function is defined by its value at 0 and the step F[i] from i - 1 to i.
LEMMA RecursionExists ==
    ASSUME NEW n \in Nat, NEW A, NEW a \in A, NEW F \in [1..n -> [A -> A]]
    PROVE  \E g : Computes(g, n, A, a, F)
<1> DEFINE Good(k, g) == g[0] = a /\ \A i \in 1..k : g[i] = F[i][g[i - 1]]
           S == {k \in Nat : \E g \in [0..n -> A] : Good(k, g)}
<1>1. 0 \in S
  <2>1. [i \in 0..n |-> a] \in [0..n -> A] /\ Good(0, [i \in 0..n |-> a])
    OBVIOUS
  <2> QED BY <2>1
<1>2. ASSUME NEW k \in 0..n, k \in S, k < n PROVE k + 1 \in S
  <2>1. PICK g \in [0..n -> A] : Good(k, g)
    BY <1>2
  <2> DEFINE h == [g EXCEPT ![k + 1] = F[k + 1][g[k]]]
  <2>2. F[k + 1][g[k]] \in A
    BY <1>2
  <2>3. h \in [0..n -> A]
    BY <2>2
  <2>4. h[0] = a
    BY <2>1, <1>2
  <2>5. ASSUME NEW i \in 1..(k + 1) PROVE h[i] = F[i][h[i - 1]]
    <3>1. CASE i = k + 1
      BY <3>1, <1>2
    <3>2. CASE i # k + 1
      BY <3>2, <1>2, <2>1
    <3> QED BY <3>1, <3>2
  <2>6. Good(k + 1, h)
    BY <2>4, <2>5
  <2>7. k + 1 \in Nat
    OBVIOUS
  <2> HIDE DEF Good, h
  <2> QED BY <2>3, <2>6, <2>7
<1>3. \A k \in 0..n : k \in S
  <2>1. S \in SUBSET Nat
    OBVIOUS
  <2> HIDE DEF S
  <2> QED BY <1>1, <1>2, <2>1, BoundedInduction
<1>4. n \in S
  BY <1>3
<1> QED
  BY <1>4 DEF Computes

-----------------------------------------------------------------------------
(* Sorting                                                                 *)

StrictTotalOrder(S, R) ==
    /\ \A d \in S : <<d, d>> \notin R
    /\ \A d, e \in S : d = e \/ <<d, e>> \in R \/ <<e, d>> \in R
    /\ \A c, d, e \in S : <<c, d>> \in R /\ <<d, e>> \in R => <<c, e>> \in R

\* Ranks are 0 to |S| - 1, and follow the order.
LEMMA RankType ==
    ASSUME NEW S, IsFiniteSet(S), NEW R, StrictTotalOrder(S, R), NEW e \in S
    PROVE  Rank(S, R, e) \in Nat /\ Rank(S, R, e) < Cardinality(S)
<1> DEFINE B == {d \in S : <<d, e>> \in R}
<1>1. B \in SUBSET S /\ e \notin B
  BY DEF StrictTotalOrder
<1>2. IsFiniteSet(B) /\ Cardinality(B) <= Cardinality(S) /\ Cardinality(B) # Cardinality(S)
  BY <1>1, FS_Subset
<1>3. Cardinality(B) \in Nat /\ Cardinality(S) \in Nat
  BY <1>2, FS_CardinalityType
<1> QED
  BY <1>2, <1>3 DEF Rank

\* Whatever comes before d comes before e, so the ranks of a total order differ.
LEMMA RankGrows ==
    ASSUME NEW S, IsFiniteSet(S), NEW R, StrictTotalOrder(S, R),
           NEW d \in S, NEW e \in S, <<d, e>> \in R
    PROVE  Rank(S, R, d) < Rank(S, R, e)
<1> DEFINE B == {c \in S : <<c, d>> \in R}
           C == {c \in S : <<c, e>> \in R}
<1>1. B \in SUBSET C /\ d \in C /\ d \notin B /\ C \in SUBSET S
  BY DEF StrictTotalOrder
<1>2. IsFiniteSet(C)
  BY <1>1, FS_Subset
<1>3. IsFiniteSet(B) /\ Cardinality(B) <= Cardinality(C) /\ Cardinality(B) # Cardinality(C)
  BY <1>1, <1>2, FS_Subset
<1>4. Cardinality(B) \in Nat /\ Cardinality(C) \in Nat
  BY <1>2, <1>3, FS_CardinalityType
<1> QED
  BY <1>3, <1>4 DEF Rank

\* InOrder lists every element of S once, in the order R.
LEMMA InOrderSorts ==
    ASSUME NEW S, IsFiniteSet(S), NEW R, StrictTotalOrder(S, R)
    PROVE  /\ Cardinality(S) \in Nat
           /\ InOrder(S, R) \in [1..Cardinality(S) -> S]
           /\ InOrder(S, R) \in Seq(S) /\ Len(InOrder(S, R)) = Cardinality(S)
           /\ \A e \in S : \E i \in 1..Cardinality(S) : InOrder(S, R)[i] = e
           /\ \A i, j \in 1..Cardinality(S) : i < j => <<InOrder(S, R)[i], InOrder(S, R)[j]>> \in R
<1> DEFINE n == Cardinality(S)
           s == InOrder(S, R)
           f == [e \in S |-> Rank(S, R, e) + 1]
<1>1. n \in Nat
  BY FS_CardinalityType
<1>2. \A e \in S : Rank(S, R, e) \in 0..(n - 1)
  BY <1>1, RankType
<1>3. \A d, e \in S : Rank(S, R, d) = Rank(S, R, e) => d = e
  <2> SUFFICES ASSUME NEW d \in S, NEW e \in S, d # e PROVE Rank(S, R, d) # Rank(S, R, e)
    OBVIOUS
  <2>1. <<d, e>> \in R \/ <<e, d>> \in R
    BY DEF StrictTotalOrder
  <2>2. Rank(S, R, d) < Rank(S, R, e) \/ Rank(S, R, e) < Rank(S, R, d)
    BY <2>1, RankGrows
  <2> QED BY <1>2, <2>2
<1>4. \A k \in 0..(n - 1) : \E e \in S : Rank(S, R, e) = k
  <2> DEFINE Image == {Rank(S, R, e) : e \in S}
             g == [e \in S |-> Rank(S, R, e)]
  <2>1. Image \in SUBSET (0..(n - 1))
    BY <1>2
  <2>2. g \in Surjection(S, Image) /\ g \in Injection(S, Image)
    BY <1>3 DEF Surjection, Injection, IsInjective
  <2>3. g \in Bijection(S, Image)
    BY <2>2 DEF Bijection
  <2>4. IsFiniteSet(Image) /\ Cardinality(Image) = n
    <3> HIDE DEF Image, g
    <3> QED BY <2>2, <2>3, FS_Bijection, FS_Surjection
  <2>5. IsFiniteSet(0..(n - 1)) /\ Cardinality(0..(n - 1)) = n
    BY <1>1, FS_Interval
  <2>6. Image = 0..(n - 1)
    <3> HIDE DEF Image
    <3> QED BY <2>1, <2>4, <2>5, FS_Subset
  <2> QED BY <2>6
<1>5. \A i \in 1..n : s[i] \in S /\ Rank(S, R, s[i]) = i - 1
  <2> SUFFICES ASSUME NEW i \in 1..n PROVE s[i] \in S /\ Rank(S, R, s[i]) = i - 1
    OBVIOUS
  <2>1. i - 1 \in 0..(n - 1)
    BY <1>1
  <2>2. s[i] = CHOOSE e \in S : Rank(S, R, e) = i - 1
    BY DEF InOrder
  <2>3. \E e \in S : Rank(S, R, e) = i - 1
    BY <1>4, <2>1
  <2> QED BY <2>2, <2>3
<1>6. s \in [1..n -> S]
  BY <1>5 DEF InOrder
<1>7. s \in Seq(S) /\ Len(s) = n
  BY <1>1, <1>6
<1>8. \A e \in S : \E i \in 1..n : s[i] = e
  <2> SUFFICES ASSUME NEW e \in S PROVE \E i \in 1..n : s[i] = e
    OBVIOUS
  <2>1. Rank(S, R, e) + 1 \in 1..n /\ (Rank(S, R, e) + 1) - 1 = Rank(S, R, e)
    BY <1>1, <1>2
  <2>2. s[Rank(S, R, e) + 1] = e
    BY <1>3, <1>5, <2>1
  <2> QED BY <2>1, <2>2
<1>9. \A i, j \in 1..n : i < j => <<s[i], s[j]>> \in R
  <2> SUFFICES ASSUME NEW i \in 1..n, NEW j \in 1..n, i < j PROVE <<s[i], s[j]>> \in R
    OBVIOUS
  <2>1. s[i] \in S /\ s[j] \in S /\ Rank(S, R, s[i]) = i - 1 /\ Rank(S, R, s[j]) = j - 1
    BY <1>5
  <2>2. s[i] = s[j] \/ <<s[i], s[j]>> \in R \/ <<s[j], s[i]>> \in R
    BY <2>1 DEF StrictTotalOrder
  <2>3. ~(<<s[j], s[i]>> \in R)
    <3> SUFFICES ASSUME <<s[j], s[i]>> \in R PROVE FALSE
      OBVIOUS
    <3>1. Rank(S, R, s[j]) < Rank(S, R, s[i])
      <4> HIDE DEF s
      <4> QED BY <2>1, RankGrows
    <3> QED BY <2>1, <3>1
  <2> QED BY <2>1, <2>2, <2>3
<1> QED
  BY <1>1, <1>6, <1>7, <1>8, <1>9

-----------------------------------------------------------------------------
(* The prompt                                                              *)

\* What LexiconEntry::validate guarantees of an entry: texts that are not empty and
\* a priority and an id to sort by.
LEMMA EntryTypes ==
    ASSUME NEW e \in Pool
    PROVE  /\ e.canonical \in Seq(Chars) \ {<<>>} /\ e.variant \in Seq(Chars) \ {<<>>}
           /\ e.priority \in Nat /\ e.id \in Nat
           /\ EstimateTokens(e.canonical) \in Nat
<1>1. /\ e.canonical \in Seq(Chars) \ {<<>>} /\ e.variant \in Seq(Chars) \ {<<>>}
      /\ e.priority \in 0..100 /\ e.id \in Nat
  BY LexiconAssumption
<1>2. Len(e.canonical) \in Nat
  BY <1>1
<1>3. \A k \in Nat : (k + 1) \div 2 \in Nat
  OBVIOUS
<1>4. EstimateTokens(e.canonical) \in Nat
  BY <1>2, <1>3 DEF EstimateTokens
<1>5. e.priority \in Nat
  <2>1. e.priority \in 0..100
    BY <1>1
  <2> QED BY <2>1
<1> QED
  BY <1>1, <1>4, <1>5

\* The sum grows by the estimate of what is appended.
LEMMA TokenSumRecursion ==
    ASSUME NEW s \in Seq(Pool)
    PROVE  /\ TokenSum(s) \in [0..Len(s) -> Nat]
           /\ TokenSum(s)[0] = 0
           /\ \A i \in 1..Len(s) :
                TokenSum(s)[i] = TokenSum(s)[i - 1] + EstimateTokens(s[i].canonical)
<1> DEFINE n == Len(s)
           t == TokenSum(s)
           F == [i \in 1..n |-> [x \in Nat |-> x + EstimateTokens(s[i].canonical)]]
<1>1. n \in Nat /\ \A i \in 1..n : s[i] \in Pool /\ EstimateTokens(s[i].canonical) \in Nat
  BY EntryTypes
<1>2. F \in [1..n -> [Nat -> Nat]]
  BY <1>1
<1>3. PICK g : Computes(g, n, Nat, 0, F)
  <2>1. n \in Nat /\ 0 \in Nat
    BY <1>1
  <2> HIDE DEF F, n
  <2> QED BY <1>2, <2>1, RecursionExists
<1>4. g = [i \in 0..n |-> IF i = 0 THEN 0 ELSE g[i - 1] + EstimateTokens(s[i].canonical)]
  <2>1. ASSUME NEW i \in 1..n PROVE g[i] = g[i - 1] + EstimateTokens(s[i].canonical)
    <3>1. i - 1 \in 0..n
      BY <1>1
    <3>2. g[i - 1] \in Nat
      BY <1>3, <3>1 DEF Computes
    <3> QED BY <1>3, <3>2 DEF Computes
  <2> QED BY <1>3, <2>1 DEF Computes
<1>5. t = [i \in 0..n |-> IF i = 0 THEN 0 ELSE t[i - 1] + EstimateTokens(s[i].canonical)]
  BY <1>4 DEF TokenSum
<1> HIDE DEF t
<1>6. t[0] = 0 /\ \A i \in 1..n : t[i] = t[i - 1] + EstimateTokens(s[i].canonical)
  BY <1>1, <1>5
<1>7. \A i \in 0..n : i \in {k \in Nat : t[k] \in Nat}
  <2>1. ASSUME NEW i \in 0..n, t[i] \in Nat, i < n PROVE t[i + 1] \in Nat
    <3>1. i + 1 \in 1..n /\ (i + 1) - 1 = i
      BY <1>1, <2>1
    <3> QED BY <1>1, <1>6, <2>1, <3>1
  <2> DEFINE S == {k \in Nat : t[k] \in Nat}
  <2>2. S \in SUBSET Nat /\ 0 \in S
    BY <1>6
  <2>3. \A i \in 0..n : (i \in S /\ i < n) => i + 1 \in S
    BY <1>1, <2>1
  <2> HIDE DEF S
  <2> QED BY <1>1, <2>2, <2>3, BoundedInduction DEF S
<1>8. t \in [0..n -> Nat]
  BY <1>5, <1>7
<1> QED
  BY <1>6, <1>8 DEF t

\* estimated_tokens += estimate_tokens: the running sum is the sum of the terms.
LEMMA TokensOfAppend ==
    /\ Tokens(<<>>) = 0
    /\ \A s \in Seq(Pool), e \in Pool :
         Tokens(s) \in Nat /\ Tokens(Append(s, e)) = Tokens(s) + EstimateTokens(e.canonical)
<1>1. Tokens(<<>>) = 0
  <2>1. <<>> \in Seq(Pool) /\ Len(<<>>) = 0
    OBVIOUS
  <2> QED BY <2>1, TokenSumRecursion DEF Tokens
<1>2. ASSUME NEW s \in Seq(Pool), NEW e \in Pool
      PROVE  Tokens(s) \in Nat /\ Tokens(Append(s, e)) = Tokens(s) + EstimateTokens(e.canonical)
  <2> DEFINE n == Len(s)
             u == Append(s, e)
             S == {k \in Nat : TokenSum(u)[k] = TokenSum(s)[k]}
  <2>1. /\ n \in Nat /\ u \in Seq(Pool) /\ Len(u) = n + 1 /\ u[n + 1] = e
        /\ \A i \in 1..n : u[i] = s[i]
    OBVIOUS
  <2> HIDE DEF u
  <2>2. /\ TokenSum(s)[0] = 0
        /\ \A i \in 1..n : TokenSum(s)[i] = TokenSum(s)[i - 1] + EstimateTokens(s[i].canonical)
    BY TokenSumRecursion
  <2>3. /\ TokenSum(u)[0] = 0
        /\ \A i \in 1..(n + 1) :
             TokenSum(u)[i] = TokenSum(u)[i - 1] + EstimateTokens(u[i].canonical)
    BY <2>1, TokenSumRecursion
  <2>4. S \in SUBSET Nat /\ 0 \in S
    BY <2>2, <2>3
  <2>5. ASSUME NEW i \in 0..n, i \in S, i < n PROVE i + 1 \in S
    <3>1. i + 1 \in 1..n /\ i + 1 \in 1..(n + 1) /\ (i + 1) - 1 = i
      BY <2>1, <2>5
    <3>2. TokenSum(u)[i + 1] = TokenSum(u)[i] + EstimateTokens(s[i + 1].canonical)
      BY <2>1, <2>3, <3>1
    <3>3. TokenSum(s)[i + 1] = TokenSum(s)[i] + EstimateTokens(s[i + 1].canonical)
      BY <2>2, <3>1
    <3> QED BY <2>5, <3>2, <3>3
  <2>6. n \in S
    <3> HIDE DEF S
    <3>1. \A i \in 0..n : i \in S
      BY <2>1, <2>4, <2>5, BoundedInduction
    <3> QED BY <2>1, <3>1
  <2>7. TokenSum(u)[n + 1] = TokenSum(u)[n] + EstimateTokens(e.canonical)
    BY <2>1, <2>3
  <2>8. TokenSum(s)[n] \in Nat
    BY <2>1, TokenSumRecursion
  <2> QED BY <2>1, <2>6, <2>7, <2>8 DEF Tokens, u
<1> QED
  BY <1>1, <1>2

\* What has been chosen after the first i candidates: what is in fits, and what
\* is not would not fit.
ChosenWell(c, candidates, i) ==
    /\ c.terms \in Seq(Pool) /\ c.tokens \in Nat /\ c.tokens = Tokens(c.terms)
    /\ c = [terms |-> c.terms, tokens |-> c.tokens]
    /\ Len(c.terms) <= MaxPromptTerms /\ c.tokens <= MaxPromptTokens
    /\ \A j \in 1..Len(c.terms) : \E k \in 1..i : c.terms[j] = candidates[k]
    /\ \A k \in 1..i :
         \/ \E j \in 1..Len(c.terms) : c.terms[j] = candidates[k]
         \/ Len(c.terms) = MaxPromptTerms
         \/ c.tokens + EstimateTokens(candidates[k].canonical) > MaxPromptTokens

\* One candidate more: the loop of select_prompt_terms takes it exactly when both
\* limits allow it, and a candidate it passed over would still not fit.
LEMMA ConsiderIsRight ==
    ASSUME NEW candidates \in Seq(Pool), NEW i \in 1..Len(candidates), NEW c,
           ChosenWell(c, candidates, i - 1)
    PROVE  ChosenWell(Consider(c, candidates[i]), candidates, i)
<1> DEFINE e == candidates[i]
           d == Consider(c, e)
<1>1. i \in Nat /\ i - 1 \in Nat /\ 1..i = (1..(i - 1)) \cup {i}
  OBVIOUS
<1>2. e \in Pool /\ EstimateTokens(e.canonical) \in Nat
  BY EntryTypes
<1>3. MaxPromptTerms \in Nat /\ MaxPromptTokens \in Nat
  BY LexiconAssumption
<1> HIDE DEF e
<1>4. \A k \in 1..(i - 1) : /\ candidates[k] \in Pool
                            /\ EstimateTokens(candidates[k].canonical) \in Nat
  BY EntryTypes
<1>5. CASE Fits(c, e)
  <2> DEFINE t == Append(c.terms, e)
  <2>1. d = [terms |-> t, tokens |-> c.tokens + EstimateTokens(e.canonical)]
    BY <1>5 DEF Consider
  <2>2. t \in Seq(Pool) /\ Len(t) = Len(c.terms) + 1 /\ t[Len(t)] = e
        /\ \A j \in 1..Len(c.terms) : t[j] = c.terms[j]
    BY <1>2 DEF ChosenWell
  <2>3. Len(c.terms) \in Nat
    BY DEF ChosenWell
  <2>4. d.tokens = Tokens(t) /\ d.tokens \in Nat
    BY <1>2, <2>1, TokensOfAppend DEF ChosenWell
  <2>5. Len(t) <= MaxPromptTerms /\ d.tokens <= MaxPromptTokens
    BY <1>2, <1>3, <1>5, <2>1, <2>2, <2>3 DEF ChosenWell, Fits
  <2> HIDE DEF t, d
  <2>6. \A j \in 1..Len(t) : \E k \in 1..i : t[j] = candidates[k]
    <3> SUFFICES ASSUME NEW j \in 1..Len(t) PROVE \E k \in 1..i : t[j] = candidates[k]
      OBVIOUS
    <3>1. CASE j = Len(t)
      BY <3>1, <2>2 DEF e
    <3>2. CASE j # Len(t)
      <4>1. j \in 1..Len(c.terms)
        BY <2>2, <2>3, <3>2
      <4>2. PICK k \in 1..(i - 1) : c.terms[j] = candidates[k]
        BY <4>1 DEF ChosenWell
      <4> QED BY <1>1, <2>2, <4>1, <4>2
    <3> QED BY <3>1, <3>2
  <2>7. ASSUME NEW k \in 1..i
        PROVE  \/ \E j \in 1..Len(t) : t[j] = candidates[k]
               \/ Len(t) = MaxPromptTerms
               \/ d.tokens + EstimateTokens(candidates[k].canonical) > MaxPromptTokens
    <3>1. CASE k = i
      <4>1. Len(t) \in 1..Len(t) /\ t[Len(t)] = candidates[k]
        BY <2>2, <2>3, <3>1 DEF e
      <4> QED BY <4>1
    <3>2. CASE k # i
      <4>1. k \in 1..(i - 1)
        BY <3>2
      <4>2. CASE \E j \in 1..Len(c.terms) : c.terms[j] = candidates[k]
        <5>1. PICK j \in 1..Len(c.terms) : c.terms[j] = candidates[k]
          BY <4>2
        <5>2. j \in 1..Len(t) /\ t[j] = candidates[k]
          BY <2>2, <2>3, <5>1
        <5> QED BY <5>2
      <4>3. CASE Len(c.terms) = MaxPromptTerms
        BY <4>3, <1>5 DEF Fits
      <4>4. CASE c.tokens + EstimateTokens(candidates[k].canonical) > MaxPromptTokens
        <5>1. d.tokens = c.tokens + EstimateTokens(e.canonical) /\ c.tokens \in Nat
          BY <2>1 DEF ChosenWell
        <5> QED BY <1>2, <1>3, <1>4, <4>1, <4>4, <5>1
      <4> QED BY <4>1, <4>2, <4>3, <4>4 DEF ChosenWell
    <3> QED BY <3>1, <3>2
  <2>8. d.terms = t
    BY <2>1
  <2> QED BY <2>1, <2>2, <2>4, <2>5, <2>6, <2>7, <2>8 DEF ChosenWell, d, e
<1>6. CASE ~Fits(c, e)
  <2>1. d = c
    BY <1>6 DEF Consider
  <2>2. \A j \in 1..Len(c.terms) : \E k \in 1..i : c.terms[j] = candidates[k]
    BY <1>1 DEF ChosenWell
  <2>3. \/ Len(c.terms) = MaxPromptTerms
        \/ c.tokens + EstimateTokens(candidates[i].canonical) > MaxPromptTokens
    BY <1>2, <1>3, <1>6 DEF Fits, ChosenWell, e
  <2>4. \A k \in 1..i :
          \/ \E j \in 1..Len(c.terms) : c.terms[j] = candidates[k]
          \/ Len(c.terms) = MaxPromptTerms
          \/ c.tokens + EstimateTokens(candidates[k].canonical) > MaxPromptTokens
    BY <1>1, <2>3 DEF ChosenWell
  <2> QED BY <2>1, <2>2, <2>4 DEF ChosenWell, e
<1> QED
  BY <1>5, <1>6 DEF e

\* The whole loop of select_prompt_terms, from the step.
LEMMA ChosenIsRight ==
    ASSUME NEW candidates \in Seq(Pool)
    PROVE  ChosenWell(Chosen(candidates)[Len(candidates)], candidates, Len(candidates))
<1> DEFINE n == Len(candidates)
           A == [terms : Seq(Pool), tokens : Nat]
           a == [terms |-> <<>>, tokens |-> 0]
           t == Chosen(candidates)
           F == [i \in 1..n |-> [x \in A |-> Consider(x, candidates[i])]]
<1>1. /\ n \in Nat
      /\ \A i \in 1..n : /\ candidates[i] \in Pool
                        /\ EstimateTokens(candidates[i].canonical) \in Nat
  BY EntryTypes
<1>2. F \in [1..n -> [A -> A]]
  <2>1. ASSUME NEW i \in 1..n, NEW x \in A PROVE Consider(x, candidates[i]) \in A
    BY <1>1 DEF Consider
  <2> QED BY <2>1
<1>3. PICK g : Computes(g, n, A, a, F)
  <2>1. a \in A /\ n \in Nat
    OBVIOUS
  <2> HIDE DEF F, n, A, a
  <2> QED BY <1>2, <2>1, RecursionExists
<1>4. g = [i \in 0..n |-> IF i = 0 THEN a ELSE Consider(g[i - 1], candidates[i])]
  <2>1. ASSUME NEW i \in 1..n PROVE g[i] = Consider(g[i - 1], candidates[i])
    <3>1. i - 1 \in 0..n
      BY <1>1
    <3> HIDE DEF A
    <3>2. g[i - 1] \in A
      BY <1>3, <3>1 DEF Computes
    <3> QED BY <1>3, <3>2 DEF Computes
  <2> HIDE DEF F, A
  <2> QED BY <1>3, <2>1 DEF Computes
<1>5. t = [i \in 0..n |-> IF i = 0 THEN a ELSE Consider(t[i - 1], candidates[i])]
  BY <1>4 DEF Chosen
<1> HIDE DEF t
<1>6. t[0] = a /\ \A i \in 1..n : t[i] = Consider(t[i - 1], candidates[i])
  BY <1>1, <1>5
<1>7. ChosenWell(a, candidates, 0)
  BY TokensOfAppend, LexiconAssumption DEF ChosenWell
<1> DEFINE S == {k \in Nat : ChosenWell(t[k], candidates, k)}
<1>8. S \in SUBSET Nat /\ 0 \in S
  BY <1>6, <1>7
<1>9. ASSUME NEW i \in 0..n, i \in S, i < n PROVE i + 1 \in S
  <2>1. i + 1 \in 1..n /\ (i + 1) - 1 = i /\ i + 1 \in Nat
    BY <1>1, <1>9
  <2>2. ChosenWell(t[i], candidates, (i + 1) - 1)
    BY <1>9, <2>1
  <2>3. ChosenWell(Consider(t[i], candidates[i + 1]), candidates, i + 1)
    BY <2>1, <2>2, ConsiderIsRight
  <2>4. t[i + 1] = Consider(t[i], candidates[i + 1])
    BY <1>6, <2>1
  <2> QED BY <2>1, <2>3, <2>4
<1>10. \A i \in 0..n : i \in S
  <2> HIDE DEF S
  <2> QED BY <1>1, <1>8, <1>9, BoundedInduction
<1> QED
  BY <1>1, <1>10 DEF t

\* select_prompt_terms: within the limits, only enabled entries in scope, and none
\* left out that would fit.
LEMMA PromptIsRight ==
    ASSUME NEW all \in SUBSET Pool, IsFiniteSet(all), NEW profile
    PROVE  LET terms == SelectPromptTerms(all, profile)
               named == Range(terms)
           IN  /\ terms \in Seq(Pool)
               /\ Len(terms) <= MaxPromptTerms /\ Tokens(terms) <= MaxPromptTokens
               /\ \A e \in named : e \in all /\ e.enabled /\ AppliesTo(e, profile)
               /\ \A e \in {r \in all : r.enabled /\ AppliesTo(r, profile)} \ named :
                    \/ Len(terms) = MaxPromptTerms
                    \/ Tokens(terms) + EstimateTokens(e.canonical) > MaxPromptTokens
<1> DEFINE S == {e \in all : e.enabled /\ AppliesTo(e, profile)}
           R == PromptOrder(S)
           s == InOrder(S, R)
           c == Chosen(s)[Len(s)]
<1>1. S \in SUBSET Pool /\ IsFiniteSet(S)
  BY FS_Subset
<1>2. \A e \in S : e.priority \in Nat /\ e.id \in Nat
  BY <1>1, EntryTypes
<1>3. \A d, e \in S : d.id = e.id => d = e
  BY <1>1, LexiconAssumption
<1> HIDE DEF S
<1>4. StrictTotalOrder(S, R)
  <2>1. \A d, e \in S : <<d, e>> \in R <=>
          (d.priority > e.priority \/ (d.priority = e.priority /\ d.id < e.id))
    BY DEF PromptOrder
  <2> HIDE DEF R
  <2> QED BY <1>2, <1>3, <2>1 DEF StrictTotalOrder
<1> HIDE DEF R
<1>5. s \in Seq(S) /\ Len(s) = Cardinality(S) /\ \A e \in S : \E i \in 1..Cardinality(S) : s[i] = e
  BY <1>1, <1>4, InOrderSorts
<1> HIDE DEF s
<1>6. s \in Seq(Pool)
  BY <1>1, <1>5, SeqMonotonic
<1>7. ChosenWell(c, s, Len(s))
  BY <1>6, ChosenIsRight
<1>8. SelectPromptTerms(all, profile) = c.terms
  BY DEF SelectPromptTerms, s, R, S
<1> HIDE DEF c
<1>9. DOMAIN c.terms = 1..Len(c.terms) /\ Range(c.terms) = {c.terms[j] : j \in 1..Len(c.terms)}
  BY <1>7 DEF ChosenWell, Range
<1>10. \A e \in Range(c.terms) : e \in S
  BY <1>5, <1>7, <1>9 DEF ChosenWell
<1>11. \A e \in S \ Range(c.terms) :
         \/ Len(c.terms) = MaxPromptTerms
         \/ Tokens(c.terms) + EstimateTokens(e.canonical) > MaxPromptTokens
  <2> SUFFICES ASSUME NEW e \in S, e \notin Range(c.terms)
               PROVE  \/ Len(c.terms) = MaxPromptTerms
                      \/ Tokens(c.terms) + EstimateTokens(e.canonical) > MaxPromptTokens
    OBVIOUS
  <2>1. PICK i \in 1..Len(s) : s[i] = e
    BY <1>5
  <2> QED BY <1>7, <1>9, <2>1 DEF ChosenWell
<1> QED
  BY <1>7, <1>8, <1>10, <1>11 DEF ChosenWell, S

-----------------------------------------------------------------------------
(* Joining and folding                                                     *)

Flat(s) ==
    LET flatten[i \in 1..Len(s)] == IF i = 1 THEN s[i] ELSE flatten[i - 1] \o s[i]
    IN  flatten

\* The first m of the sequences f[1], f[2], ... one after the other.
Joined(f, m) == FlattenSeq([i \in 1..m |-> f[i]])

\* String concatenation in a loop: joining m texts is joining m - 1 and appending.
LEMMA JoinedRecursion ==
    ASSUME NEW C, NEW n \in Nat, NEW f \in [1..n -> Seq(C)]
    PROVE  /\ Joined(f, 0) = <<>>
           /\ \A m \in 0..n : Joined(f, m) \in Seq(C)
           /\ \A m \in 1..n : Joined(f, m) = Joined(f, m - 1) \o f[m]
<1> DEFINE A == Seq(C)
           F == [i \in 1..n |-> [x \in A |-> x \o f[i]]]
<1>1. F \in [1..n -> [A -> A]]
  OBVIOUS
<1>2. PICK g : Computes(g, n, A, <<>>, F)
  <2>1. <<>> \in A
    OBVIOUS
  <2> HIDE DEF A, F
  <2> QED BY <1>1, <2>1, RecursionExists
<1>3. g \in [0..n -> Seq(C)] /\ g[0] = <<>> /\ \A i \in 1..n : g[i] = g[i - 1] \o f[i]
  <2>1. g \in [0..n -> A] /\ g[0] = <<>>
    BY <1>2 DEF Computes
  <2>2. ASSUME NEW i \in 1..n PROVE g[i] = g[i - 1] \o f[i]
    <3>1. i - 1 \in 0..n
      OBVIOUS
    <3> HIDE DEF A
    <3>2. g[i - 1] \in A
      BY <2>1, <3>1
    <3> QED BY <1>2, <3>2 DEF Computes
  <2> QED BY <2>1, <2>2
<1> HIDE DEF A, F
<1>4. Joined(f, 0) = <<>>
  <2>1. [i \in 1..0 |-> f[i]] = <<>>
    OBVIOUS
  <2> QED BY <2>1 DEF Joined, FlattenSeq
<1>5. ASSUME NEW m \in 1..n PROVE Joined(f, m) = g[m]
  <2> DEFINE s == [i \in 1..m |-> f[i]]
             h == [i \in 1..m |-> g[i]]
             t == Flat(s)
  <2>1. Len(s) = m /\ m \in Nat /\ m # 0 /\ \A i \in 1..m : s[i] = f[i]
    OBVIOUS
  <2>2. g[1] = f[1]
    <3>1. 1 \in 1..n /\ 1 - 1 = 0 /\ f[1] \in Seq(C)
      OBVIOUS
    <3>2. g[1] = <<>> \o f[1]
      BY <1>3, <3>1
    <3> QED BY <3>1, <3>2, ConcatEmptySeq
  <2>3. h = [i \in 1..Len(s) |-> IF i = 1 THEN s[i] ELSE h[i - 1] \o s[i]]
    <3>1. ASSUME NEW i \in 1..m, i # 1 PROVE h[i] = h[i - 1] \o s[i]
      <4>1. i \in 1..n /\ i - 1 \in 1..m
        BY <3>1
      <4> QED BY <1>3, <4>1
    <3> QED BY <2>1, <2>2, <3>1
  <2> HIDE DEF s, h
  <2>4. t = [i \in 1..Len(s) |-> IF i = 1 THEN s[i] ELSE t[i - 1] \o s[i]]
    BY <2>3 DEF Flat
  <2>5. FlattenSeq(s) = t[m]
    BY <2>1 DEF FlattenSeq, Flat
  <2> HIDE DEF t
  <2> DEFINE S == {k \in Nat : k = 0 \/ t[k] = g[k]}
  <2>6. S \in SUBSET Nat /\ 0 \in S
    OBVIOUS
  <2>7. ASSUME NEW i \in 0..m, i \in S, i < m PROVE i + 1 \in S
    <3>1. i + 1 \in 1..m /\ i + 1 \in 1..n /\ (i + 1) - 1 = i /\ i + 1 \in Nat
      BY <2>7
    <3>2. CASE i = 0
      BY <2>1, <2>2, <2>4, <3>1, <3>2
    <3>3. CASE i # 0
      <4>1. t[i + 1] = t[i] \o f[i + 1]
        <5>1. t[i + 1] = t[(i + 1) - 1] \o s[i + 1]
          <6>1. i + 1 \in 1..Len(s) /\ i + 1 # 1
            BY <2>1, <3>1, <3>3
          <6> QED BY <2>4, <6>1, Zenon
        <5>2. s[i + 1] = f[i + 1]
          BY <2>1, <3>1
        <5> QED BY <3>1, <5>1, <5>2
      <4>2. g[i + 1] = g[i] \o f[i + 1]
        BY <1>3, <3>1
      <4> QED BY <2>7, <3>1, <3>3, <4>1, <4>2
    <3> QED BY <3>2, <3>3
  <2>8. m \in S
    <3> HIDE DEF S
    <3>1. \A i \in 0..m : i \in S
      BY <2>1, <2>6, <2>7, BoundedInduction
    <3> QED BY <2>1, <3>1
  <2> QED BY <2>1, <2>5, <2>8 DEF Joined, s
<1>6. \A m \in 0..n : Joined(f, m) = g[m]
  BY <1>3, <1>4, <1>5
<1>7. ASSUME NEW m \in 1..n PROVE Joined(f, m) = Joined(f, m - 1) \o f[m]
  <2>1. m \in 0..n /\ m - 1 \in 0..n
    OBVIOUS
  <2> QED BY <1>3, <1>6, <2>1
<1> QED
  BY <1>3, <1>4, <1>6, <1>7

\* push_str in pieces is push_str of the whole.
LEMMA TextsAssociative ==
    \A x, y, z \in Seq(Chars) : (x \o y) \o z = x \o (y \o z)
BY ConcatAssociative

\* default_case_fold_str works character by character.
LEMMA FoldTextOfAppend ==
    /\ FoldText(<<>>) = <<>>
    /\ \A t \in Seq(Chars) : FoldText(t) \in Seq(Chars)
    /\ \A t \in Seq(Chars), c \in Chars : FoldText(Append(t, c)) = FoldText(t) \o Fold[c]
<1>1. Fold \in [Chars -> Seq(Chars)]
  BY LexiconAssumption
<1>2. FoldText(<<>>) = <<>>
  <2>1. [i \in 1..0 |-> Fold[<<>>[i]]] = <<>> /\ Len(<<>>) = 0
    OBVIOUS
  <2> QED BY <2>1 DEF FoldText, FlattenSeq
<1>3. ASSUME NEW t \in Seq(Chars) PROVE FoldText(t) \in Seq(Chars)
  <2> DEFINE n == Len(t)
             f == [i \in 1..n |-> Fold[t[i]]]
  <2>1. n \in Nat /\ f \in [1..n -> Seq(Chars)] /\ [i \in 1..n |-> f[i]] = f
    BY <1>1
  <2>2. FoldText(t) = Joined(f, n)
    BY <2>1 DEF FoldText, Joined
  <2> HIDE DEF f, n
  <2>3. n \in 0..n
    BY <2>1
  <2> QED BY <2>1, <2>2, <2>3, JoinedRecursion
<1>4. ASSUME NEW t \in Seq(Chars), NEW c \in Chars
      PROVE  FoldText(Append(t, c)) = FoldText(t) \o Fold[c]
  <2> DEFINE n == Len(t)
             u == Append(t, c)
             f == [i \in 1..(n + 1) |-> Fold[u[i]]]
  <2>1. /\ n \in Nat /\ n + 1 \in Nat /\ u \in Seq(Chars) /\ Len(u) = n + 1 /\ u[n + 1] = c
        /\ \A i \in 1..n : u[i] = t[i]
    OBVIOUS
  <2> HIDE DEF n, u
  <2>2. f \in [1..(n + 1) -> Seq(Chars)]
    BY <1>1, <2>1
  <2>3. [i \in 1..(n + 1) |-> f[i]] = [i \in 1..Len(u) |-> Fold[u[i]]]
    BY <2>1
  <2>4. [i \in 1..n |-> f[i]] = [i \in 1..Len(t) |-> Fold[t[i]]]
    BY <2>1 DEF n
  <2>5. FoldText(u) = Joined(f, n + 1)
    BY <2>3 DEF FoldText, Joined
  <2>6. FoldText(t) = Joined(f, n)
    BY <2>4 DEF FoldText, Joined
  <2>7. n \in 0..(n + 1) /\ n + 1 \in 1..(n + 1) /\ (n + 1) - 1 = n /\ f[n + 1] = Fold[c]
    BY <2>1
  <2> HIDE DEF f
  <2>8. Joined(f, n) \in Seq(Chars) /\ Joined(f, n + 1) = Joined(f, n) \o f[n + 1]
    BY <2>1, <2>2, <2>7, JoinedRecursion
  <2> QED BY <2>5, <2>6, <2>7, <2>8 DEF u
<1> QED
  BY <1>2, <1>3, <1>4

\* A prefix as one character more than a shorter one.
LEMMA SubSeqGrows ==
    ASSUME NEW C, NEW s \in Seq(C), NEW a \in 0..Len(s), NEW b \in a..Len(s), b < Len(s)
    PROVE  /\ SubSeq(s, a + 1, b) \in Seq(C)
           /\ SubSeq(s, a + 1, b + 1) = Append(SubSeq(s, a + 1, b), s[b + 1])
           /\ s[b + 1] \in C
<1>1. b + 1 \in 1..Len(s) /\ Len(s) \in Nat /\ a \in Nat /\ b \in Nat
  OBVIOUS
<1>2. s[b + 1] \in C
  BY <1>1
<1>3. SubSeq(s, a + 1, b) \in Seq(C) /\ Len(SubSeq(s, a + 1, b)) = b - a
      /\ \A i \in 1..(b - a) : SubSeq(s, a + 1, b)[i] = s[a + i]
  BY <1>1, SubSeqProperties
<1>4. SubSeq(s, a + 1, b + 1) \in Seq(C) /\ Len(SubSeq(s, a + 1, b + 1)) = b - a + 1
      /\ \A i \in 1..(b - a + 1) : SubSeq(s, a + 1, b + 1)[i] = s[a + i]
  BY <1>1, SubSeqProperties
<1>5. Append(SubSeq(s, a + 1, b), s[b + 1]) \in Seq(C)
      /\ Len(Append(SubSeq(s, a + 1, b), s[b + 1])) = b - a + 1
      /\ \A i \in 1..(b - a + 1) : Append(SubSeq(s, a + 1, b), s[b + 1])[i] = s[a + i]
  BY <1>1, <1>2, <1>3
<1>6. SubSeq(s, a + 1, b + 1) = Append(SubSeq(s, a + 1, b), s[b + 1])
  BY <1>4, <1>5, SeqEqual
<1> QED
  BY <1>2, <1>3, <1>6

\* Folding a text is folding its parts.
LEMMA FoldTextSplits ==
    ASSUME NEW raw \in Seq(Chars), NEW a \in 0..Len(raw), NEW b \in a..Len(raw)
    PROVE  FoldText(SubSeq(raw, 1, b)) =
             FoldText(SubSeq(raw, 1, a)) \o FoldText(SubSeq(raw, a + 1, b))
<1> DEFINE Pre(m) == FoldText(SubSeq(raw, 1, m))
           Part(m) == FoldText(SubSeq(raw, a + 1, m))
           S == {d \in Nat : Pre(a + d) = Pre(a) \o Part(a + d)}
<1>1. Len(raw) \in Nat /\ a \in Nat /\ b \in Nat /\ b - a \in Nat
  OBVIOUS
<1>2. 0 \in S
  <2>1. SubSeq(raw, a + 1, a) = <<>>
    BY <1>1, SubSeqEmpty
  <2>2. SubSeq(raw, 1, a) \in Seq(Chars)
    BY <1>1, SubSeqProperties
  <2>3. Pre(a) \in Seq(Chars)
    BY <2>2, FoldTextOfAppend
  <2>4. Pre(a) = Pre(a) \o <<>>
    BY <2>3, ConcatEmptySeq
  <2>5. a + 0 = a
    BY <1>1
  <2> QED BY <2>1, <2>4, <2>5, FoldTextOfAppend
<1>3. ASSUME NEW d \in 0..(b - a), d \in S, d < b - a PROVE d + 1 \in S
  <2> DEFINE m == a + d
             c == raw[m + 1]
  <2>1. /\ m \in a..Len(raw) /\ m \in 0..Len(raw) /\ m < Len(raw)
        /\ 0 \in 0..Len(raw) /\ a + (d + 1) = m + 1
        /\ d + 1 \in Nat /\ 0 + 1 = 1
    BY <1>1, <1>3
  <2>2. /\ SubSeq(raw, a + 1, m) \in Seq(Chars) /\ c \in Chars
        /\ SubSeq(raw, a + 1, m + 1) = Append(SubSeq(raw, a + 1, m), c)
    BY <2>1, SubSeqGrows
  <2>3. /\ SubSeq(raw, 0 + 1, m) \in Seq(Chars)
        /\ SubSeq(raw, 0 + 1, m + 1) = Append(SubSeq(raw, 0 + 1, m), c)
    BY <2>1, SubSeqGrows
  <2>4. SubSeq(raw, 1, a) \in Seq(Chars)
    BY <1>1, SubSeqProperties
  <2> HIDE DEF m, c
  <2>5. /\ Pre(a) \in Seq(Chars) /\ Part(m) \in Seq(Chars)
        /\ Pre(m + 1) = Pre(m) \o Fold[c] /\ Part(m + 1) = Part(m) \o Fold[c]
    BY <2>1, <2>2, <2>3, <2>4, FoldTextOfAppend
  <2>6. Fold[c] \in Seq(Chars)
    BY <2>2, LexiconAssumption
  <2>7. Pre(m) = Pre(a) \o Part(m)
    BY <1>3 DEF m
  <2> HIDE DEF Pre, Part
  <2>8. Pre(m + 1) = Pre(a) \o Part(m + 1)
    <3>1. (Pre(a) \o Part(m)) \o Fold[c] = Pre(a) \o (Part(m) \o Fold[c])
      <4>1. Pre(a) \in Seq(Chars) /\ Part(m) \in Seq(Chars) /\ Fold[c] \in Seq(Chars)
        BY <2>5, <2>6
      <4> QED BY <4>1, TextsAssociative, Zenon
    <3> QED BY <2>5, <2>7, <3>1, Zenon
  <2>9. Pre(a + (d + 1)) = Pre(a) \o Part(a + (d + 1))
    BY <2>1, <2>8, Zenon
  <2> QED BY <2>1, <2>9, Zenon
<1>4. b - a \in S
  <2>1. S \in SUBSET Nat
    OBVIOUS
  <2> HIDE DEF S
  <2>2. \A d \in 0..(b - a) : d \in S
    BY <1>1, <1>2, <1>3, <2>1, BoundedInduction
  <2> QED BY <1>1, <2>2
<1>5. a + (b - a) = b
  BY <1>1
<1> QED
  BY <1>4, <1>5

-----------------------------------------------------------------------------
(* Matches and candidates                                                  *)

IsMatch(text, needle, p) ==
    /\ p \in 0..Len(text) /\ p + Len(needle) <= Len(text)
    /\ SubSeq(text, p + 1, p + Len(needle)) = needle

\* What match_indices finds is there.
LEMMA MatchesAreThere ==
    ASSUME NEW text \in Seq(Chars), NEW needle \in Seq(Chars)
    PROVE  \A p \in MatchIndices(text, needle) : IsMatch(text, needle, p)
<1> DEFINE n == Len(text)
           k == Len(needle)
           M == {p \in 0..n : IsMatch(text, needle, p)}
           A == [free : Nat, found : SUBSET M]
           a == [free |-> 0, found |-> {}]
           Step(x, i) ==
               IF x.free <= i - 1 /\ i - 1 + k <= n /\ SubSeq(text, i, i - 1 + k) = needle
               THEN [free |-> i - 1 + k, found |-> x.found \cup {i - 1}]
               ELSE x
           F == [i \in 1..n |-> [x \in A |-> Step(x, i)]]
           t == Scan(text, needle)
<1>1. n \in Nat /\ k \in Nat
  OBVIOUS
<1>2. ASSUME NEW i \in 1..n, NEW x \in A PROVE Step(x, i) \in A
  <2>1. i - 1 \in 0..n /\ (i - 1) + 1 = i /\ i - 1 + k \in Nat
    BY <1>1
  <2>2. CASE x.free <= i - 1 /\ i - 1 + k <= n /\ SubSeq(text, i, i - 1 + k) = needle
    <3>1. i - 1 \in M
      BY <2>1, <2>2 DEF IsMatch
    <3> HIDE DEF M
    <3> QED BY <2>1, <2>2, <3>1
  <2>3. CASE ~(x.free <= i - 1 /\ i - 1 + k <= n /\ SubSeq(text, i, i - 1 + k) = needle)
    BY <2>3
  <2> QED BY <2>2, <2>3
<1>3. F \in [1..n -> [A -> A]]
  <2> HIDE DEF A, Step
  <2> QED BY <1>2
<1>4. PICK g : Computes(g, n, A, a, F)
  <2>1. a \in A
    OBVIOUS
  <2> HIDE DEF A, F, a, n
  <2> QED BY <1>1, <1>3, <2>1, RecursionExists
<1>5. g \in [0..n -> A] /\ g[0] = a /\ \A i \in 1..n : g[i] = Step(g[i - 1], i)
  <2> HIDE DEF A, Step, a
  <2>1. g \in [0..n -> A] /\ g[0] = a
    BY <1>4 DEF Computes
  <2>2. ASSUME NEW i \in 1..n PROVE g[i] = Step(g[i - 1], i)
    <3>1. i - 1 \in 0..n
      BY <1>1
    <3>2. g[i - 1] \in A
      BY <2>1, <3>1
    <3> QED BY <1>4, <3>2 DEF Computes
  <2> QED BY <2>1, <2>2
<1>6. g = [i \in 0..n |-> IF i = 0 THEN a ELSE Step(g[i - 1], i)]
  <2> HIDE DEF A, Step, a
  <2> QED BY <1>1, <1>5
<1>7. t = [i \in 0..n |-> IF i = 0 THEN a ELSE Step(t[i - 1], i)]
  BY <1>6 DEF Scan
<1> HIDE DEF t, A, Step, a, F
<1>8. t[0] = a /\ \A i \in 1..n : t[i] = Step(t[i - 1], i)
  BY <1>1, <1>7
<1> DEFINE S == {i \in Nat : t[i] \in A}
<1>9. S \in SUBSET Nat /\ 0 \in S
  BY <1>8 DEF a, A
<1>10. ASSUME NEW i \in 0..n, i \in S, i < n PROVE i + 1 \in S
  <2>1. i + 1 \in 1..n /\ (i + 1) - 1 = i /\ i + 1 \in Nat
    BY <1>1, <1>10
  <2>2. t[i + 1] = Step(t[i], i + 1)
    BY <1>8, <2>1
  <2> QED BY <1>2, <1>10, <2>1, <2>2
<1>11. t[n] \in A
  <2>1. \A i \in 0..n : i \in S
    <3> HIDE DEF S
    <3> QED BY <1>1, <1>9, <1>10, BoundedInduction
  <2> QED BY <1>1, <2>1
<1>12. t[n].found \in SUBSET M
  <2> HIDE DEF M
  <2> QED BY <1>11 DEF A
<1> QED
  BY <1>12 DEF MatchIndices, t

\* A variant that is not empty has a key that is not empty, so a match has a length.
LEMMA FoldNotEmpty ==
    ASSUME NEW v \in Seq(Chars), v # <<>>
    PROVE  FoldText(v) \in Seq(Chars) /\ Len(FoldText(v)) > 0
<1>1. PICK s \in Seq(Chars), c \in Chars : v = Append(s, c)
  BY SequenceEmptyOrAppend
<1>2. /\ FoldText(v) = FoldText(s) \o Fold[c]
      /\ FoldText(s) \in Seq(Chars) /\ FoldText(v) \in Seq(Chars)
  BY <1>1, FoldTextOfAppend
<1>3. Fold[c] \in Seq(Chars) /\ Len(Fold[c]) > 0
  <2>1. Fold[c] \in Seq(Chars) /\ Fold[c] # <<>>
    BY LexiconAssumption
  <2> QED BY <2>1, EmptySeq
<1>4. Len(FoldText(s) \o Fold[c]) = Len(FoldText(s)) + Len(Fold[c]) /\ Len(FoldText(s)) \in Nat
  BY <1>2, <1>3
<1> QED
  BY <1>2, <1>3, <1>4

\* The second text of a concatenation is found behind the first.
LEMMA ConcatRight ==
    ASSUME NEW C, NEW x \in Seq(C), NEW y \in Seq(C), NEW i \in 1..Len(y)
    PROVE  (x \o y)[Len(x) + i] = y[i]
OBVIOUS

\* FoldedText::find_all: the raw text of a match folds to the key.
LEMMA FoundTextFolds ==
    ASSUME NEW raw \in Seq(Chars), NEW key \in Seq(Chars), Len(key) > 0,
           NEW r \in FindAll(raw, key)
    PROVE  /\ r[1] \in 0..Len(raw) /\ r[2] \in 0..Len(raw) /\ r[1] < r[2]
           /\ FoldText(SubSeq(raw, r[1] + 1, r[2])) = key
<1> DEFINE folded == FoldText(raw)
           k == Len(key)
           a == r[1]
           b == r[2]
<1>1. a \in 0..Len(raw) /\ b \in 0..Len(raw)
  BY DEF FindAll
<1>2. PICK p \in MatchIndices(folded, key) :
        FoldedOffset(raw, a) = p /\ FoldedOffset(raw, b) = p + k
  BY DEF FindAll
<1>3. folded \in Seq(Chars)
  BY FoldTextOfAppend
<1>4. /\ p \in Nat /\ k \in Nat /\ p + k <= Len(folded)
      /\ SubSeq(folded, p + 1, p + k) = key
  BY <1>2, <1>3, MatchesAreThere DEF IsMatch
<1> DEFINE A == FoldText(SubSeq(raw, 1, a))
           B == FoldText(SubSeq(raw, 1, b))
           D == FoldText(SubSeq(raw, a + 1, b))
           E == FoldText(SubSeq(raw, b + 1, Len(raw)))
<1>5. Len(raw) \in Nat /\ a \in Nat /\ b \in Nat
  BY <1>1
<1>6. /\ SubSeq(raw, 1, a) \in Seq(Chars) /\ SubSeq(raw, 1, b) \in Seq(Chars)
      /\ SubSeq(raw, a + 1, b) \in Seq(Chars) /\ SubSeq(raw, b + 1, Len(raw)) \in Seq(Chars)
      /\ SubSeq(raw, b + 1, a) \in Seq(Chars)
  BY <1>1, <1>5, SubSeqProperties
<1>7. A \in Seq(Chars) /\ B \in Seq(Chars) /\ D \in Seq(Chars) /\ E \in Seq(Chars)
      /\ FoldText(SubSeq(raw, b + 1, a)) \in Seq(Chars)
  BY <1>6, FoldTextOfAppend
<1>8. Len(A) = p /\ Len(B) = p + k
  BY <1>2 DEF FoldedOffset
<1>9. a < b
  <2> SUFFICES ASSUME b <= a PROVE FALSE
    BY <1>5
  <2>1. b \in 0..Len(raw) /\ a \in b..Len(raw)
    BY <1>1, <1>5
  <2>2. A = B \o FoldText(SubSeq(raw, b + 1, a))
    BY <2>1, FoldTextSplits
  <2> HIDE DEF A, B
  <2>3. Len(A) = Len(B) + Len(FoldText(SubSeq(raw, b + 1, a)))
        /\ Len(FoldText(SubSeq(raw, b + 1, a))) \in Nat
    BY <1>7, <2>2
  <2> QED BY <1>4, <1>8, <2>3
<1>10. B = A \o D
  <2>1. a \in 0..Len(raw) /\ b \in a..Len(raw)
    BY <1>1, <1>5, <1>9
  <2> QED BY <2>1, FoldTextSplits
<1>11. folded = B \o E
  <2>1. b \in 0..Len(raw) /\ Len(raw) \in b..Len(raw)
    BY <1>1, <1>5
  <2>2. SubSeq(raw, 1, Len(raw)) = raw
    BY SubSeqFull
  <2>3. FoldText(SubSeq(raw, 1, Len(raw))) = B \o E
    BY <2>1, FoldTextSplits
  <2> QED BY <2>2, <2>3
<1> HIDE DEF A, B, D, E, folded, k
<1>12. Len(D) = k
  <2>1. Len(B) = Len(A) + Len(D) /\ Len(D) \in Nat
    BY <1>7, <1>10
  <2> QED BY <1>4, <1>8, <2>1
<1>13. key \in Seq(Chars) /\ Len(key) = k /\ \A i \in 1..k : key[i] = folded[p + i]
  <2>1. \A i \in (p + 1)..(p + k) : folded[i] \in Chars
    BY <1>3, <1>4
  <2>2. \A i \in 1..k : SubSeq(folded, p + 1, p + k)[i] = folded[p + i]
    BY <1>4, <2>1, SubSeqProperties
  <2> QED BY <1>4, <2>2 DEF k
<1>14. \A i \in 1..k : folded[p + i] = D[i]
  <2> SUFFICES ASSUME NEW i \in 1..k PROVE folded[p + i] = D[i]
    OBVIOUS
  <2>1. p + i \in 1..Len(B) /\ p + i > Len(A) /\ p + i - Len(A) = i
        /\ p + i \in 1..(Len(A) + Len(D)) /\ ~(p + i <= Len(A))
    BY <1>4, <1>8, <1>12
  <2>2. B[p + i] = D[i]
    <3>1. i \in 1..Len(D)
      BY <1>12
    <3>2. (A \o D)[Len(A) + i] = D[i]
      BY <1>7, <3>1, ConcatRight
    <3> QED BY <1>8, <1>10, <3>2, Zenon
  <2>3. p + i \in 1..(Len(B) + Len(E)) /\ p + i <= Len(B)
    <3>1. Len(E) \in Nat /\ Len(B) \in Nat
      BY <1>7
    <3> QED BY <2>1, <3>1
  <2>4. folded[p + i] = B[p + i]
    BY <1>7, <1>11, <2>3, ConcatProperties
  <2> QED BY <2>2, <2>4
<1>15. D = key
  <2>1. \A i \in 1..Len(D) : D[i] = key[i]
    BY <1>12, <1>13, <1>14
  <2> QED BY <1>7, <1>12, <1>13, <2>1, SeqEqual
<1> QED
  BY <1>1, <1>9, <1>15 DEF D

\* A candidate: whole words of raw that are the variant of its entry.
IsCandidate(c, raw) ==
    /\ c.start \in 0..Len(raw) /\ c.end \in 0..Len(raw) /\ c.start < c.end
    /\ c.start \in Boundaries(raw) /\ c.end \in Boundaries(raw)
    /\ IF c.entry.mode = "sensitive" THEN SubSeq(raw, c.start + 1, c.end) = c.entry.variant
       ELSE FoldText(SubSeq(raw, c.start + 1, c.end)) = FoldText(c.entry.variant)
    /\ c = [start |-> c.start, end |-> c.end, entry |-> c.entry]

\* find_candidates: every match of a rule begins and ends at a word boundary, and
\* its text is the variant of that rule.
LEMMA CandidatesAreRight ==
    ASSUME NEW raw \in Seq(Chars), NEW e \in Pool
    PROVE  /\ IsFiniteSet(Candidates(raw, e))
           /\ \A c \in Candidates(raw, e) : IsCandidate(c, raw) /\ c.entry = e
<1> DEFINE n == Len(e.variant)
           locations == IF e.mode = "sensitive"
                        THEN {<<p, p + n>> : p \in MatchIndices(raw, e.variant)}
                        ELSE FindAll(raw, FoldText(e.variant))
           L == {l \in locations : l[1] \in Boundaries(raw) /\ l[2] \in Boundaries(raw)}
<1>1. e.variant \in Seq(Chars) /\ e.variant # <<>> /\ n \in Nat /\ n > 0
  BY EntryTypes, EmptySeq
<1>2. Candidates(raw, e) = {[start |-> r[1], end |-> r[2], entry |-> e] : r \in L}
  BY DEF Candidates
<1>3. ASSUME NEW r \in locations
      PROVE  /\ r \in (0..Len(raw)) \X (0..Len(raw)) /\ r[1] < r[2]
             /\ IF e.mode = "sensitive" THEN SubSeq(raw, r[1] + 1, r[2]) = e.variant
                ELSE FoldText(SubSeq(raw, r[1] + 1, r[2])) = FoldText(e.variant)
  <2>1. CASE e.mode = "sensitive"
    <3>1. PICK p \in MatchIndices(raw, e.variant) : r = <<p, p + n>>
      BY <2>1
    <3>2. IsMatch(raw, e.variant, p)
      BY <1>1, MatchesAreThere
    <3>3. p \in 0..Len(raw) /\ p + n \in 0..Len(raw) /\ p < p + n
      BY <1>1, <3>2 DEF IsMatch
    <3>4. SubSeq(raw, p + 1, p + n) = e.variant
      BY <3>2 DEF IsMatch
    <3> QED BY <2>1, <3>1, <3>3, <3>4
  <2>2. CASE e.mode # "sensitive"
    <3>1. r \in FindAll(raw, FoldText(e.variant))
      BY <2>2
    <3>2. FoldText(e.variant) \in Seq(Chars) /\ Len(FoldText(e.variant)) > 0
      BY <1>1, FoldNotEmpty
    <3>3. r \in (0..Len(raw)) \X (0..Len(raw))
      BY <3>1 DEF FindAll
    <3> QED BY <2>2, <3>1, <3>2, <3>3, FoundTextFolds
  <2> QED BY <2>1, <2>2
<1> HIDE DEF locations
<1>4. IsFiniteSet(L)
  <2>1. IsFiniteSet(0..Len(raw))
    BY FS_Interval
  <2>2. IsFiniteSet((0..Len(raw)) \X (0..Len(raw)))
    BY <2>1, FS_Product
  <2>3. L \in SUBSET ((0..Len(raw)) \X (0..Len(raw)))
    BY <1>3
  <2> HIDE DEF L
  <2> QED BY <2>2, <2>3, FS_Subset
<1>5. IsFiniteSet(Candidates(raw, e))
  <2> DEFINE g == [r \in L |-> [start |-> r[1], end |-> r[2], entry |-> e]]
  <2> HIDE DEF L
  <2>1. g \in Surjection(L, Candidates(raw, e))
    BY <1>2 DEF Surjection
  <2> HIDE DEF g
  <2> QED BY <1>4, <2>1, FS_Surjection
<1>6. ASSUME NEW c \in Candidates(raw, e) PROVE IsCandidate(c, raw) /\ c.entry = e
  <2>1. PICK r \in L : c = [start |-> r[1], end |-> r[2], entry |-> e]
    BY <1>2
  <2>2. r \in locations /\ r[1] \in Boundaries(raw) /\ r[2] \in Boundaries(raw)
    OBVIOUS
  <2>3. c.start = r[1] /\ c.end = r[2] /\ c.entry = e
    BY <2>1
  <2> QED BY <1>3, <2>1, <2>2, <2>3 DEF IsCandidate
<1> QED
  BY <1>5, <1>6

-----------------------------------------------------------------------------
(* The selected corrections                                                *)

All(raw, rules) == UNION {Candidates(raw, e) : e \in {r \in rules : r.enabled /\ raw # <<>>}}

\* The candidates of apply_corrections come from the enabled rules, finitely many.
LEMMA AllAreCandidates ==
    ASSUME NEW raw \in Seq(Chars), NEW rules \in SUBSET Pool, IsFiniteSet(rules)
    PROVE  /\ IsFiniteSet(All(raw, rules))
           /\ \A c \in All(raw, rules) : IsCandidate(c, raw) /\ c.entry \in rules /\ c.entry.enabled
<1> DEFINE T == {r \in rules : r.enabled /\ raw # <<>>}
           sets == {Candidates(raw, e) : e \in T}
<1>1. T \in SUBSET rules /\ \A e \in T : e \in Pool /\ e.enabled
  OBVIOUS
<1> HIDE DEF T
<1>2. IsFiniteSet(sets)
  <2> DEFINE g == [e \in T |-> Candidates(raw, e)]
  <2>1. IsFiniteSet(T)
    BY <1>1, FS_Subset
  <2>2. g \in Surjection(T, sets)
    BY DEF Surjection
  <2> HIDE DEF g, sets
  <2> QED BY <2>1, <2>2, FS_Surjection
<1>3. \A s \in sets : IsFiniteSet(s)
  BY <1>1, CandidatesAreRight
<1>4. All(raw, rules) = UNION sets
  BY DEF All, T
<1>5. IsFiniteSet(UNION sets)
  <2> HIDE DEF sets
  <2> QED BY <1>2, <1>3, FS_UNION
<1>6. ASSUME NEW c \in UNION sets
      PROVE  IsCandidate(c, raw) /\ c.entry \in rules /\ c.entry.enabled
  <2>1. PICK e \in T : c \in Candidates(raw, e)
    OBVIOUS
  <2> QED BY <1>1, <2>1, CandidatesAreRight
<1> QED
  BY <1>4, <1>5, <1>6

\* The sort_by of apply_corrections (start, priority, end, and the id for the rest)
\* distinguishes any two candidates: ids are unique and a rule has one variant.
LEMMA CandidateOrderIsTotal ==
    ASSUME NEW raw, NEW all, \A c \in all : IsCandidate(c, raw) /\ c.entry \in Pool
    PROVE  StrictTotalOrder(all, CandidateOrder(all))
<1>1. \A c \in all : /\ c.start \in Int /\ c.end \in Int
                     /\ c.entry.priority \in Int /\ c.entry.id \in Int
  <2> SUFFICES ASSUME NEW c \in all
               PROVE  /\ c.start \in Int /\ c.end \in Int
                      /\ c.entry.priority \in Int /\ c.entry.id \in Int
    OBVIOUS
  <2>1. c.start \in Int /\ c.end \in Int
    BY DEF IsCandidate
  <2>2. c.entry.priority \in Nat /\ c.entry.id \in Nat
    BY EntryTypes
  <2> QED BY <2>1, <2>2
<1>2. \A c, d \in all : c.start = d.start /\ c.end = d.end /\ c.entry.id = d.entry.id => c = d
  <2> SUFFICES ASSUME NEW c \in all, NEW d \in all,
                      c.start = d.start, c.end = d.end, c.entry.id = d.entry.id
               PROVE  c = d
    OBVIOUS
  <2>1. c.entry = d.entry
    BY LexiconAssumption
  <2>2. c = [start |-> c.start, end |-> c.end, entry |-> c.entry]
        /\ d = [start |-> d.start, end |-> d.end, entry |-> d.entry]
    BY DEF IsCandidate
  <2> QED BY <2>1, <2>2
<1> DEFINE R == CandidateOrder(all)
<1>3. \A c, d \in all : <<c, d>> \in R <=>
        \/ c.start < d.start
        \/ /\ c.start = d.start
           /\ \/ c.entry.priority > d.entry.priority
              \/ /\ c.entry.priority = d.entry.priority
                 /\ c.end > d.end \/ (c.end = d.end /\ c.entry.id < d.entry.id)
  BY DEF CandidateOrder
<1> HIDE DEF R
<1>4. \A d \in all : <<d, d>> \notin R
  BY <1>1, <1>3
<1>5. \A d, e \in all : d = e \/ <<d, e>> \in R \/ <<e, d>> \in R
  <2> SUFFICES ASSUME NEW d \in all, NEW e \in all
               PROVE  d = e \/ <<d, e>> \in R \/ <<e, d>> \in R
    OBVIOUS
  <2>1. CASE d.start # e.start
    BY <1>1, <1>3, <2>1
  <2>2. CASE d.start = e.start /\ d.entry.priority # e.entry.priority
    BY <1>1, <1>3, <2>2
  <2>3. CASE d.start = e.start /\ d.entry.priority = e.entry.priority /\ d.end # e.end
    BY <1>1, <1>3, <2>3
  <2>4. CASE /\ d.start = e.start /\ d.entry.priority = e.entry.priority /\ d.end = e.end
             /\ d.entry.id # e.entry.id
    BY <1>1, <1>3, <2>4
  <2>5. CASE d.start = e.start /\ d.end = e.end /\ d.entry.id = e.entry.id
    BY <1>2, <2>5
  <2> QED BY <2>1, <2>2, <2>3, <2>4, <2>5
<1>6. \A c, d, e \in all : <<c, d>> \in R /\ <<d, e>> \in R => <<c, e>> \in R
  <2> SUFFICES ASSUME NEW c \in all, NEW d \in all, NEW e \in all,
                      <<c, d>> \in R, <<d, e>> \in R
               PROVE  <<c, e>> \in R
    OBVIOUS
  <2>1. CASE c.start < d.start \/ d.start < e.start
    BY <1>1, <1>3, <2>1
  <2>2. CASE c.start = d.start /\ d.start = e.start
    BY <1>1, <1>3, <2>2
  <2> QED BY <1>1, <1>3, <2>1, <2>2
<1>7. StrictTotalOrder(all, R)
  BY <1>4, <1>5, <1>6 DEF StrictTotalOrder
<1> QED
  BY <1>7 DEF R

\* Ranges of raw in their order, one after the other.
ValidList(list, raw) ==
    /\ \A i \in 1..Len(list) :
         /\ list[i].start \in 0..Len(raw) /\ list[i].end \in 0..Len(raw)
         /\ list[i].start < list[i].end /\ list[i].entry \in Pool
    /\ \A i, j \in 1..Len(list) : i < j => list[i].end <= list[j].start

ChosenSoFar(x, all, raw) ==
    /\ x.list \in Seq(all) /\ x.free \in Nat
    /\ \A i \in 1..Len(x.list) : x.list[i].end <= x.free
    /\ ValidList(x.list, raw)

\* A candidate that begins behind the cursor does not overlap what is chosen.
LEMMA NextIsValid ==
    ASSUME NEW raw \in Seq(Chars), NEW all, NEW x, ChosenSoFar(x, all, raw),
           NEW c \in all, IsCandidate(c, raw), c.entry \in Pool, ~(c.start < x.free)
    PROVE  ChosenSoFar([free |-> c.end, list |-> Append(x.list, c)], all, raw)
<1> DEFINE u == Append(x.list, c)
           n == Len(x.list)
<1>1. /\ u \in Seq(all) /\ Len(u) = n + 1 /\ n \in Nat /\ u[n + 1] = c
      /\ \A i \in 1..n : u[i] = x.list[i]
  BY DEF ChosenSoFar
<1> HIDE DEF u
<1>2. /\ c.start \in 0..Len(raw) /\ c.end \in 0..Len(raw) /\ c.start < c.end
      /\ c.start \in Nat /\ c.end \in Nat
  BY DEF IsCandidate
<1>3. \A i \in 1..n : /\ x.list[i].start \in 0..Len(raw) /\ x.list[i].end \in 0..Len(raw)
                      /\ x.list[i].start < x.list[i].end /\ x.list[i].entry \in Pool
                      /\ x.list[i].end <= x.free
  BY DEF ChosenSoFar, ValidList
<1>4. x.free \in Nat /\ x.free <= c.start
  BY <1>2 DEF ChosenSoFar
<1>5. \A i \in 1..(n + 1) : i \in 1..n \/ i = n + 1
  BY <1>1
<1>6. \A i \in 1..Len(u) :
         /\ u[i].start \in 0..Len(raw) /\ u[i].end \in 0..Len(raw)
         /\ u[i].start < u[i].end /\ u[i].entry \in Pool
  <2> SUFFICES ASSUME NEW i \in 1..Len(u)
               PROVE  /\ u[i].start \in 0..Len(raw) /\ u[i].end \in 0..Len(raw)
                      /\ u[i].start < u[i].end /\ u[i].entry \in Pool
    OBVIOUS
  <2>1. CASE i \in 1..n
    BY <1>1, <1>3, <2>1
  <2>2. CASE i = n + 1
    BY <1>1, <1>2, <2>2
  <2> QED BY <1>1, <1>5, <2>1, <2>2
<1>7. \A i \in 1..n : u[i].end <= c.start /\ u[i].end <= c.end
  <2> SUFFICES ASSUME NEW i \in 1..n PROVE u[i].end <= c.start /\ u[i].end <= c.end
    OBVIOUS
  <2>1. u[i].end = x.list[i].end /\ x.list[i].end \in 0..Len(raw) /\ x.list[i].end <= x.free
    BY <1>1, <1>3
  <2> QED BY <1>2, <1>4, <2>1
<1>8. \A i, j \in 1..Len(u) : i < j => u[i].end <= u[j].start
  <2> SUFFICES ASSUME NEW i \in 1..Len(u), NEW j \in 1..Len(u), i < j PROVE u[i].end <= u[j].start
    OBVIOUS
  <2>1. i \in 1..n
    BY <1>1
  <2>2. CASE j \in 1..n
    BY <1>1, <2>1, <2>2 DEF ChosenSoFar, ValidList
  <2>3. CASE j = n + 1
    BY <1>1, <1>7, <2>1, <2>3
  <2> QED BY <1>1, <1>5, <2>2, <2>3
<1>9. \A i \in 1..Len(u) : u[i].end <= c.end
  BY <1>1, <1>2, <1>5, <1>7
<1> DEFINE y == [free |-> c.end, list |-> u]
<1>10. y.free = c.end /\ y.list = u
  OBVIOUS
<1> HIDE DEF y
<1>11. ChosenSoFar(y, all, raw)
  BY <1>1, <1>2, <1>6, <1>8, <1>9, <1>10 DEF ChosenSoFar, ValidList
<1> QED
  BY <1>11 DEF y, u

\* The overlap loop of apply_corrections, from the step.
LEMMA OverlapsAreLeftOut ==
    ASSUME NEW raw \in Seq(Chars), NEW all, NEW s \in Seq(all),
           \A c \in all : IsCandidate(c, raw) /\ c.entry \in Pool
    PROVE  ChosenSoFar(WithoutOverlaps(s)[Len(s)], all, raw)
<1> DEFINE n == Len(s)
           A == {x \in [free : Nat, list : Seq(all)] : ChosenSoFar(x, all, raw)}
           a == [free |-> 0, list |-> <<>>]
           Step(x, i) ==
               IF s[i].start < x.free THEN x
               ELSE [free |-> s[i].end, list |-> Append(x.list, s[i])]
           F == [i \in 1..n |-> [x \in A |-> Step(x, i)]]
           t == WithoutOverlaps(s)
<1>1. n \in Nat /\ \A i \in 1..n : s[i] \in all
  OBVIOUS
<1>2. ASSUME NEW i \in 1..n, NEW x \in A PROVE Step(x, i) \in A
  <2>1. CASE s[i].start < x.free
    BY <2>1
  <2>2. CASE ~(s[i].start < x.free)
    <3>1. ChosenSoFar(x, all, raw) /\ s[i] \in all
      BY <1>1
    <3>2. ChosenSoFar([free |-> s[i].end, list |-> Append(x.list, s[i])], all, raw)
      BY <2>2, <3>1, NextIsValid
    <3>3. s[i].end \in Nat /\ Append(x.list, s[i]) \in Seq(all)
      BY <3>1 DEF IsCandidate
    <3>4. [free |-> s[i].end, list |-> Append(x.list, s[i])] \in A
      BY <3>2, <3>3
    <3> QED BY <2>2, <3>4
  <2> QED BY <2>1, <2>2
<1>3. F \in [1..n -> [A -> A]]
  <2> HIDE DEF A, Step
  <2> QED BY <1>2
<1>4. a \in A
  <2>1. a.free = 0 /\ a.list = <<>> /\ Len(a.list) = 0 /\ a.list \in Seq(all)
    OBVIOUS
  <2>2. ValidList(a.list, raw)
    BY <2>1 DEF ValidList
  <2>3. a \in [free : Nat, list : Seq(all)]
    OBVIOUS
  <2> HIDE DEF a
  <2>4. ChosenSoFar(a, all, raw)
    BY <2>1, <2>2 DEF ChosenSoFar
  <2> QED BY <2>3, <2>4
<1>5. PICK g : Computes(g, n, A, a, F)
  <2> HIDE DEF A, F, a, n
  <2> QED BY <1>1, <1>3, <1>4, RecursionExists
<1>6. g \in [0..n -> A] /\ g[0] = a /\ \A i \in 1..n : g[i] = Step(g[i - 1], i)
  <2> HIDE DEF A, Step, a
  <2>1. g \in [0..n -> A] /\ g[0] = a
    BY <1>5 DEF Computes
  <2>2. ASSUME NEW i \in 1..n PROVE g[i] = Step(g[i - 1], i)
    <3>1. i - 1 \in 0..n
      BY <1>1
    <3>2. g[i - 1] \in A
      BY <2>1, <3>1
    <3> QED BY <1>5, <3>2 DEF Computes
  <2> QED BY <2>1, <2>2
<1>7. g = [i \in 0..n |-> IF i = 0 THEN a ELSE Step(g[i - 1], i)]
  <2> HIDE DEF A, Step, a
  <2> QED BY <1>1, <1>6
<1>8. t = [i \in 0..n |-> IF i = 0 THEN a ELSE Step(t[i - 1], i)]
  BY <1>7 DEF WithoutOverlaps
<1> HIDE DEF t, A, Step, a, F
<1>9. t[0] = a /\ \A i \in 1..n : t[i] = Step(t[i - 1], i)
  BY <1>1, <1>8
<1> DEFINE S == {i \in Nat : t[i] \in A}
<1>10. S \in SUBSET Nat /\ 0 \in S
  BY <1>4, <1>9
<1>11. ASSUME NEW i \in 0..n, i \in S, i < n PROVE i + 1 \in S
  <2>1. i + 1 \in 1..n /\ (i + 1) - 1 = i /\ i + 1 \in Nat
    BY <1>1, <1>11
  <2>2. t[i + 1] = Step(t[i], i + 1)
    BY <1>9, <2>1
  <2> QED BY <1>2, <1>11, <2>1, <2>2
<1>12. t[n] \in A
  <2>1. \A i \in 0..n : i \in S
    <3> HIDE DEF S
    <3> QED BY <1>1, <1>10, <1>11, BoundedInduction
  <2> QED BY <1>1, <2>1
<1> QED
  BY <1>12 DEF A, t

\* What is selected of a text: candidates of the enabled rules, in their order,
\* none that overlaps another.
LEMMA SelectedIsValid ==
    ASSUME NEW raw \in Seq(Chars), NEW rules \in SUBSET Pool, IsFiniteSet(rules)
    PROVE  /\ Selected(raw, rules) \in Seq(All(raw, rules))
           /\ ValidList(Selected(raw, rules), raw)
<1> DEFINE all == All(raw, rules)
           R == CandidateOrder(all)
           s == InOrder(all, R)
<1>1. IsFiniteSet(all) /\ \A c \in all : IsCandidate(c, raw) /\ c.entry \in Pool
  BY AllAreCandidates
<1> HIDE DEF all
<1>2. StrictTotalOrder(all, R)
  BY <1>1, CandidateOrderIsTotal
<1>3. s \in Seq(all)
  BY <1>1, <1>2, InOrderSorts
<1>4. Selected(raw, rules) = WithoutOverlaps(s)[Len(s)].list
  BY DEF Selected, all, All
<1> HIDE DEF s
<1>5. ChosenSoFar(WithoutOverlaps(s)[Len(s)], all, raw)
  BY <1>1, <1>3, OverlapsAreLeftOut
<1> QED
  BY <1>4, <1>5 DEF ChosenSoFar, all

-----------------------------------------------------------------------------
(* Replacing the ranges of a list is correcting character by character     *)

\* A character that a correction swallows adds nothing.
LEMMA JoinNothing ==
    ASSUME NEW C
    PROVE  \A x \in Seq(C) : x \o <<>> = x
BY ConcatEmptySeq

\* Characters that stay.
LEMMA JoinedCopies ==
    ASSUME NEW raw \in Seq(Chars), NEW f \in [1..Len(raw) -> Seq(Chars)],
           NEW a \in 0..Len(raw), NEW b \in a..Len(raw),
           \A i \in (a + 1)..b : f[i] = <<raw[i]>>
    PROVE  Joined(f, b) = Joined(f, a) \o SubSeq(raw, a + 1, b)
<1> DEFINE n == Len(raw)
           S == {d \in Nat : Joined(f, a + d) = Joined(f, a) \o SubSeq(raw, a + 1, a + d)}
<1>1. n \in Nat /\ a \in Nat /\ b \in Nat /\ b - a \in Nat /\ a + (b - a) = b /\ a + 0 = a
  OBVIOUS
<1>2. /\ \A m \in 0..n : Joined(f, m) \in Seq(Chars)
      /\ \A m \in 1..n : Joined(f, m) = Joined(f, m - 1) \o f[m]
  BY <1>1, JoinedRecursion
<1>3. 0 \in S
  <2>1. SubSeq(raw, a + 1, a) = <<>>
    BY <1>1, SubSeqEmpty
  <2>2. Joined(f, a) = Joined(f, a) \o <<>>
    BY <1>2, JoinNothing
  <2>3. Joined(f, a + 0) = Joined(f, a) \o SubSeq(raw, a + 1, a + 0)
    BY <1>1, <2>1, <2>2, Zenon
  <2> QED BY <2>3
<1>4. ASSUME NEW d \in 0..(b - a), d \in S, d < b - a PROVE d + 1 \in S
  <2> DEFINE m == a + d
             c == <<raw[m + 1]>>
             P == SubSeq(raw, a + 1, m)
  <2>1. /\ m \in a..n /\ m \in 0..n /\ m < n /\ m + 1 \in 1..n /\ (m + 1) - 1 = m
        /\ m + 1 \in (a + 1)..b /\ a + (d + 1) = m + 1 /\ d + 1 \in Nat
    BY <1>1, <1>4
  <2>2. /\ P \in Seq(Chars) /\ raw[m + 1] \in Chars
        /\ SubSeq(raw, a + 1, m + 1) = Append(P, raw[m + 1])
    BY <2>1, SubSeqGrows
  <2>3. c \in Seq(Chars) /\ Append(P, raw[m + 1]) = P \o c
    BY <2>2, AppendIsConcat
  <2>4. f[m + 1] = c
    BY <2>1
  <2>5. Joined(f, m) = Joined(f, a) \o P
    BY <1>4
  <2> HIDE DEF m, c, P
  <2>6. Joined(f, m + 1) = Joined(f, m) \o c
    BY <1>2, <2>1, <2>4
  <2>7. (Joined(f, a) \o P) \o c = Joined(f, a) \o (P \o c)
    <3>1. Joined(f, a) \in Seq(Chars)
      BY <1>1, <1>2
    <3> QED BY <2>2, <2>3, <3>1, TextsAssociative, Zenon
  <2>8. Joined(f, m + 1) = Joined(f, a) \o SubSeq(raw, a + 1, m + 1)
    BY <2>2, <2>3, <2>5, <2>6, <2>7, Zenon
  <2>9. Joined(f, a + (d + 1)) = Joined(f, a) \o SubSeq(raw, a + 1, a + (d + 1))
    BY <2>1, <2>8, Zenon
  <2> QED BY <2>1, <2>9, Zenon
<1>5. b - a \in S
  <2>1. S \in SUBSET Nat
    OBVIOUS
  <2> HIDE DEF S
  <2>2. \A d \in 0..(b - a) : d \in S
    BY <1>1, <1>3, <1>4, <2>1, BoundedInduction
  <2> QED BY <1>1, <2>2
<1>6. Joined(f, a + (b - a)) = Joined(f, a) \o SubSeq(raw, a + 1, a + (b - a))
  BY <1>5
<1> QED
  BY <1>1, <1>6, Zenon

\* Characters that are replaced: the first by w, the others by nothing.
LEMMA JoinedReplaces ==
    ASSUME NEW n \in Nat, NEW f \in [1..n -> Seq(Chars)], NEW w \in Seq(Chars),
           NEW a \in 0..n, NEW b \in 0..n, a < b,
           f[a + 1] = w, \A i \in (a + 2)..b : f[i] = <<>>
    PROVE  Joined(f, b) = Joined(f, a) \o w
<1> DEFINE S == {d \in Nat : Joined(f, a + 1 + d) = Joined(f, a) \o w}
<1>1. /\ a \in Nat /\ b \in Nat /\ b - a - 1 \in Nat /\ a + 1 + (b - a - 1) = b /\ a + 1 + 0 = a + 1
      /\ a + 1 \in 1..n /\ (a + 1) - 1 = a
  OBVIOUS
<1>2. /\ \A m \in 0..n : Joined(f, m) \in Seq(Chars)
      /\ \A m \in 1..n : Joined(f, m) = Joined(f, m - 1) \o f[m]
  BY JoinedRecursion
<1>3. 0 \in S
  <2>1. Joined(f, a + 1) = Joined(f, a) \o w
    BY <1>1, <1>2
  <2>2. Joined(f, a + 1 + 0) = Joined(f, a) \o w
    BY <1>1, <2>1, Zenon
  <2> QED BY <2>2
<1>4. ASSUME NEW d \in 0..(b - a - 1), d \in S, d < b - a - 1 PROVE d + 1 \in S
  <2> DEFINE m == a + 1 + d
  <2>1. /\ m \in 0..n /\ m + 1 \in 1..n /\ (m + 1) - 1 = m
        /\ m + 1 \in (a + 2)..b /\ a + 1 + (d + 1) = m + 1 /\ d + 1 \in Nat
    BY <1>1, <1>4
  <2>2. f[m + 1] = <<>>
    BY <2>1
  <2>3. Joined(f, m) = Joined(f, a) \o w
    BY <1>4
  <2> HIDE DEF m
  <2>4. Joined(f, m + 1) = Joined(f, m) \o <<>>
    BY <1>2, <2>1, <2>2
  <2>5. Joined(f, m) \o <<>> = Joined(f, m)
    BY <1>2, <2>1, JoinNothing
  <2>6. Joined(f, a + 1 + (d + 1)) = Joined(f, a) \o w
    BY <2>1, <2>3, <2>4, <2>5, Zenon
  <2> QED BY <2>1, <2>6, Zenon
<1>5. b - a - 1 \in S
  <2>1. S \in SUBSET Nat
    OBVIOUS
  <2> HIDE DEF S
  <2>2. \A d \in 0..(b - a - 1) : d \in S
    BY <1>1, <1>3, <1>4, <2>1, BoundedInduction
  <2> QED BY <1>1, <2>2
<1>6. Joined(f, a + 1 + (b - a - 1)) = Joined(f, a) \o w
  BY <1>5
<1> QED
  BY <1>1, <1>6, Zenon

\* The loop of apply_corrections and render_corrections: the text between two
\* corrections, then the canonical text.
LEMMA BuiltRecursion ==
    ASSUME NEW raw \in Seq(Chars), NEW X, NEW list \in Seq(X), ValidList(list, raw)
    PROVE  /\ Built(raw, list)[0] = <<>>
           /\ \A i \in 1..Len(list) :
                Built(raw, list)[i] = Built(raw, list)[i - 1]
                                        \o SubSeq(raw, EndOf(list, i - 1) + 1, list[i].start)
                                        \o list[i].entry.canonical
<1> DEFINE n == Len(list)
           A == Seq(Chars)
           a == <<>>
           Step(x, i) == x \o SubSeq(raw, EndOf(list, i - 1) + 1, list[i].start)
                           \o list[i].entry.canonical
           F == [i \in 1..n |-> [x \in A |-> Step(x, i)]]
           t == Built(raw, list)
<1>1. n \in Nat
  OBVIOUS
<1>2. ASSUME NEW i \in 1..n, NEW x \in A PROVE Step(x, i) \in A
  <2>1. list[i].entry.canonical \in Seq(Chars)
    BY EntryTypes DEF ValidList
  <2>2. list[i].start \in Nat /\ list[i].start <= Len(raw) /\ Len(raw) \in Nat
    BY DEF ValidList
  <2>3. EndOf(list, i - 1) \in Nat
    <3>1. CASE i - 1 = 0
      BY <3>1 DEF EndOf
    <3>2. CASE i - 1 # 0
      <4>1. i - 1 \in 1..n
        BY <1>1, <3>2
      <4>2. list[i - 1].end \in Nat
        BY <4>1 DEF ValidList
      <4> QED BY <3>2, <4>2 DEF EndOf
    <3> QED BY <3>1, <3>2
  <2> DEFINE y == SubSeq(raw, EndOf(list, i - 1) + 1, list[i].start)
             z == list[i].entry.canonical
  <2>4. y \in Seq(Chars)
    BY <2>2, <2>3, SubSeqProperties
  <2> HIDE DEF y, z
  <2>5. x \o y \in Seq(Chars)
    BY <2>4, ConcatProperties
  <2>6. (x \o y) \o z \in Seq(Chars)
    BY <2>1, <2>5, ConcatProperties DEF z
  <2> QED BY <2>6 DEF y, z
<1>3. F \in [1..n -> [A -> A]]
  <2> HIDE DEF A, Step
  <2> QED BY <1>2
<1>4. a \in A
  OBVIOUS
<1>5. PICK g : Computes(g, n, A, a, F)
  <2> HIDE DEF A, F, a, n
  <2> QED BY <1>1, <1>3, <1>4, RecursionExists
<1>6. g \in [0..n -> A] /\ g[0] = a /\ \A i \in 1..n : g[i] = Step(g[i - 1], i)
  <2> HIDE DEF A, Step, a
  <2>1. g \in [0..n -> A] /\ g[0] = a
    BY <1>5 DEF Computes
  <2>2. ASSUME NEW i \in 1..n PROVE g[i] = Step(g[i - 1], i)
    <3>1. i - 1 \in 0..n
      BY <1>1
    <3>2. g[i - 1] \in A
      BY <2>1, <3>1
    <3> QED BY <1>5, <3>2 DEF Computes
  <2> QED BY <2>1, <2>2
<1>7. g = [i \in 0..n |-> IF i = 0 THEN a ELSE Step(g[i - 1], i)]
  <2> HIDE DEF A, Step, a
  <2> QED BY <1>1, <1>6
<1>8. t = [i \in 0..n |-> IF i = 0 THEN a ELSE Step(t[i - 1], i)]
  BY <1>7 DEF Built
<1> HIDE DEF t, A, Step, a, F
<1>9. t[0] = a /\ \A i \in 1..n : t[i] = Step(t[i - 1], i)
  BY <1>1, <1>8
<1> QED
  BY <1>9 DEF t, a, Step

\* The corrections are those of the list.
Lists(list, corrections) ==
    /\ \A c \in corrections : \E i \in 1..Len(list) :
         c.start = list[i].start /\ c.end = list[i].end /\ c.entry = list[i].entry
    /\ \A i \in 1..Len(list) : \E c \in corrections :
         c.start = list[i].start /\ c.end = list[i].end /\ c.entry = list[i].entry

\* Replacing ranges from the left to the right with a cursor gives the same text as
\* asking of every character which correction covers it.
LEMMA ReplaceCorrects ==
    ASSUME NEW raw \in Seq(Chars), NEW X, NEW list \in Seq(X), ValidList(list, raw),
           NEW corrections, Lists(list, corrections)
    PROVE  /\ Replace(raw, list) = Corrected(raw, corrections)
           /\ Corrected(raw, corrections) \in Seq(Chars)
<1> DEFINE L == Len(raw)
           n == Len(list)
           At(i) == {c \in corrections : c.start < i /\ i <= c.end}
           Char(i) == IF At(i) = {} THEN <<raw[i]>>
                      ELSE LET c == CHOOSE d \in At(i) : TRUE
                           IN  IF c.start = i - 1 THEN c.entry.canonical ELSE <<>>
           f == [i \in 1..L |-> Char(i)]
           e(k) == EndOf(list, k)
<1>1. L \in Nat /\ n \in Nat
  OBVIOUS
<1>2. /\ \A i \in 1..n : /\ list[i].start \in 0..L /\ list[i].end \in 0..L
                         /\ list[i].start < list[i].end
                         /\ list[i].entry \in Pool /\ list[i].entry.canonical \in Seq(Chars)
      /\ \A i, j \in 1..n : i < j => list[i].end <= list[j].start
  BY EntryTypes DEF ValidList
<1>3. ASSUME NEW k \in 1..n, NEW i \in 1..L, list[k].start < i, i <= list[k].end
      PROVE  f[i] = IF list[k].start = i - 1 THEN list[k].entry.canonical ELSE <<>>
  <2>1. At(i) # {}
    BY <1>3 DEF Lists
  <2> DEFINE c == CHOOSE d \in At(i) : TRUE
  <2>2. c \in At(i)
    BY <2>1
  <2>3. f[i] = IF c.start = i - 1 THEN c.entry.canonical ELSE <<>>
    BY <2>1
  <2> HIDE DEF c, f
  <2>4. PICK j \in 1..n : c.start = list[j].start /\ c.end = list[j].end /\ c.entry = list[j].entry
    BY <2>2 DEF Lists
  <2>5. list[j].start < i /\ i <= list[j].end
    BY <2>2, <2>4
  <2>6. j = k
    <3>1. CASE j < k
      <4>1. list[j].end <= list[k].start
        BY <1>2, <3>1
      <4>2. list[j].end \in Nat /\ list[k].start \in Nat
        BY <1>2
      <4> QED BY <1>3, <2>5, <4>1, <4>2
    <3>2. CASE k < j
      <4>1. list[k].end <= list[j].start
        BY <1>2, <3>2
      <4>2. list[k].end \in Nat /\ list[j].start \in Nat
        BY <1>2
      <4> QED BY <1>3, <2>5, <4>1, <4>2
    <3> QED BY <1>1, <3>1, <3>2
  <2> QED BY <2>3, <2>4, <2>6
<1>4. ASSUME NEW i \in 1..L, \A k \in 1..n : ~(list[k].start < i /\ i <= list[k].end)
      PROVE  f[i] = <<raw[i]>>
  <2>1. At(i) = {}
    BY <1>4 DEF Lists
  <2> QED BY <2>1
<1>5. Corrected(raw, corrections) = Joined(f, L)
  <2>1. [i \in 1..L |-> f[i]] = f
    OBVIOUS
  <2>2. Corrected(raw, corrections) = FlattenSeq(f)
    BY DEF Corrected
  <2> QED BY <2>1, <2>2 DEF Joined
<1> HIDE DEF f, At, Char
<1>6. f \in [1..L -> Seq(Chars)]
  <2>1. f = [i \in 1..L |-> f[i]]
    BY DEF f
  <2>2. ASSUME NEW i \in 1..L PROVE f[i] \in Seq(Chars)
    <3>1. CASE \E k \in 1..n : list[k].start < i /\ i <= list[k].end
      <4>1. PICK k \in 1..n : list[k].start < i /\ i <= list[k].end
        BY <3>1
      <4>2. f[i] = list[k].entry.canonical \/ f[i] = <<>>
        BY <1>3, <4>1
      <4>3. list[k].entry.canonical \in Seq(Chars) /\ <<>> \in Seq(Chars)
        BY <1>2
      <4> QED BY <4>2, <4>3, Zenon
    <3>2. CASE \A k \in 1..n : ~(list[k].start < i /\ i <= list[k].end)
      <4>1. f[i] = <<raw[i]>> /\ raw[i] \in Chars
        BY <1>4, <3>2
      <4> QED BY <4>1
    <3> QED BY <3>1, <3>2
  <2> QED BY <2>1, <2>2
<1>7. \A k \in 0..n : e(k) \in 0..L
  <2> SUFFICES ASSUME NEW k \in 0..n PROVE e(k) \in 0..L
    OBVIOUS
  <2>1. CASE k = 0
    BY <1>1, <2>1 DEF EndOf
  <2>2. CASE k # 0
    <3>1. k \in 1..n
      BY <1>1, <2>2
    <3> QED BY <1>2, <2>2, <3>1 DEF EndOf
  <2> QED BY <2>1, <2>2
<1>8. ASSUME NEW k \in 0..n, NEW j \in 1..n, j <= k PROVE list[j].end <= e(k)
  <2>1. k \in 1..n /\ k # 0 /\ e(k) = list[k].end
    BY <1>1, <1>8 DEF EndOf
  <2>2. CASE j = k
    <3>1. list[k].end \in Nat
      BY <1>2, <2>1
    <3> QED BY <2>1, <2>2, <3>1
  <2>3. CASE j < k
    <3>1. list[j].end <= list[k].start /\ list[k].start < list[k].end
      BY <1>2, <2>1, <2>3
    <3>2. list[j].end \in Nat /\ list[k].start \in Nat /\ list[k].end \in Nat
      BY <1>2, <2>1
    <3> QED BY <2>1, <3>1, <3>2
  <2> QED BY <1>1, <1>8, <2>1, <2>2, <2>3
\* No range lies between the k-th and the next.
<1>9. ASSUME NEW k \in 0..n, NEW b \in 0..L, NEW i \in (e(k) + 1)..b,
             \A j \in 1..n : j > k => b <= list[j].start
      PROVE  f[i] = <<raw[i]>>
  <2>1. e(k) \in Nat /\ b \in Nat /\ b <= L /\ i \in 1..L /\ i > e(k) /\ i <= b
    BY <1>1, <1>7
  <2>2. ASSUME NEW j \in 1..n PROVE ~(list[j].start < i /\ i <= list[j].end)
    <3>1. list[j].start \in Nat /\ list[j].end \in Nat
      BY <1>2
    <3>2. CASE j <= k
      <4>1. list[j].end <= e(k)
        BY <1>8, <3>2
      <4> QED BY <2>1, <3>1, <4>1
    <3>3. CASE j > k
      <4>1. b <= list[j].start
        BY <1>9, <3>3
      <4> QED BY <2>1, <3>1, <4>1
    <3> QED BY <1>1, <3>2, <3>3
  <2> QED BY <1>4, <2>1, <2>2
<1> DEFINE t == Built(raw, list)
<1>10. /\ t[0] = <<>>
       /\ \A i \in 1..n : t[i] = t[i - 1] \o SubSeq(raw, e(i - 1) + 1, list[i].start)
                                   \o list[i].entry.canonical
  BY BuiltRecursion
<1> HIDE DEF t
<1>11. \A m \in 0..L : Joined(f, m) \in Seq(Chars)
  BY <1>1, <1>6, JoinedRecursion
<1> DEFINE S == {k \in Nat : t[k] = Joined(f, e(k))}
<1>12. 0 \in S
  <2>1. Joined(f, 0) = <<>>
    BY <1>1, <1>6, JoinedRecursion
  <2>2. e(0) = 0
    BY DEF EndOf
  <2>3. t[0] = Joined(f, e(0))
    BY <1>10, <2>1, <2>2, Zenon
  <2> QED BY <2>3
<1>13. ASSUME NEW k \in 0..n, k \in S, k < n PROVE k + 1 \in S
  <2> DEFINE a == list[k + 1].start
             b == list[k + 1].end
             w == list[k + 1].entry.canonical
             P == SubSeq(raw, e(k) + 1, a)
  <2>1. k + 1 \in 1..n /\ (k + 1) - 1 = k /\ k + 1 # 0 /\ k + 1 \in Nat
    BY <1>1, <1>13
  <2>2. a \in 0..L /\ b \in 0..L /\ a < b /\ w \in Seq(Chars) /\ a \in Nat /\ b \in Nat
    BY <1>2, <2>1
  <2>3. e(k) \in 0..L /\ e(k) \in Nat
    BY <1>7
  <2>4. e(k) <= a
    <3>1. CASE k = 0
      BY <2>2, <3>1 DEF EndOf
    <3>2. CASE k # 0
      <4>1. k \in 1..n /\ k < k + 1
        BY <1>1, <3>2
      <4> QED BY <1>2, <2>1, <3>2, <4>1 DEF EndOf
    <3> QED BY <3>1, <3>2
  <2>5. \A j \in 1..n : j > k => a <= list[j].start
    <3> SUFFICES ASSUME NEW j \in 1..n, j > k PROVE a <= list[j].start
      OBVIOUS
    <3>1. CASE j = k + 1
      BY <2>2, <3>1
    <3>2. CASE j # k + 1
      <4>1. k + 1 < j
        BY <1>1, <3>2
      <4>2. b <= list[j].start
        BY <1>2, <2>1, <4>1
      <4>3. list[j].start \in Nat
        BY <1>2
      <4> QED BY <2>2, <4>2, <4>3
    <3> QED BY <3>1, <3>2
  <2>6. e(k + 1) = b
    BY <2>1 DEF EndOf
  <2>7. \A i \in (a + 2)..b : f[i] = <<>>
    <3> SUFFICES ASSUME NEW i \in (a + 2)..b PROVE f[i] = <<>>
      OBVIOUS
    <3>1. i \in 1..L /\ list[k + 1].start < i /\ i <= list[k + 1].end /\ list[k + 1].start # i - 1
      BY <2>2
    <3> QED BY <1>3, <2>1, <3>1
  <2>8. f[a + 1] = w
    <3>1. a + 1 \in 1..L /\ list[k + 1].start < a + 1 /\ a + 1 <= list[k + 1].end
          /\ list[k + 1].start = (a + 1) - 1
      BY <2>2
    <3> QED BY <1>3, <2>1, <3>1
  <2> HIDE DEF a, b, w
  <2>9. Joined(f, a) = Joined(f, e(k)) \o P
    <3>1. \A i \in (e(k) + 1)..a : f[i] = <<raw[i]>>
      BY <1>9, <2>2, <2>5
    <3>2. a \in e(k)..L
      BY <1>1, <2>2, <2>3, <2>4
    <3> HIDE DEF e
    <3> QED BY <1>6, <2>3, <3>1, <3>2, JoinedCopies
  <2>10. Joined(f, b) = Joined(f, a) \o w
    <3> HIDE DEF L
    <3>1. L \in Nat /\ w \in Seq(Chars) /\ a \in 0..L /\ b \in 0..L /\ a < b
      BY <1>1, <2>2
    <3> QED BY <1>6, <2>7, <2>8, <3>1, JoinedReplaces, ZenonT(60)
  <2>11. t[k + 1] = t[k] \o P \o w
    <3>1. t[k + 1] = t[(k + 1) - 1] \o SubSeq(raw, e((k + 1) - 1) + 1, list[k + 1].start)
                                   \o list[k + 1].entry.canonical
      BY <1>10, <2>1
    <3> QED BY <2>1, <3>1, Zenon DEF a, w
  <2>12. t[k] = Joined(f, e(k))
    BY <1>13
  <2> HIDE DEF P, e
  <2>13. t[k + 1] = Joined(f, e(k + 1))
    BY <2>6, <2>9, <2>10, <2>11, <2>12, Zenon
  <2> QED BY <2>1, <2>13, Zenon
<1>14. t[n] = Joined(f, e(n))
  <2>1. S \in SUBSET Nat
    OBVIOUS
  <2> HIDE DEF S
  <2>2. \A k \in 0..n : k \in S
    BY <1>1, <1>12, <1>13, <2>1, BoundedInduction
  <2>3. n \in S
    BY <1>1, <2>2
  <2> QED BY <2>3 DEF S
<1>15. Joined(f, L) = Joined(f, e(n)) \o SubSeq(raw, e(n) + 1, L)
  <2>1. n \in 0..n /\ L \in 0..L /\ L \in e(n)..L /\ e(n) \in 0..L
    BY <1>1, <1>7
  <2>2. \A i \in (e(n) + 1)..L : f[i] = <<raw[i]>>
    <3>1. \A j \in 1..n : ~(j > n)
      BY <1>1
    <3> QED BY <1>9, <2>1, <3>1
  <2> HIDE DEF e
  <2> QED BY <1>6, <2>1, <2>2, JoinedCopies
<1>16. Replace(raw, list) = t[n] \o SubSeq(raw, e(n) + 1, L)
  BY DEF Replace, t
<1>17. Corrected(raw, corrections) \in Seq(Chars)
  BY <1>1, <1>5, <1>11
<1> QED
  BY <1>5, <1>14, <1>15, <1>16, <1>17, Zenon

-----------------------------------------------------------------------------
(* Rendering and applying                                                  *)

CorrectionType ==
    [start : Nat, end : Nat, entry : Pool, original : Seq(Chars), reverted : BOOLEAN]

RightCorrections(corrections, raw) ==
    /\ IsFiniteSet(corrections)
    /\ \A c \in corrections :
         /\ c.start \in 0..Len(raw) /\ c.end \in 0..Len(raw) /\ c.start < c.end
         /\ c.entry \in Pool /\ c.original = SubSeq(raw, c.start + 1, c.end)
         /\ c \in CorrectionType
    /\ \A c, d \in corrections : c # d => c.end <= d.start \/ d.end <= c.start

\* render_corrections accepts such corrections, and puts each in its place.
LEMMA RenderIsRight ==
    ASSUME NEW raw \in Seq(Chars), NEW corrections, RightCorrections(corrections, raw)
    PROVE  /\ RenderCorrections(raw, corrections) = [ok |-> TRUE, text |-> Corrected(raw, corrections)]
           /\ Corrected(raw, corrections) \in Seq(Chars)
<1> DEFINE R == PositionOrder(corrections)
           list == InOrder(corrections, R)
           n == Cardinality(corrections)
<1>0. \A c \in corrections :
        /\ c.start \in 0..Len(raw) /\ c.end \in 0..Len(raw) /\ c.start < c.end
        /\ c.entry \in Pool /\ c.original = SubSeq(raw, c.start + 1, c.end)
  BY DEF RightCorrections
<1>1. \A c \in corrections : c.start \in Nat /\ c.end \in Nat /\ c.start < c.end
  BY <1>0
<1>2. \A c, d \in corrections : c # d => c.end <= d.start \/ d.end <= c.start
  BY DEF RightCorrections
<1>3. \A c, d \in corrections : <<c, d>> \in R <=>
        c.start < d.start \/ (c.start = d.start /\ c.end < d.end)
  BY DEF PositionOrder
<1> HIDE DEF R
<1>4. StrictTotalOrder(corrections, R)
  <2>1. \A d \in corrections : <<d, d>> \notin R
    BY <1>1, <1>3
  <2>2. \A d, e \in corrections : d = e \/ <<d, e>> \in R \/ <<e, d>> \in R
    <3> SUFFICES ASSUME NEW d \in corrections, NEW e \in corrections, d # e
                 PROVE  <<d, e>> \in R \/ <<e, d>> \in R
      OBVIOUS
    <3>1. d.end <= e.start \/ e.end <= d.start
      BY <1>2
    <3>2. d.start < e.start \/ e.start < d.start
      BY <1>1, <3>1
    <3> QED BY <1>3, <3>2
  <2>3. \A c, d, e \in corrections : <<c, d>> \in R /\ <<d, e>> \in R => <<c, e>> \in R
    BY <1>1, <1>3
  <2> QED BY <2>1, <2>2, <2>3 DEF StrictTotalOrder
<1>5. /\ list \in Seq(corrections) /\ Len(list) = n /\ n \in Nat
      /\ \A c \in corrections : \E i \in 1..n : list[i] = c
      /\ \A i, j \in 1..n : i < j => <<list[i], list[j]>> \in R
  <2>1. IsFiniteSet(corrections)
    BY DEF RightCorrections
  <2> QED BY <1>4, <2>1, InOrderSorts
<1> HIDE DEF list, n
<1>6. \A i \in 1..n : list[i] \in corrections
  BY <1>5
<1>7. ASSUME NEW i \in 1..n, NEW j \in 1..n, i < j PROVE list[i].end <= list[j].start
  <2>1. list[i] \in corrections /\ list[j] \in corrections /\ <<list[i], list[j]>> \in R
    BY <1>5, <1>6, <1>7
  <2>2. list[i] # list[j]
    BY <1>4, <2>1 DEF StrictTotalOrder
  <2>3. list[i].end <= list[j].start \/ list[j].end <= list[i].start
    BY <1>2, <2>1, <2>2
  <2>4. list[i].start <= list[j].start
    BY <1>1, <1>3, <2>1
  <2> QED BY <1>1, <2>1, <2>3, <2>4
<1>8. ValidList(list, raw)
  BY <1>0, <1>5, <1>6, <1>7 DEF ValidList
<1>9. Lists(list, corrections)
  BY <1>5, <1>6 DEF Lists
<1>10. /\ Replace(raw, list) = Corrected(raw, corrections)
       /\ Corrected(raw, corrections) \in Seq(Chars)
  BY <1>5, <1>8, <1>9, ReplaceCorrects
<1>11. \A i \in DOMAIN list :
         /\ list[i].start >= EndOf(list, i - 1) /\ list[i].start <= list[i].end
         /\ SubSeq(raw, list[i].start + 1, list[i].end) = list[i].original
  <2> SUFFICES ASSUME NEW i \in DOMAIN list
               PROVE  /\ list[i].start >= EndOf(list, i - 1) /\ list[i].start <= list[i].end
                      /\ SubSeq(raw, list[i].start + 1, list[i].end) = list[i].original
    OBVIOUS
  <2>1. i \in 1..n /\ list[i] \in corrections
    BY <1>5, <1>6
  <2>2. list[i].start \in Nat /\ list[i].end \in Nat /\ list[i].start < list[i].end
        /\ list[i].original = SubSeq(raw, list[i].start + 1, list[i].end)
    BY <1>0, <1>1, <2>1
  <2>3. list[i].start >= EndOf(list, i - 1)
    <3>1. CASE i = 1
      BY <2>2, <3>1 DEF EndOf
    <3>2. CASE i # 1
      <4>1. i - 1 \in 1..n /\ i - 1 < i /\ i - 1 # 0
        BY <1>5, <2>1, <3>2
      <4>2. list[i - 1].end <= list[i].start /\ list[i - 1].end \in Nat
        BY <1>1, <1>6, <1>7, <2>1, <4>1
      <4> QED BY <2>2, <4>1, <4>2 DEF EndOf
    <3> QED BY <3>1, <3>2
  <2> QED BY <2>2, <2>3
<1> QED
  BY <1>10, <1>11 DEF RenderCorrections, list, R

\* apply_corrections: the corrections are right, exact and of the rules, and the
\* text is the raw text with them in place.
LEMMA ApplyIsRight ==
    ASSUME NEW raw \in Seq(Chars), NEW rules \in SUBSET Pool, IsFiniteSet(rules)
    PROVE  LET result == ApplyCorrections(raw, rules)
           IN  /\ RightCorrections(result.corrections, raw)
               /\ result.final = Corrected(raw, result.corrections)
               /\ \A c \in result.corrections :
                    /\ ~c.reverted /\ c.entry \in rules /\ c.entry.enabled
                    /\ IsCandidate([start |-> c.start, end |-> c.end, entry |-> c.entry], raw)
<1> DEFINE list == Selected(raw, rules)
           Correction(c) == [start |-> c.start, end |-> c.end, entry |-> c.entry,
                             original |-> SubSeq(raw, c.start + 1, c.end), reverted |-> FALSE]
           corrections == {Correction(list[i]) : i \in DOMAIN list}
           n == Len(list)
<1>1. /\ ApplyCorrections(raw, rules).final = Replace(raw, list)
      /\ ApplyCorrections(raw, rules).corrections = corrections
  BY DEF ApplyCorrections
<1>2. list \in Seq(All(raw, rules)) /\ ValidList(list, raw)
  BY SelectedIsValid
<1> HIDE DEF list
<1>3. n \in Nat /\ DOMAIN list = 1..n /\ \A i \in 1..n : list[i] \in All(raw, rules)
  BY <1>2
<1>4. \A i \in 1..n : /\ IsCandidate(list[i], raw) /\ list[i].entry \in rules
                      /\ list[i].entry.enabled /\ list[i].entry \in Pool
  BY <1>3, AllAreCandidates
<1>5. \A c \in corrections : \E i \in 1..n : c = Correction(list[i])
  BY <1>3
<1>6. \A i \in 1..n : Correction(list[i]) \in corrections
  BY <1>3
<1>7. IsFiniteSet(corrections)
  <2> DEFINE g == [i \in 1..n |-> Correction(list[i])]
  <2>1. g \in Surjection(1..n, corrections)
    BY <1>3 DEF Surjection
  <2>2. IsFiniteSet(1..n)
    BY <1>3, FS_Interval
  <2> HIDE DEF g, corrections, n
  <2> QED BY <2>1, <2>2, FS_Surjection
<1> HIDE DEF corrections
<1>8. ASSUME NEW c \in corrections
      PROVE  /\ c.start \in 0..Len(raw) /\ c.end \in 0..Len(raw) /\ c.start < c.end
             /\ c.entry \in Pool /\ c.original = SubSeq(raw, c.start + 1, c.end)
             /\ c \in CorrectionType
             /\ ~c.reverted /\ c.entry \in rules /\ c.entry.enabled
             /\ IsCandidate([start |-> c.start, end |-> c.end, entry |-> c.entry], raw)
  <2>1. PICK i \in 1..n : c = Correction(list[i])
    BY <1>5
  <2>2. c.start = list[i].start /\ c.end = list[i].end /\ c.entry = list[i].entry
        /\ c.original = SubSeq(raw, list[i].start + 1, list[i].end) /\ c.reverted = FALSE
    BY <2>1
  <2>3. IsCandidate(list[i], raw) /\ list[i].entry \in rules /\ list[i].entry.enabled
        /\ list[i].entry \in Pool
    BY <1>4
  <2>4. list[i] = [start |-> list[i].start, end |-> list[i].end, entry |-> list[i].entry]
    BY <2>3 DEF IsCandidate
  <2>5. IsCandidate([start |-> c.start, end |-> c.end, entry |-> c.entry], raw)
    BY <2>2, <2>3, <2>4, Zenon
  <2>6. list[i].start \in 0..Len(raw) /\ list[i].end \in 0..Len(raw) /\ list[i].start < list[i].end
    BY <2>3 DEF IsCandidate
  <2>7. SubSeq(raw, list[i].start + 1, list[i].end) \in Seq(Chars)
    BY <2>6, SubSeqProperties
  <2>8. c \in CorrectionType
    BY <2>1, <2>3, <2>6, <2>7 DEF CorrectionType
  <2> HIDE DEF Correction
  <2> QED BY <2>2, <2>3, <2>5, <2>6, <2>8
<1>9. ASSUME NEW c \in corrections, NEW d \in corrections, c # d
      PROVE  c.end <= d.start \/ d.end <= c.start
  <2>1. PICK i \in 1..n : c = Correction(list[i])
    BY <1>5
  <2>2. PICK j \in 1..n : d = Correction(list[j])
    BY <1>5
  <2>3. i # j
    BY <1>9, <2>1, <2>2
  <2>4. /\ c.start = list[i].start /\ c.end = list[i].end
        /\ d.start = list[j].start /\ d.end = list[j].end
    BY <2>1, <2>2
  <2>5. i < j \/ j < i
    BY <2>3
  <2> QED BY <1>2, <2>4, <2>5 DEF ValidList
<1>10. RightCorrections(corrections, raw)
  BY <1>7, <1>8, <1>9 DEF RightCorrections
<1>11. Lists(list, corrections)
  <2>1. \A c \in corrections : \E i \in 1..n :
          c.start = list[i].start /\ c.end = list[i].end /\ c.entry = list[i].entry
    BY <1>5
  <2>2. \A i \in 1..n : \E c \in corrections :
          c.start = list[i].start /\ c.end = list[i].end /\ c.entry = list[i].entry
    BY <1>6
  <2> QED BY <2>1, <2>2 DEF Lists
<1>12. Replace(raw, list) = Corrected(raw, corrections)
  BY <1>2, <1>11, ReplaceCorrects
<1> QED
  BY <1>1, <1>8, <1>10, <1>12

\* Leaving corrections out, as a revert does, makes no correction wrong.
LEMMA SomeAreRight ==
    ASSUME NEW raw, NEW corrections, RightCorrections(corrections, raw),
           NEW some \in SUBSET corrections
    PROVE  RightCorrections(some, raw)
<1>1. IsFiniteSet(some)
  BY FS_Subset DEF RightCorrections
<1> QED
  BY <1>1 DEF RightCorrections

\* Marking a correction moves nothing.
LEMMA MarkedAreRight ==
    ASSUME NEW raw, NEW corrections, RightCorrections(corrections, raw),
           NEW c \in corrections
    PROVE  RightCorrections((corrections \ {c}) \cup {[c EXCEPT !.reverted = TRUE]}, raw)
<1> DEFINE m == [c EXCEPT !.reverted = TRUE]
           all == (corrections \ {c}) \cup {m}
<1>1. c \in CorrectionType
  BY DEF RightCorrections
<1>2. /\ m.start = c.start /\ m.end = c.end /\ m.entry = c.entry /\ m.original = c.original
      /\ m \in CorrectionType
  BY <1>1 DEF CorrectionType
<1> HIDE DEF m
<1>3. IsFiniteSet(all)
  <2>1. IsFiniteSet(corrections \ {c}) /\ IsFiniteSet({m})
    BY FS_Difference, FS_Singleton DEF RightCorrections
  <2> QED BY <2>1, FS_Union
<1>4. \A d \in all : d = m \/ (d \in corrections /\ d # c)
  OBVIOUS
<1> HIDE DEF all
<1>5. \A d \in all :
         /\ d.start \in 0..Len(raw) /\ d.end \in 0..Len(raw) /\ d.start < d.end
         /\ d.entry \in Pool /\ d.original = SubSeq(raw, d.start + 1, d.end)
         /\ d \in CorrectionType
  BY <1>2, <1>4 DEF RightCorrections
<1>6. \A d, e \in all : d # e => d.end <= e.start \/ e.end <= d.start
  <2> SUFFICES ASSUME NEW d \in all, NEW e \in all, d # e
               PROVE  d.end <= e.start \/ e.end <= d.start
    OBVIOUS
  <2>1. CASE d = m
    <3>1. e \in corrections /\ e # c
      BY <1>4, <2>1
    <3> QED BY <1>2, <2>1, <3>1 DEF RightCorrections
  <2>2. CASE e = m
    <3>1. d \in corrections /\ d # c
      BY <1>4, <2>2
    <3> QED BY <1>2, <2>2, <3>1 DEF RightCorrections
  <2>3. CASE d # m /\ e # m
    BY <1>4, <2>3 DEF RightCorrections
  <2> QED BY <2>1, <2>2, <2>3
<1>7. RightCorrections(all, raw)
  BY <1>3, <1>5, <1>6 DEF RightCorrections
<1> QED
  BY <1>7 DEF all, m

-----------------------------------------------------------------------------
(* The invariant                                                           *)

\* The entries are finitely many.
LexiconInv == TypeOK /\ IsFiniteSet(entries)

\* What the job took and what is stored of it.
JobInv ==
    /\ job \in [at : {"idle", "transcribing", "stored", "refused"}, rules : SUBSET Pool,
                prompt : Seq(Pool), profile : Profiles \cup {None}]
    /\ IsFiniteSet(job.rules) /\ \A e \in job.rules : AppliesTo(e, job.profile)
    /\ transcript \in [raw : Texts, final : Seq(Chars), corrections : SUBSET CorrectionType]
    /\ RightCorrections(transcript.corrections, transcript.raw)
    /\ job.at \in {"idle", "transcribing"} => transcript.corrections = {}
    /\ CorrectionsAreExact /\ FinalTextMatches /\ PromptIsBounded

\* A transcript of the provider, of any length up to the bound, is a sequence.
LEMMA TextsAreSequences == \A t \in Texts : t \in Seq(Chars)
BY LexiconAssumption DEF Texts

\* The stored transcript of a job that has none yet is explained.
LEMMA NothingCorrected == Corrected(<<>>, {}) = <<>>
<1>1. RightCorrections({}, <<>>)
  BY FS_EmptySet DEF RightCorrections
<1>2. <<>> \in Seq(Chars) /\ Len(<<>>) = 0
  OBVIOUS
<1> DEFINE f == [i \in 1..Len(<<>>) |->
                   LET At(j) == {c \in {} : c.start < j /\ j <= c.end}
                       Char(j) == IF At(j) = {} THEN <<<<>>[j]>>
                                  ELSE LET c == CHOOSE d \in At(j) : TRUE
                                       IN  IF c.start = j - 1 THEN c.entry.canonical ELSE <<>>
                   IN  Char(i)]
<1>3. f = <<>>
  BY <1>2
<1>4. Corrected(<<>>, {}) = FlattenSeq(f)
  BY DEF Corrected
<1> QED
  BY <1>2, <1>3, <1>4 DEF FlattenSeq

\* An empty lexicon, no active profile and no transcript satisfy the invariant.
LEMMA InvInit == Init => LexiconInv /\ JobInv
<1> SUFFICES ASSUME Init PROVE LexiconInv /\ JobInv
  OBVIOUS
<1> USE DEF Init, NoJob
<1>1. MaxLen \in Nat /\ MaxEdits \in Nat /\ MaxPromptTerms \in Nat /\ MaxPromptTokens \in Nat
  BY LexiconAssumption
<1>2. <<>> \in Texts /\ <<>> \in Seq(Chars) /\ <<>> \in Seq(Pool)
  <2>1. <<>> \in [1..0 -> Chars] /\ 0 \in 0..MaxLen
    BY <1>1
  <2> QED BY <2>1 DEF Texts
<1>3. Range(<<>>) = {} /\ Len(<<>>) = 0
  BY DEF Range
<1>4. IsFiniteSet({})
  BY FS_EmptySet
<1>5. LexiconInv
  BY <1>1, <1>2, <1>3, <1>4 DEF LexiconInv, TypeOK
<1>6. RightCorrections({}, <<>>)
  BY <1>4 DEF RightCorrections
<1>7. FinalTextMatches
  <2>1. NotReverted({}) = {}
    BY DEF NotReverted
  <2> QED BY <2>1, NothingCorrected DEF FinalTextMatches
<1>8. PromptIsBounded
  BY <1>1, <1>3, TokensOfAppend DEF PromptIsBounded
<1>9. CorrectionsAreExact
  BY DEF CorrectionsAreExact
<1>10. JobInv
  BY <1>2, <1>4, <1>6, <1>7, <1>8, <1>9 DEF JobInv
<1> QED
  BY <1>5, <1>10

\* import of a document keeps the lexicon a finite set of valid entries.
LEMMA MergedIsFinite ==
    ASSUME NEW all \in SUBSET Pool, IsFiniteSet(all), NEW drafts \in Seq(Pool)
    PROVE  /\ Merged(all, drafts)[Len(drafts)] \in SUBSET Pool
           /\ IsFiniteSet(Merged(all, drafts)[Len(drafts)])
<1> DEFINE n == Len(drafts)
           A == {T \in SUBSET Pool : IsFiniteSet(T)}
           Step(x, i) == IF Known(x, drafts[i]) THEN x ELSE x \cup {drafts[i]}
           F == [i \in 1..n |-> [x \in A |-> Step(x, i)]]
           t == Merged(all, drafts)
<1>1. n \in Nat /\ \A i \in 1..n : drafts[i] \in Pool
  OBVIOUS
<1>2. ASSUME NEW i \in 1..n, NEW x \in A PROVE Step(x, i) \in A
  <2>1. IsFiniteSet(x \cup {drafts[i]})
    BY FS_AddElement
  <2>2. x \cup {drafts[i]} \in SUBSET Pool
    BY <1>1
  <2> QED BY <2>1, <2>2
<1>3. F \in [1..n -> [A -> A]]
  <2> HIDE DEF A, Step
  <2> QED BY <1>2
<1>4. all \in A
  OBVIOUS
<1>5. PICK g : Computes(g, n, A, all, F)
  <2> HIDE DEF A, F, n
  <2> QED BY <1>1, <1>3, <1>4, RecursionExists
<1>6. g \in [0..n -> A] /\ g[0] = all /\ \A i \in 1..n : g[i] = Step(g[i - 1], i)
  <2> HIDE DEF A, Step
  <2>1. g \in [0..n -> A] /\ g[0] = all
    BY <1>5 DEF Computes
  <2>2. ASSUME NEW i \in 1..n PROVE g[i] = Step(g[i - 1], i)
    <3>1. i - 1 \in 0..n
      BY <1>1
    <3>2. g[i - 1] \in A
      BY <2>1, <3>1
    <3> QED BY <1>5, <3>2 DEF Computes
  <2> QED BY <2>1, <2>2
<1>7. g = [i \in 0..n |-> IF i = 0 THEN all ELSE Step(g[i - 1], i)]
  <2> HIDE DEF A, Step
  <2> QED BY <1>1, <1>6
<1>8. t = [i \in 0..n |-> IF i = 0 THEN all ELSE Step(t[i - 1], i)]
  BY <1>7 DEF Merged
<1> HIDE DEF t, A, Step, F
<1>9. t[0] = all /\ \A i \in 1..n : t[i] = Step(t[i - 1], i)
  BY <1>1, <1>8
<1> DEFINE S == {i \in Nat : t[i] \in A}
<1>10. S \in SUBSET Nat /\ 0 \in S
  BY <1>4, <1>9
<1>11. ASSUME NEW i \in 0..n, i \in S, i < n PROVE i + 1 \in S
  <2>1. i + 1 \in 1..n /\ (i + 1) - 1 = i /\ i + 1 \in Nat
    BY <1>1, <1>11
  <2>2. t[i + 1] = Step(t[i], i + 1)
    BY <1>9, <2>1
  <2> QED BY <1>2, <1>11, <2>1, <2>2
<1>12. t[n] \in A
  <2>1. \A i \in 0..n : i \in S
    <3> HIDE DEF S
    <3> QED BY <1>1, <1>10, <1>11, BoundedInduction
  <2> QED BY <1>1, <2>1
<1> QED
  BY <1>12 DEF A, t

\* Every command that edits the lexicon keeps its types; a job edits nothing.
LEMMA LexiconStep == LexiconInv /\ JobInv /\ [Next]_vars => LexiconInv'
<1> SUFFICES ASSUME LexiconInv, JobInv, [Next]_vars PROVE LexiconInv'
  OBVIOUS
<1> USE DEF LexiconInv, TypeOK
<1>0. MaxEdits \in Nat
  BY LexiconAssumption
\* A job whose prompt and transcript have their types.
<1> DEFINE JobTyped == /\ job.at \in {"idle", "transcribing", "stored", "refused"}
                       /\ job.rules \subseteq Pool /\ Range(job.prompt) \subseteq Pool
                       /\ job.profile \in Profiles \cup {None}
                       /\ transcript.raw \in Texts
<1>1. ASSUME UNCHANGED <<job, transcript>> PROVE JobTyped'
  BY <1>1
<1>2. ASSUME Edit PROVE edits' \in 0..MaxEdits /\ JobTyped'
  BY <1>0, <1>1, <1>2 DEF Edit
<1>3. ASSUME NEW p \in Profiles, SaveProfile(p) PROVE LexiconInv'
  BY <1>2, <1>3 DEF SaveProfile
<1>4. ASSUME NEW p \in Profiles, DeleteProfile(p) PROVE LexiconInv'
  <2>1. entries' \in SUBSET entries
    BY <1>4 DEF DeleteProfile
  <2>2. IsFiniteSet(entries')
    BY <2>1, FS_Subset
  <2> QED BY <1>2, <1>4, <2>1, <2>2 DEF DeleteProfile
<1>5. ASSUME NEW p \in Profiles \cup {None}, SetActive(p) PROVE LexiconInv'
  BY <1>2, <1>5 DEF SetActive
<1>6. ASSUME NEW e \in Pool, SaveEntry(e) PROVE LexiconInv'
  <2>1. IsFiniteSet(entries')
    BY <1>6, FS_AddElement DEF SaveEntry
  <2> QED BY <1>2, <1>6, <2>1 DEF SaveEntry
<1>7. ASSUME NEW e \in Pool, DeleteEntry(e) PROVE LexiconInv'
  <2>1. IsFiniteSet(entries')
    BY <1>7, FS_Difference DEF DeleteEntry
  <2> QED BY <1>2, <1>7, <2>1 DEF DeleteEntry
<1>8. ASSUME NEW d \in Pool, NEW e \in Pool, Import(<<d, e>>) PROVE LexiconInv'
  <2> DEFINE m == Merged(entries, <<d, e>>)[Len(<<d, e>>)]
  <2>1. <<d, e>> \in Seq(Pool)
    OBVIOUS
  <2>2. m \in SUBSET Pool /\ IsFiniteSet(m)
    BY <2>1, MergedIsFinite
  <2> HIDE DEF m
  <2>3. entries' = entries \cup (m \ entries)
    BY <1>8 DEF Import, m
  <2>4. IsFiniteSet(m \ entries)
    BY <2>2, FS_Difference
  <2>5. IsFiniteSet(entries') /\ entries' \subseteq Pool
    BY <2>2, <2>3, <2>4, FS_Union
  <2> QED BY <1>2, <1>8, <2>5 DEF Import
<1>9. ASSUME Snapshot PROVE LexiconInv'
  <2>1. SelectPromptTerms(entries, active) \in Seq(Pool)
    BY PromptIsRight
  <2>2. Range(SelectPromptTerms(entries, active)) \subseteq Pool
    BY <2>1 DEF Range
  <2> QED BY <1>9, <2>2 DEF Snapshot
<1>10. ASSUME NEW raw \in Texts, Correct(raw) PROVE LexiconInv'
  <2>1. job' = [job EXCEPT !.at = "stored"] \/ job' = [job EXCEPT !.at = "refused"]
    BY <1>10 DEF Correct
  <2>2. transcript'.raw \in Texts
    BY <1>10 DEF Correct
  <2>3. JobTyped'
    BY <2>1, <2>2 DEF JobInv
  <2> QED BY <1>10, <2>3 DEF Correct
<1>11. ASSUME NEW c \in transcript.corrections, Revert(c) PROVE LexiconInv'
  <2>1. transcript'.raw = transcript.raw
    BY <1>11 DEF Revert, JobInv
  <2> QED BY <1>11, <2>1 DEF Revert
<1>12. ASSUME UNCHANGED vars PROVE LexiconInv'
  BY <1>12 DEF vars
<1> QED
  BY <1>3, <1>4, <1>5, <1>6, <1>7, <1>8, <1>9, <1>10, <1>11, <1>12 DEF Next

\* An edit of the lexicon leaves the snapshot of a job and its transcript alone.
LEMMA JobUntouched == JobInv /\ UNCHANGED <<job, transcript>> => JobInv'
BY DEF JobInv, CorrectionsAreExact, Exact, FinalTextMatches, PromptIsBounded

\* lexicon_snapshot: the prompt that select_prompt_terms chooses of the entries in
\* scope keeps the limits and names only them.
LEMMA SnapshotStep == LexiconInv /\ JobInv /\ Snapshot => JobInv'
<1> SUFFICES ASSUME LexiconInv, JobInv, Snapshot PROVE JobInv'
  OBVIOUS
<1> DEFINE terms == SelectPromptTerms(entries, active)
           rules == {e \in entries : AppliesTo(e, active)}
<1>1. entries \in SUBSET Pool /\ IsFiniteSet(entries) /\ active \in Profiles \cup {None}
  BY DEF LexiconInv, TypeOK
<1>2. /\ terms \in Seq(Pool)
      /\ Len(terms) <= MaxPromptTerms /\ Tokens(terms) <= MaxPromptTokens
      /\ \A e \in Range(terms) : e \in entries /\ e.enabled /\ AppliesTo(e, active)
      /\ \A e \in {r \in entries : r.enabled /\ AppliesTo(r, active)} \ Range(terms) :
           \/ Len(terms) = MaxPromptTerms
           \/ Tokens(terms) + EstimateTokens(e.canonical) > MaxPromptTokens
  BY <1>1, PromptIsRight
<1> HIDE DEF terms
<1>3. job' = [at |-> "transcribing", rules |-> rules, profile |-> active, prompt |-> terms]
      /\ UNCHANGED transcript /\ job.at = "idle"
  BY DEF Snapshot, terms
<1>4. rules \in SUBSET Pool /\ IsFiniteSet(rules)
  BY <1>1, FS_Subset
<1>5. /\ job'.rules = rules /\ job'.prompt = terms /\ job'.profile = active
      /\ job'.at = "transcribing"
  BY <1>3
<1>6. PromptIsBounded'
  <2>1. \A e \in Range(terms) : e.enabled /\ e.scope \in {None, active}
    BY <1>2 DEF AppliesTo
  <2>2. \A e \in {r \in rules : r.enabled} \ Range(terms) :
          \/ Len(terms) = MaxPromptTerms
          \/ Tokens(terms) + EstimateTokens(e.canonical) > MaxPromptTokens
    BY <1>2
  <2> HIDE DEF rules
  <2> QED BY <1>2, <1>5, <2>1, <2>2 DEF PromptIsBounded
<1>7. CorrectionsAreExact' /\ FinalTextMatches'
  <2>1. transcript.corrections = {}
    BY <1>3 DEF JobInv
  <2> QED BY <1>3, <1>5, <2>1 DEF JobInv, CorrectionsAreExact, FinalTextMatches
<1>8. job' \in [at : {"idle", "transcribing", "stored", "refused"}, rules : SUBSET Pool,
                prompt : Seq(Pool), profile : Profiles \cup {None}]
  <2> HIDE DEF rules
  <2> QED BY <1>1, <1>2, <1>3, <1>4
<1>9. \A e \in job'.rules : AppliesTo(e, job'.profile)
  BY <1>5
<1> HIDE DEF rules
<1> QED
  BY <1>3, <1>4, <1>5, <1>6, <1>7, <1>8, <1>9 DEF JobInv

\* No correction that has been made is refused: what apply_corrections returns
\* passes the check of TranscriptRepository::save.
LEMMA CorrectStep == ASSUME NEW raw \in Texts PROVE JobInv /\ Correct(raw) => JobInv'
<1> SUFFICES ASSUME JobInv, Correct(raw) PROVE JobInv'
  OBVIOUS
<1> DEFINE result == ApplyCorrections(raw, job.rules)
           made == result.corrections
           check == RenderCorrections(raw, made)
<1>1. raw \in Seq(Chars) /\ job.rules \in SUBSET Pool /\ IsFiniteSet(job.rules)
      /\ job.at = "transcribing"
  BY TextsAreSequences DEF JobInv, Correct
<1>2. /\ RightCorrections(made, raw)
      /\ result.final = Corrected(raw, made)
      /\ \A c \in made :
           /\ ~c.reverted /\ c.entry \in job.rules /\ c.entry.enabled
           /\ IsCandidate([start |-> c.start, end |-> c.end, entry |-> c.entry], raw)
  BY <1>1, ApplyIsRight
<1>3. transcript' = [raw |-> raw, final |-> result.final, corrections |-> made]
      \/ ~(check.ok /\ check.text = result.final)
  BY DEF Correct
<1>4. job' = [job EXCEPT !.at = "stored"] \/ ~(check.ok /\ check.text = result.final)
  BY DEF Correct
<1> HIDE DEF result
<1>5. check = [ok |-> TRUE, text |-> Corrected(raw, made)] /\ Corrected(raw, made) \in Seq(Chars)
  BY <1>1, <1>2, RenderIsRight
<1>6. check.ok /\ check.text = result.final
  <2> HIDE DEF check
  <2> QED BY <1>2, <1>5
<1> HIDE DEF check, made
<1>7. /\ transcript' = [raw |-> raw, final |-> result.final, corrections |-> made]
      /\ job' = [job EXCEPT !.at = "stored"]
  BY <1>3, <1>4, <1>6
<1>8. /\ transcript'.raw = raw /\ transcript'.final = Corrected(raw, made)
      /\ transcript'.corrections = made
  BY <1>2, <1>7
<1>9. /\ job'.at = "stored" /\ job'.rules = job.rules /\ job'.prompt = job.prompt
      /\ job'.profile = job.profile
      /\ job' \in [at : {"idle", "transcribing", "stored", "refused"}, rules : SUBSET Pool,
                   prompt : Seq(Pool), profile : Profiles \cup {None}]
  BY <1>7 DEF JobInv
<1>10. made \in SUBSET CorrectionType
  BY <1>2 DEF RightCorrections
<1>11. transcript' \in [raw : Texts, final : Seq(Chars), corrections : SUBSET CorrectionType]
  BY <1>2, <1>5, <1>7, <1>10
<1>12. FinalTextMatches'
  <2>1. NotReverted(made) = made
    BY <1>2 DEF NotReverted
  <2> QED BY <1>8, <1>9, <2>1 DEF FinalTextMatches
<1>13. PromptIsBounded'
  <2>1. PromptIsBounded
    BY DEF JobInv
  <2> QED BY <1>9, <2>1 DEF PromptIsBounded
<1>14. CorrectionsAreExact'
  <2>1. ASSUME NEW c \in made
        PROVE  /\ c.original = SubSeq(raw, c.start + 1, c.end)
               /\ c.start \in Boundaries(raw) /\ c.end \in Boundaries(raw)
               /\ IF c.entry.mode = "sensitive" THEN c.original = c.entry.variant
                  ELSE FoldText(c.original) = FoldText(c.entry.variant)
               /\ c.entry \in job.rules /\ c.entry.enabled /\ c.entry.scope \in {None, job.profile}
    <3>1. c.original = SubSeq(raw, c.start + 1, c.end)
      BY <1>2 DEF RightCorrections
    <3>2. c.entry \in job.rules /\ c.entry.enabled /\ c.entry.scope \in {None, job.profile}
      BY <1>2 DEF JobInv, AppliesTo
    <3>3. IsCandidate([start |-> c.start, end |-> c.end, entry |-> c.entry], raw)
      BY <1>2
    <3> DEFINE d == [start |-> c.start, end |-> c.end, entry |-> c.entry]
    <3>4. d.start = c.start /\ d.end = c.end /\ d.entry = c.entry /\ IsCandidate(d, raw)
      BY <3>3
    <3> HIDE DEF d
    <3> QED BY <3>1, <3>2, <3>4 DEF IsCandidate
  <2>2. \A c, d \in made : c # d => c.end <= d.start \/ d.end <= c.start
    BY <1>2 DEF RightCorrections
  <2>3. \A c \in made : \A d \in made \ {c} : c.end <= d.start \/ d.end <= c.start
    BY <2>2
  <2> QED BY <1>8, <1>9, <2>1, <2>3 DEF CorrectionsAreExact, Exact
<1> QED
  BY <1>2, <1>8, <1>9, <1>11, <1>12, <1>13, <1>14 DEF JobInv

\* revert_correction in any order and any number: the text is rebuilt from what is
\* left, which never fails.
LEMMA RevertStep ==
    ASSUME NEW c \in transcript.corrections
    PROVE  JobInv /\ Revert(c) => JobInv'
<1> SUFFICES ASSUME JobInv, Revert(c) PROVE JobInv'
  OBVIOUS
<1> DEFINE raw == transcript.raw
           old == transcript.corrections
           m == [c EXCEPT !.reverted = TRUE]
           all == (old \ {c}) \cup {m}
           left == NotReverted(all)
           rendered == RenderCorrections(raw, left)
<1>1. raw \in Texts /\ raw \in Seq(Chars) /\ RightCorrections(old, raw) /\ job.at = "stored"
  BY TextsAreSequences DEF JobInv, Revert
<1>2. RightCorrections(all, raw)
  BY <1>1, MarkedAreRight
<1>3. left \in SUBSET all
  BY DEF NotReverted
<1>4. c \in CorrectionType
  BY <1>1 DEF RightCorrections
<1>5. /\ m.start = c.start /\ m.end = c.end /\ m.entry = c.entry /\ m.original = c.original
      /\ m \in CorrectionType /\ m.reverted
  BY <1>4 DEF CorrectionType
<1>6. IF rendered.ok
      THEN transcript' = [transcript EXCEPT !.corrections = all, !.final = rendered.text]
      ELSE UNCHANGED transcript
  BY DEF Revert
<1>7. UNCHANGED job
  BY DEF Revert
<1>8. \A d \in all : d = m \/ d \in old
  OBVIOUS
<1> HIDE DEF m, all, left
<1>9. RightCorrections(left, raw)
  BY <1>2, <1>3, SomeAreRight
<1>10. /\ rendered = [ok |-> TRUE, text |-> Corrected(raw, left)]
       /\ Corrected(raw, left) \in Seq(Chars)
  BY <1>1, <1>9, RenderIsRight
<1> HIDE DEF rendered
<1>11. transcript' = [transcript EXCEPT !.corrections = all, !.final = Corrected(raw, left)]
  BY <1>6, <1>10
<1>12. all \in SUBSET CorrectionType
  BY <1>2 DEF RightCorrections
<1>13. /\ transcript'.raw = raw /\ transcript'.corrections = all
       /\ transcript'.final = Corrected(raw, left)
       /\ transcript' \in [raw : Texts, final : Seq(Chars), corrections : SUBSET CorrectionType]
  BY <1>10, <1>11, <1>12 DEF JobInv
<1> HIDE DEF raw
<1>14. FinalTextMatches'
  BY <1>1, <1>7, <1>13 DEF FinalTextMatches, left
<1>15. PromptIsBounded'
  <2>1. PromptIsBounded
    BY DEF JobInv
  <2> QED BY <1>7, <2>1 DEF PromptIsBounded
<1>16. CorrectionsAreExact'
  <2>1. \A d \in old : /\ {d.start, d.end} \subseteq Boundaries(raw)
                       /\ IF d.entry.mode = "sensitive" THEN d.original = d.entry.variant
                          ELSE FoldText(d.original) = FoldText(d.entry.variant)
                       /\ d.entry \in job.rules /\ d.entry.enabled /\ d.entry.scope \in {None, job.profile}
                       /\ d.original = SubSeq(raw, d.start + 1, d.end)
    BY DEF JobInv, CorrectionsAreExact, Exact, raw
  <2>2. \A d \in all : /\ {d.start, d.end} \subseteq Boundaries(raw)
                       /\ IF d.entry.mode = "sensitive" THEN d.original = d.entry.variant
                          ELSE FoldText(d.original) = FoldText(d.entry.variant)
                       /\ d.entry \in job.rules /\ d.entry.enabled /\ d.entry.scope \in {None, job.profile}
                       /\ d.original = SubSeq(raw, d.start + 1, d.end)
    <3> SUFFICES ASSUME NEW d \in all
                 PROVE  /\ {d.start, d.end} \subseteq Boundaries(raw)
                        /\ IF d.entry.mode = "sensitive" THEN d.original = d.entry.variant
                           ELSE FoldText(d.original) = FoldText(d.entry.variant)
                        /\ d.entry \in job.rules /\ d.entry.enabled /\ d.entry.scope \in {None, job.profile}
                        /\ d.original = SubSeq(raw, d.start + 1, d.end)
      OBVIOUS
    <3>1. PICK b \in old : d.start = b.start /\ d.end = b.end /\ d.entry = b.entry
                           /\ d.original = b.original
      BY <1>5, <1>8
    <3> QED BY <2>1, <3>1
  <2>3. \A d \in all : \A b \in all \ {d} : d.end <= b.start \/ b.end <= d.start
    BY <1>2 DEF RightCorrections
  <2> QED BY <1>7, <1>13, <2>2, <2>3 DEF CorrectionsAreExact, Exact
<1> QED
  BY <1>1, <1>2, <1>7, <1>13, <1>14, <1>15, <1>16 DEF JobInv

\* Every step of Next, by the lemma of its command.
LEMMA JobStep == LexiconInv /\ JobInv /\ [Next]_vars => JobInv'
<1> SUFFICES ASSUME LexiconInv, JobInv, [Next]_vars PROVE JobInv'
  OBVIOUS
<1>1. CASE Edit
  BY <1>1, JobUntouched DEF Edit
<1>2. CASE Snapshot
  BY <1>2, SnapshotStep
<1>3. CASE \E raw \in Texts : Correct(raw)
  BY <1>3, CorrectStep
<1>4. CASE \E c \in transcript.corrections : Revert(c)
  BY <1>4, RevertStep
<1>5. CASE UNCHANGED vars
  BY <1>5, JobUntouched DEF vars
<1> QED
  BY <1>1, <1>2, <1>3, <1>4, <1>5
  DEF Next, SaveProfile, DeleteProfile, SetActive, SaveEntry, DeleteEntry, Import

\* The invariant of the lexicon and of the job holds whatever the user edits, in any
\* order with the steps of the job, for every set of characters, folding, rules and
\* limits.
THEOREM LexiconInvariance == Spec => [](LexiconInv /\ JobInv)
<1>1. Init => LexiconInv /\ JobInv
  BY InvInit
<1>2. LexiconInv /\ JobInv /\ [Next]_vars => (LexiconInv /\ JobInv)'
  BY LexiconStep, JobStep
<1> QED
  BY <1>1, <1>2, PTL DEF Spec

\* apply_corrections and revert_correction: every stored correction replaces whole
\* words whose text is the variant of an enabled rule in scope, and no two overlap,
\* for every raw text and every lexicon.
THEOREM ExactCorrections == Spec => []CorrectionsAreExact
<1>1. JobInv => CorrectionsAreExact
  BY DEF JobInv
<1> QED
  BY <1>1, LexiconInvariance, PTL

\* TranscriptRepository::save never refuses what apply_corrections made, and after
\* any reverts the final text is the raw text with the remaining corrections in place.
THEOREM FinalText == Spec => []FinalTextMatches
<1>1. JobInv => FinalTextMatches
  BY DEF JobInv
<1> QED
  BY <1>1, LexiconInvariance, PTL

\* select_prompt_terms keeps both limits, names only enabled entries in scope and
\* leaves none out that would still fit.
THEOREM BoundedPrompt == Spec => []PromptIsBounded
<1>1. JobInv => PromptIsBounded
  BY DEF JobInv
<1> QED
  BY <1>1, LexiconInvariance, PTL
=============================================================================
