----------------------------- MODULE DataLemmas ------------------------------
(***************************************************************************)
(* What the provers have to know about the data the models compute with:   *)
(* Filter of module Lists and SumFunction of the community modules, both   *)
(* recursive functions.  Induction is by the least counterexample: a set   *)
(* of naturals, or of finite sets, that is not empty has a minimal element *)
(* (WFMin).                                                                *)
(***************************************************************************)
EXTENDS Lists, FiniteSetsExt, FiniteSetTheorems, SequenceTheorems,
        WellFoundedInduction, TLAPS

\* A non-empty set of naturals has a least element.
LEMMA LeastNatural ==
    ASSUME NEW T, T \subseteq Nat, T # {}
    PROVE  \E n \in T : \A m \in T : n <= m
<1> DEFINE R == OpToRel(<, Nat)
<1>1. IsWellFoundedOn(R, Nat)
  BY NatLessThanWellFounded
<1>2. PICK n \in T : \A m \in T : ~(<<m, n>> \in R)
  <2> HIDE DEF R
  <2> QED BY <1>1, WFMin
<1>3. \A m \in T : ~(m < n)
  BY <1>2 DEF OpToRel
<1> QED BY <1>3

\* Induction up to n, for a set in place of a predicate.
LEMMA UpTo ==
    ASSUME NEW n \in Nat, NEW T, 0 \in T, \A i \in 0..(n - 1) : i \in T => i + 1 \in T
    PROVE  \A i \in 0..n : i \in T
<1> DEFINE U == { i \in 0..n : i \notin T }
<1> SUFFICES ASSUME U # {} PROVE FALSE
  OBVIOUS
<1>1. U \subseteq Nat
  OBVIOUS
<1>2. PICK i \in U : \A m \in U : i <= m
  BY <1>1, LeastNatural
<1>3. i # 0 /\ i - 1 \in 0..(n - 1) /\ i - 1 \notin U
  BY <1>2
<1>4. i - 1 \in T
  BY <1>3
<1>5. (i - 1) + 1 \in T
  BY <1>3, <1>4
<1> QED BY <1>2, <1>5

(***************************************************************************)
(* Filter.                                                                 *)
(***************************************************************************)
Kept(s, S) ==
    CHOOSE f : f = [i \in 0..Len(s) |->
                      IF i = 0 THEN <<>>
                      ELSE IF s[i] \in S THEN Append(f[i - 1], s[i]) ELSE f[i - 1]]

Recurs(f, n, s, S) ==
    f = [i \in 0..n |-> IF i = 0 THEN <<>>
                        ELSE IF s[i] \in S THEN Append(f[i - 1], s[i]) ELSE f[i - 1]]

\* The recursion that defines Filter has a solution.
LEMMA FilterRecursion ==
    ASSUME NEW X, NEW s \in Seq(X), NEW S
    PROVE  /\ Filter(s, S) = Kept(s, S)[Len(s)]
           /\ Recurs(Kept(s, S), Len(s), s, S)
<1>1. Filter(s, S) = Kept(s, S)[Len(s)]
  BY DEF Filter, Kept
<1>2. \E f : Recurs(f, Len(s), s, S)
  <2> DEFINE T == { n \in Nat : ~\E f : Recurs(f, n, s, S) }
  <2>1. T = {}
    <3> SUFFICES ASSUME T # {} PROVE FALSE
      OBVIOUS
    <3>1. PICK n \in T : \A m \in T : n <= m
      BY LeastNatural
    <3>2. CASE n = 0
      <4> DEFINE f == [i \in 0..0 |-> <<>>]
      <4>1. Recurs(f, 0, s, S)
        BY DEF Recurs
      <4> QED BY <4>1, <3>1, <3>2
    <3>3. CASE n # 0
      <4>1. n - 1 \in Nat /\ n - 1 \notin T
        BY <3>1, <3>3
      <4>2. PICK g : Recurs(g, n - 1, s, S)
        BY <4>1
      <4> DEFINE f == [i \in 0..n |->
                         IF i < n THEN g[i]
                         ELSE IF s[n] \in S THEN Append(g[n - 1], s[n]) ELSE g[n - 1]]
      <4> DEFINE rhs(i) == IF i = 0 THEN <<>>
                           ELSE IF s[i] \in S THEN Append(f[i - 1], s[i]) ELSE f[i - 1]
      <4>a. n \in Nat
        BY <3>1
      <4>b. \A i \in 0..(n - 1) :
               g[i] = IF i = 0 THEN <<>>
                      ELSE IF s[i] \in S THEN Append(g[i - 1], s[i]) ELSE g[i - 1]
        BY <4>a, <4>1, <4>2 DEF Recurs
      <4>c. \A i \in 0..(n - 1) : f[i] = g[i]
        BY <4>a
      <4>d. ASSUME NEW i \in 0..n PROVE f[i] = rhs(i)
        <5>1. CASE i = 0
          BY <4>a, <4>b, <4>c, <5>1, <3>3
        <5>2. CASE i # 0 /\ i < n
          <6>1. i \in 0..(n - 1) /\ i - 1 \in 0..(n - 1)
            BY <4>a, <5>2
          <6> HIDE DEF f
          <6> QED BY <6>1, <5>2, <4>b, <4>c
        <5>3. CASE i = n
          <6>1. n - 1 \in 0..(n - 1) /\ ~(n < n)
            BY <4>a, <3>3
          <6> QED BY <6>1, <5>3, <3>3, <4>a
        <5> QED BY <5>1, <5>2, <5>3, <4>a
      <4>e. f = [i \in 0..n |-> f[i]]
        OBVIOUS
      <4>3. Recurs(f, n, s, S)
        <5> HIDE DEF f
        <5> QED BY <4>d, <4>e DEF Recurs
      <4> QED BY <4>3, <3>1
    <3> QED BY <3>2, <3>3
  <2>2. Len(s) \in Nat
    OBVIOUS
  <2> QED BY <2>1, <2>2
<1>3. Recurs(Kept(s, S), Len(s), s, S)
  BY <1>2 DEF Kept, Recurs
<1> QED BY <1>1, <1>3

\* The recursion, equation by equation.
LEMMA KeptSteps ==
    ASSUME NEW X, NEW s \in Seq(X), NEW S
    PROVE  /\ Kept(s, S)[0] = <<>>
           /\ \A i \in 0..(Len(s) - 1) :
                 Kept(s, S)[i + 1] = IF s[i + 1] \in S THEN Append(Kept(s, S)[i], s[i + 1])
                                     ELSE Kept(s, S)[i]
<1> DEFINE f == Kept(s, S)
<1>1. Len(s) \in Nat
  OBVIOUS
<1>2. f = [i \in 0..Len(s) |-> IF i = 0 THEN <<>>
                              ELSE IF s[i] \in S THEN Append(f[i - 1], s[i]) ELSE f[i - 1]]
  BY FilterRecursion DEF Recurs
<1> HIDE DEF f
<1>3. f[0] = <<>>
  BY <1>1, <1>2
<1>4. ASSUME NEW i \in 0..(Len(s) - 1)
      PROVE  f[i + 1] = IF s[i + 1] \in S THEN Append(f[i], s[i + 1]) ELSE f[i]
  <2>1. i + 1 \in 0..Len(s) /\ i + 1 # 0 /\ (i + 1) - 1 = i
    BY <1>1
  <2> QED BY <1>2, <2>1
<1> QED BY <1>3, <1>4 DEF f

\* t is what is left of the first n elements of s: h says where each one stood.
Embeds(h, t, n, s, S) ==
    /\ h \in [1..Len(t) -> 1..n]
    /\ \A k \in 1..Len(t) : t[k] = s[h[k]] /\ t[k] \in S
    /\ \A k, l \in 1..Len(t) : k < l => h[k] < h[l]
    /\ \A j \in 1..n : s[j] \in S => \E k \in 1..Len(t) : h[k] = j

\* Filter keeps exactly the elements of S and their order.
LEMMA FilterEmbeds ==
    ASSUME NEW X, NEW s \in Seq(X), NEW S
    PROVE  /\ Filter(s, S) \in Seq(X)
           /\ \E h : Embeds(h, Filter(s, S), Len(s), s, S)
<1> DEFINE K == Kept(s, S)
           T == { i \in 0..Len(s) : K[i] \in Seq(X) /\ \E h : Embeds(h, K[i], i, s, S) }
<1>1. Len(s) \in Nat
  OBVIOUS
<1>2. 0 \in T
  <2>1. Embeds(<<>>, <<>>, 0, s, S)
    BY DEF Embeds
  <2>2. K[0] = <<>>
    BY KeptSteps
  <2>3. <<>> \in Seq(X) /\ 0 \in 0..Len(s)
    BY <1>1
  <2> HIDE DEF K
  <2> QED BY <2>1, <2>2, <2>3
<1>3. ASSUME NEW i \in 0..(Len(s) - 1), i \in T
      PROVE  i + 1 \in T
  <2>1. PICK h : Embeds(h, K[i], i, s, S)
    BY <1>3
  <2>2. K[i] \in Seq(X) /\ Len(K[i]) \in Nat
    BY <1>3
  <2>3. i \in Nat /\ i + 1 \in 0..Len(s) /\ i + 1 \in 1..Len(s) /\ s[i + 1] \in X
    BY <1>1
  <2>4. CASE s[i + 1] \notin S
    <3>1. K[i + 1] = K[i]
      BY <2>4, KeptSteps
    <3>2. Embeds(h, K[i + 1], i + 1, s, S)
      BY <3>1, <2>1, <2>2, <2>3, <2>4 DEF Embeds
    <3> QED BY <3>1, <3>2, <2>2, <2>3
  <2>5. CASE s[i + 1] \in S
    <3> DEFINE t == K[i]
               u == K[i + 1]
               n == Len(K[i])
               g == [k \in 1..(n + 1) |-> IF k <= n THEN h[k] ELSE i + 1]
    <3>1. u = Append(t, s[i + 1])
      BY <2>5, KeptSteps
    <3> HIDE DEF t, u
    <3>2. /\ u \in Seq(X) /\ Len(u) = n + 1 /\ u[n + 1] = s[i + 1]
          /\ \A k \in 1..n : u[k] = t[k]
      BY <3>1, <2>2, <2>3, AppendProperties DEF t
    <3>3. /\ h \in [1..n -> 1..i]
          /\ \A k \in 1..n : t[k] = s[h[k]] /\ t[k] \in S
          /\ \A k, l \in 1..n : k < l => h[k] < h[l]
          /\ \A j \in 1..i : s[j] \in S => \E k \in 1..n : h[k] = j
      BY <2>1 DEF Embeds, t
    <3>0. n \in Nat
      BY <2>2
    <3> HIDE DEF n
    <3>4. g \in [1..(n + 1) -> 1..(i + 1)]
      BY <3>3, <3>0, <2>3
    <3>5. \A k \in 1..n : g[k] = h[k]
      BY <3>0
    <3>6. g[n + 1] = i + 1
      BY <3>0
    <3> HIDE DEF g
    <3>7. ASSUME NEW k \in 1..(n + 1) PROVE u[k] = s[g[k]] /\ u[k] \in S
      <4>1. CASE k \in 1..n
        BY <4>1, <3>2, <3>3, <3>5
      <4>2. CASE k = n + 1
        BY <4>2, <3>2, <3>6, <2>5
      <4> QED BY <4>1, <4>2, <3>0
    <3>8. ASSUME NEW k \in 1..(n + 1), NEW l \in 1..(n + 1), k < l PROVE g[k] < g[l]
      <4>1. k \in 1..n /\ g[k] = h[k] /\ h[k] \in 1..i
        BY <3>8, <3>0, <3>5, <3>3
      <4>2. CASE l \in 1..n
        BY <4>1, <4>2, <3>8, <3>5, <3>3
      <4>3. CASE l = n + 1
        BY <4>1, <4>3, <3>6, <2>3
      <4> QED BY <4>2, <4>3, <3>0
    <3>9. ASSUME NEW j \in 1..(i + 1), s[j] \in S PROVE \E k \in 1..(n + 1) : g[k] = j
      <4>1. CASE j = i + 1
        BY <4>1, <3>6, <3>0
      <4>2. CASE j \in 1..i
        <5>1. PICK k \in 1..n : h[k] = j
          BY <4>2, <3>9, <3>3
        <5>2. k \in 1..(n + 1) /\ g[k] = j
          BY <5>1, <3>0, <3>5
        <5> QED BY <5>2
      <4> QED BY <4>1, <4>2, <2>3
    <3>10. Embeds(g, u, i + 1, s, S)
      BY <3>2, <3>4, <3>7, <3>8, <3>9 DEF Embeds
    <3> QED BY <3>2, <3>10, <2>3 DEF u
  <2> QED BY <2>4, <2>5
<1> HIDE DEF T
<1>4. \A i \in 0..Len(s) : i \in T
  BY <1>1, <1>2, <1>3, UpTo
<1>5. Len(s) \in T
  BY <1>1, <1>4
<1> QED BY <1>5, FilterRecursion DEF T

\* The elements of Filter(s, S) are those of s that are in S.
LEMMA FilterElements ==
    ASSUME NEW X, NEW s \in Seq(X), NEW S
    PROVE  /\ Filter(s, S) \in Seq(X)
           /\ { Filter(s, S)[k] : k \in DOMAIN Filter(s, S) }
                 = { s[i] : i \in DOMAIN s } \cap S
           /\ (\A i, j \in DOMAIN s : s[i] = s[j] => i = j) =>
                 \A k, l \in DOMAIN Filter(s, S) : Filter(s, S)[k] = Filter(s, S)[l] => k = l
<1> DEFINE t == Filter(s, S)
<1>1. t \in Seq(X) /\ \E h : Embeds(h, t, Len(s), s, S)
  BY FilterEmbeds
<1> HIDE DEF t
<1>2. PICK h : Embeds(h, t, Len(s), s, S)
  BY <1>1
<1>3. DOMAIN t = 1..Len(t) /\ DOMAIN s = 1..Len(s) /\ Len(t) \in Nat /\ Len(s) \in Nat
  BY <1>1
<1>4. ASSUME NEW k \in DOMAIN t PROVE t[k] \in { s[i] : i \in DOMAIN s } /\ t[k] \in S
  <2>1. h[k] \in DOMAIN s /\ t[k] = s[h[k]] /\ t[k] \in S
    BY <1>2, <1>3 DEF Embeds
  <2> QED BY <2>1
<1>5. ASSUME NEW i \in DOMAIN s, s[i] \in S PROVE s[i] \in { t[k] : k \in DOMAIN t }
  <2>1. PICK k \in DOMAIN t : h[k] = i
    BY <1>2, <1>3, <1>5 DEF Embeds
  <2> QED BY <2>1, <1>2, <1>3 DEF Embeds
<1>6. ASSUME \A i, j \in DOMAIN s : s[i] = s[j] => i = j,
             NEW k \in DOMAIN t, NEW l \in DOMAIN t, t[k] = t[l]
      PROVE  k = l
  <2>1. h[k] \in DOMAIN s /\ h[l] \in DOMAIN s /\ s[h[k]] = s[h[l]]
    BY <1>2, <1>3, <1>6 DEF Embeds
  <2>2. h[k] = h[l]
    BY <1>6, <2>1
  <2>3. ~(k < l) /\ ~(l < k)
    BY <1>2, <1>3, <2>1, <2>2 DEF Embeds
  <2> QED BY <2>3, <1>3
<1> QED BY <1>1, <1>4, <1>5, <1>6 DEF t

\* Filter only looks at which elements of s are in S.
LEMMA FilterAgree ==
    ASSUME NEW X, NEW s \in Seq(X), NEW S, NEW U,
           \A i \in DOMAIN s : s[i] \in S <=> s[i] \in U
    PROVE  Filter(s, S) = Filter(s, U)
<1> DEFINE T == { i \in 0..Len(s) : Kept(s, S)[i] = Kept(s, U)[i] }
<1>1. Len(s) \in Nat
  OBVIOUS
<1>2. 0 \in T
  BY <1>1, KeptSteps
<1>3. ASSUME NEW i \in 0..(Len(s) - 1), i \in T
      PROVE  i + 1 \in T
  <2>1. i + 1 \in 0..Len(s) /\ i + 1 \in DOMAIN s
    BY <1>1
  <2>2. Kept(s, S)[i] = Kept(s, U)[i] /\ (s[i + 1] \in S <=> s[i + 1] \in U)
    BY <1>3, <2>1
  <2>3. Kept(s, S)[i + 1] = IF s[i + 1] \in S THEN Append(Kept(s, S)[i], s[i + 1])
                            ELSE Kept(s, S)[i]
    BY KeptSteps
  <2>4. Kept(s, U)[i + 1] = IF s[i + 1] \in U THEN Append(Kept(s, U)[i], s[i + 1])
                            ELSE Kept(s, U)[i]
    BY KeptSteps
  <2> QED BY <2>1, <2>2, <2>3, <2>4
<1> HIDE DEF T
<1>4. \A i \in 0..Len(s) : i \in T
  BY <1>1, <1>2, <1>3, UpTo
<1>5. Len(s) \in T
  BY <1>1, <1>4
<1>6. Filter(s, S) = Kept(s, S)[Len(s)] /\ Filter(s, U) = Kept(s, U)[Len(s)]
  BY FilterRecursion
<1> QED BY <1>5, <1>6 DEF T

\* An element is kept or dropped where it is appended.
LEMMA FilterAppend ==
    ASSUME NEW X, NEW s \in Seq(X), NEW x \in X, NEW S
    PROVE  Filter(Append(s, x), S) = IF x \in S THEN Append(Filter(s, S), x)
                                     ELSE Filter(s, S)
<1> DEFINE u == Append(s, x)
           n == Len(s)
           T == { i \in 0..n : Kept(u, S)[i] = Kept(s, S)[i] }
<1>1. n \in Nat /\ u \in Seq(X) /\ Len(u) = n + 1 /\ u[n + 1] = x
      /\ \A i \in 1..n : u[i] = s[i]
  BY AppendProperties
<1> HIDE DEF u
<1>2. 0 \in T
  <2>1. Kept(u, S)[0] = <<>> /\ Kept(s, S)[0] = <<>>
    BY <1>1, KeptSteps
  <2> QED BY <1>1, <2>1
<1>3. ASSUME NEW i \in 0..(n - 1), i \in T
      PROVE  i + 1 \in T
  <2>1. i + 1 \in 0..n /\ i + 1 \in 1..n /\ i \in 0..(Len(u) - 1)
    BY <1>1
  <2>2. Kept(u, S)[i] = Kept(s, S)[i] /\ u[i + 1] = s[i + 1]
    BY <1>1, <1>3, <2>1
  <2>3. Kept(s, S)[i + 1] = IF s[i + 1] \in S THEN Append(Kept(s, S)[i], s[i + 1])
                            ELSE Kept(s, S)[i]
    BY KeptSteps
  <2>4. Kept(u, S)[i + 1] = IF u[i + 1] \in S THEN Append(Kept(u, S)[i], u[i + 1])
                            ELSE Kept(u, S)[i]
    BY <1>1, <2>1, KeptSteps
  <2> QED BY <2>1, <2>2, <2>3, <2>4
<1> HIDE DEF T
<1>4. \A i \in 0..n : i \in T
  BY <1>1, <1>2, <1>3, UpTo
<1>5. Kept(u, S)[n] = Kept(s, S)[n]
  <2>1. n \in 0..n
    BY <1>1
  <2>2. n \in T
    BY <1>4, <2>1
  <2> QED BY <2>2 DEF T
<1>6. Filter(s, S) = Kept(s, S)[n] /\ Filter(u, S) = Kept(u, S)[n + 1]
  BY <1>1, FilterRecursion
<1>7. Kept(u, S)[n + 1] = IF u[n + 1] \in S THEN Append(Kept(u, S)[n], u[n + 1])
                          ELSE Kept(u, S)[n]
  <2>1. n \in 0..(Len(u) - 1)
    BY <1>1
  <2> QED BY <2>1, <1>1, KeptSteps
<1> QED BY <1>1, <1>5, <1>6, <1>7 DEF u

\* Filter of a filtered sequence.
LEMMA FilterTwice ==
    ASSUME NEW X, NEW s \in Seq(X), NEW S, NEW U
    PROVE  Filter(Filter(s, S), U) = Filter(s, S \cap U)
<1> DEFINE K == Kept(s, S)
           J == Kept(s, S \cap U)
           T == { i \in 0..Len(s) : K[i] \in Seq(X) /\ Filter(K[i], U) = J[i] }
<1>1. Len(s) \in Nat
  OBVIOUS
<1>2. 0 \in T
  <2>1. K[0] = <<>> /\ J[0] = <<>>
    BY KeptSteps
  <2>2. Filter(<<>>, U) = <<>>
    <3>1. <<>> \in Seq(X) /\ Len(<<>>) = 0
      OBVIOUS
    <3>2. Filter(<<>>, U) = Kept(<<>>, U)[Len(<<>>)]
      BY <3>1, FilterRecursion
    <3>3. Kept(<<>>, U)[0] = <<>>
      BY <3>1, KeptSteps
    <3> QED BY <3>1, <3>2, <3>3
  <2>3. <<>> \in Seq(X) /\ 0 \in 0..Len(s)
    BY <1>1
  <2> HIDE DEF K, J
  <2> QED BY <2>1, <2>2, <2>3
<1>3. ASSUME NEW i \in 0..(Len(s) - 1), i \in T
      PROVE  i + 1 \in T
  <2>1. i + 1 \in 0..Len(s) /\ s[i + 1] \in X
    BY <1>1
  <2>2. K[i + 1] = IF s[i + 1] \in S THEN Append(K[i], s[i + 1]) ELSE K[i]
    BY KeptSteps
  <2>3. J[i + 1] = IF s[i + 1] \in S \cap U THEN Append(J[i], s[i + 1]) ELSE J[i]
    BY KeptSteps
  <2> HIDE DEF K, J
  <2>4. K[i] \in Seq(X) /\ Filter(K[i], U) = J[i]
    BY <1>3
  <2>5. Filter(Append(K[i], s[i + 1]), U)
           = IF s[i + 1] \in U THEN Append(Filter(K[i], U), s[i + 1]) ELSE Filter(K[i], U)
    <3> DEFINE k == K[i]
               e == s[i + 1]
    <3>1. k \in Seq(X) /\ e \in X
      BY <2>1, <2>4
    <3> HIDE DEF k, e, T
    <3>2. Filter(Append(k, e), U) = IF e \in U THEN Append(Filter(k, U), e) ELSE Filter(k, U)
      BY <3>1, FilterAppend
    <3> QED BY <3>2 DEF k, e
  <2>6. K[i + 1] \in Seq(X)
    BY <2>1, <2>2, <2>4
  <2>7. Filter(K[i + 1], U) = J[i + 1]
    <3>1. CASE s[i + 1] \notin S
      BY <3>1, <2>2, <2>3, <2>4
    <3>2. CASE s[i + 1] \in S /\ s[i + 1] \in U
      BY <3>2, <2>2, <2>3, <2>4, <2>5
    <3>3. CASE s[i + 1] \in S /\ s[i + 1] \notin U
      BY <3>3, <2>2, <2>3, <2>4, <2>5
    <3> QED BY <3>1, <3>2, <3>3
  <2> QED BY <2>1, <2>6, <2>7
<1> HIDE DEF T
<1>4. \A i \in 0..Len(s) : i \in T
  BY <1>1, <1>2, <1>3, UpTo
<1>5. Len(s) \in T
  BY <1>1, <1>4
<1>6. Filter(s, S) = K[Len(s)] /\ Filter(s, S \cap U) = J[Len(s)]
  BY FilterRecursion
<1> HIDE DEF K, J
<1> QED BY <1>5, <1>6 DEF T

(***************************************************************************)
(* Sums.  The sum of naturals f[x] is the number of cells <<x, i>> with i  *)
(* in 1..f[x]; that gives the recursion of SumFunction a solution, and the *)
(* laws of sums are laws of cardinality.                                   *)
(***************************************************************************)
\* Induction over the subsets of a finite set, for a set in place of a predicate.
LEMMA SubsetInduction ==
    ASSUME NEW D, IsFiniteSet(D), NEW T, {} \in T,
           \A s \in SUBSET D : s # {} /\ (\A x \in s : s \ {x} \in T) => s \in T
    PROVE  \A s \in SUBSET D : s \in T
<1> DEFINE U == { s \in SUBSET D : s \notin T }
           R == StrictSubsetOrdering(D)
<1> SUFFICES ASSUME U # {} PROVE FALSE
  OBVIOUS
<1>1. IsWellFoundedOn(R, SUBSET D)
  BY FS_StrictSubsetOrderingWellFounded, FS_FiniteSubsetsOfFinite
<1>2. U \subseteq SUBSET D
  OBVIOUS
<1>3. PICK s \in U : \A y \in U : ~(<<y, s>> \in R)
  <2> HIDE DEF R, U
  <2> QED BY <1>1, <1>2, WFMin
<1>4. s # {} /\ s \in SUBSET D /\ s \notin T
  OBVIOUS
<1>5. ASSUME NEW x \in s PROVE s \ {x} \in T
  <2>1. <<s \ {x}, s>> \in R
    BY <1>4 DEF StrictSubsetOrdering
  <2> QED BY <1>3, <1>4, <2>1
<1> QED BY <1>4, <1>5

Cells(f, s) == { p \in s \X (Nat \ {0}) : p[2] <= f[p[1]] }

\* The cells of a set are those of one element and those of the rest.
LEMMA CellsSplit ==
    ASSUME NEW D, NEW f \in [D -> Nat], NEW s \in SUBSET D, NEW x \in s,
           IsFiniteSet(Cells(f, s \ {x}))
    PROVE  /\ IsFiniteSet(Cells(f, s))
           /\ Cardinality(Cells(f, s)) = f[x] + Cardinality(Cells(f, s \ {x}))
<1> DEFINE a == {x} \X (1..f[x])
           b == Cells(f, s \ {x})
<1>1. f[x] \in Nat
  OBVIOUS
<1>2. IsFiniteSet(a) /\ Cardinality(a) = f[x]
  <2>1. IsFiniteSet({x}) /\ Cardinality({x}) = 1
    BY FS_Singleton
  <2>2. IsFiniteSet(1..f[x]) /\ Cardinality(1..f[x]) = f[x]
    BY <1>1, FS_Interval
  <2>3. IsFiniteSet(a) /\ Cardinality(a) = Cardinality({x}) * Cardinality(1..f[x])
    BY <2>1, <2>2, FS_Product
  <2> QED BY <1>1, <2>1, <2>2, <2>3
<1>3. Cells(f, s) = a \cup b
  BY <1>1 DEF Cells
<1>4. a \cap b = {}
  BY DEF Cells
<1>5. Cardinality(a \cap b) = 0
  BY <1>4, FS_EmptySet
<1>6. /\ IsFiniteSet(a \cup b)
      /\ Cardinality(a \cup b) = Cardinality(a) + Cardinality(b) - Cardinality(a \cap b)
  <2> HIDE DEF a, b
  <2> QED BY <1>2, FS_Union DEF b
<1>7. Cardinality(b) \in Nat
  BY FS_CardinalityType
<1> HIDE DEF a, b
<1> QED BY <1>1, <1>2, <1>3, <1>5, <1>6, <1>7 DEF b

LEMMA CellsFinite ==
    ASSUME NEW D, IsFiniteSet(D), NEW f \in [D -> Nat]
    PROVE  \A s \in SUBSET D : IsFiniteSet(Cells(f, s))
<1> DEFINE T == { s \in SUBSET D : IsFiniteSet(Cells(f, s)) }
<1>1. {} \in T
  <2>1. Cells(f, {}) = {}
    BY DEF Cells
  <2> QED BY <2>1, FS_EmptySet
<1>2. ASSUME NEW s \in SUBSET D, s # {}, \A x \in s : s \ {x} \in T PROVE s \in T
  <2>1. PICK x \in s : s \ {x} \in T
    BY <1>2
  <2> QED BY <2>1, CellsSplit
<1> HIDE DEF T
<1>3. \A s \in SUBSET D : s \in T
  BY <1>1, <1>2, SubsetInduction
<1> QED BY <1>3 DEF T

SumRecurs(g, f) ==
    g = [s \in SUBSET DOMAIN f |->
           IF s = {} THEN 0 ELSE LET x == CHOOSE y \in s : TRUE IN f[x] + g[s \ {x}]]

\* A sum of naturals is a number of cells.
LEMMA SumIsCells ==
    ASSUME NEW D, IsFiniteSet(D), NEW f \in [D -> Nat]
    PROVE  SumFunction(f) = Cardinality(Cells(f, D))
<1> DEFINE iter == CHOOSE g : SumRecurs(g, f)
           c == [s \in SUBSET D |-> Cardinality(Cells(f, s))]
<1>1. SumFunction(f) = iter[D]
  <2>1. DOMAIN f = D
    OBVIOUS
  <2> QED BY <2>1 DEF SumFunction, SumFunctionOnSet, FoldFunctionOnSet, MapThenFoldSet, SumRecurs
<1>2. c[{}] = 0
  <2>1. Cells(f, {}) = {}
    BY DEF Cells
  <2> QED BY <2>1, FS_EmptySet
<1>3. \A s \in SUBSET D : \A x \in s : c[s] = f[x] + c[s \ {x}]
  <2> SUFFICES ASSUME NEW s \in SUBSET D, NEW x \in s PROVE c[s] = f[x] + c[s \ {x}]
    OBVIOUS
  <2>1. s \ {x} \in SUBSET D
    OBVIOUS
  <2>2. IsFiniteSet(Cells(f, s \ {x}))
    BY <2>1, CellsFinite
  <2>3. Cardinality(Cells(f, s)) = f[x] + Cardinality(Cells(f, s \ {x}))
    BY <2>2, CellsSplit
  <2> QED BY <2>1, <2>3
<1>4. SumRecurs(c, f)
  <2>1. c = [s \in SUBSET D |-> c[s]]
    OBVIOUS
  <2>2. ASSUME NEW s \in SUBSET D
        PROVE  c[s] = IF s = {} THEN 0 ELSE LET x == CHOOSE y \in s : TRUE IN f[x] + c[s \ {x}]
    BY <1>2, <1>3
  <2> HIDE DEF c
  <2> QED BY <2>1, <2>2 DEF SumRecurs
<1>5. SumRecurs(iter, f)
  BY <1>4
<1> HIDE DEF iter, c
<1> DEFINE T == { s \in SUBSET D : iter[s] = c[s] }
<1>6. iter[{}] = 0 /\ \A s \in SUBSET D : s # {} => \E x \in s : iter[s] = f[x] + iter[s \ {x}]
  <2>1. iter = [s \in SUBSET D |-> IF s = {} THEN 0
                  ELSE LET x == CHOOSE y \in s : TRUE IN f[x] + iter[s \ {x}]]
    BY <1>5 DEF SumRecurs
  <2>2. iter[{}] = 0
    BY <2>1
  <2>3. ASSUME NEW s \in SUBSET D, s # {} PROVE \E x \in s : iter[s] = f[x] + iter[s \ {x}]
    <3> DEFINE x == CHOOSE y \in s : TRUE
    <3>1. x \in s
      BY <2>3
    <3>2. iter[s] = f[x] + iter[s \ {x}]
      BY <2>1, <2>3
    <3> HIDE DEF x
    <3> QED BY <3>1, <3>2
  <2> QED BY <2>2, <2>3
<1>7. {} \in T
  BY <1>2, <1>6
<1>8. ASSUME NEW s \in SUBSET D, s # {}, \A x \in s : s \ {x} \in T PROVE s \in T
  <2>1. PICK x \in s : iter[s] = f[x] + iter[s \ {x}]
    BY <1>6, <1>8
  <2>2. iter[s \ {x}] = c[s \ {x}]
    BY <1>8
  <2> QED BY <2>1, <2>2, <1>3
<1> HIDE DEF T
<1>9. \A s \in SUBSET D : s \in T
  BY <1>7, <1>8, SubsetInduction
<1>10. iter[D] = c[D]
  BY <1>9 DEF T
<1> QED BY <1>1, <1>10 DEF c

LEMMA SumNat ==
    ASSUME NEW D, IsFiniteSet(D), NEW f \in [D -> Nat]
    PROVE  SumFunction(f) \in Nat
<1>1. IsFiniteSet(Cells(f, D))
  BY CellsFinite
<1> QED BY <1>1, SumIsCells, FS_CardinalityType

LEMMA SumZero ==
    ASSUME NEW D, IsFiniteSet(D), NEW f \in [D -> Nat], \A x \in D : f[x] = 0
    PROVE  SumFunction(f) = 0
<1>1. Cells(f, D) = {}
  BY DEF Cells
<1> QED BY <1>1, SumIsCells, FS_EmptySet
==============================================================================
