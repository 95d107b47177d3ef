--------------------------- MODULE SiftingProofs ----------------------------
(***************************************************************************)
(* What Sift returns, for every sequence: an induction over data, carried  *)
(* out by way of a least counterexample, with a set in the place of the    *)
(* predicate that an induction theorem would take.                         *)
(***************************************************************************)
EXTENDS Sifting, WellFoundedInduction, TLAPS

Less == {p \in Nat \X Nat : p[1] < p[2]}

LEMMA LessIsWellFounded == IsWellFoundedOn(Less, Nat)
  BY NatLessThanWellFounded, Zenon DEF OpToRel, Less

\* A set of numbers that is not empty has a least one.
LEMMA LeastOfSet ==
    ASSUME NEW T, T \subseteq Nat, T # {}
    PROVE  \E x \in T : \A y \in T : x <= y
<1>1. PICK x \in T : \A y \in T : ~ (<<y, x>> \in Less)
  BY LessIsWellFounded, WFMin
<1>2. \A y \in T : y < x => <<y, x>> \in Less
  BY DEF Less
<1>3. ASSUME NEW y \in T PROVE x <= y
  <2>1. x \in Nat /\ y \in Nat /\ ~ (y < x)
    BY <1>1, <1>2, Zenon
  <2> QED
    BY <2>1
<1> QED
  BY <1>3

\* A set that holds 0 and, with a number, its successor holds every number.
LEMMA Induction ==
    ASSUME NEW T, 0 \in T, \A n \in Nat : n \in T => n + 1 \in T
    PROVE  Nat \subseteq T
<1> SUFFICES ASSUME Nat \ T # {} PROVE FALSE
  OBVIOUS
<1>1. PICK x \in Nat \ T : \A y \in Nat \ T : x <= y
  <2>1. Nat \ T \subseteq Nat
    OBVIOUS
  <2> QED
    BY <2>1, LeastOfSet
<1>2. x - 1 \in T /\ x - 1 \in Nat
  BY <1>1
<1>3. (x - 1) + 1 \in T
  BY <1>2
<1> QED
  BY <1>1, <1>3

\* The same of sequences and Append.
LEMMA SeqInduction ==
    ASSUME NEW T, NEW P, <<>> \in P,
           \A s \in Seq(T), x \in T : s \in P => Append(s, x) \in P
    PROVE  Seq(T) \subseteq P
<1> DEFINE N == {n \in Nat : \A s \in Seq(T) : Len(s) = n => s \in P}
<1>1. 0 \in N
  OBVIOUS
<1>2. ASSUME NEW n \in Nat, n \in N PROVE n + 1 \in N
  <2> SUFFICES ASSUME NEW s \in Seq(T), Len(s) = n + 1 PROVE s \in P
    OBVIOUS
  <2> DEFINE r == SubSeq(s, 1, n)
  <2>1. r \in Seq(T) /\ Len(r) = n /\ s[n + 1] \in T
    OBVIOUS
  <2>2. s = Append(r, s[n + 1])
    OBVIOUS
  <2>3. r \in P
    BY <2>1, <1>2
  <2> HIDE DEF r
  <2> QED
    BY <2>1, <2>2, <2>3
<1>3. Nat \subseteq N
  <2> HIDE DEF N
  <2> QED
    BY <1>1, <1>2, Induction
<1> QED
  BY <1>3

-----------------------------------------------------------------------------
\* f holds the sifted prefixes of s up to the length n.
IsKept(f, s, S, n) ==
    f = [i \in 0 .. n |-> IF i = 0 THEN <<>>
                          ELSE IF s[i] \in S THEN Append(f[i - 1], s[i]) ELSE f[i - 1]]

LEMMA KeptExists ==
    ASSUME NEW s, NEW S, NEW n \in Nat
    PROVE  \E f : IsKept(f, s, S, n)
<1> DEFINE N == {m \in Nat : \E f : IsKept(f, s, S, m)}
<1>1. 0 \in N
  <2> DEFINE f == [i \in 0 .. 0 |-> <<>>]
  <2>1. IsKept(f, s, S, 0)
    BY DEF IsKept
  <2> QED
    BY <2>1
<1>2. ASSUME NEW m \in Nat, m \in N PROVE m + 1 \in N
  <2>1. PICK f : IsKept(f, s, S, m)
    BY <1>2
  <2> DEFINE g == [i \in 0 .. m + 1 |->
                     IF i <= m THEN f[i]
                     ELSE IF s[i] \in S THEN Append(f[i - 1], s[i]) ELSE f[i - 1]]
  <2>2. ASSUME NEW i \in 0 .. m + 1
        PROVE g[i] = IF i = 0 THEN <<>>
                     ELSE IF s[i] \in S THEN Append(g[i - 1], s[i]) ELSE g[i - 1]
    <3>1. CASE i = 0
      BY <2>1, <3>1 DEF IsKept
    <3>2. CASE i \in 1 .. m
      <4>1. g[i] = f[i] /\ g[i - 1] = f[i - 1]
        BY <3>2
      <4>2. f[i] = IF s[i] \in S THEN Append(f[i - 1], s[i]) ELSE f[i - 1]
        <5>1. \A j \in 0 .. m : f[j] = IF j = 0 THEN <<>>
                 ELSE IF s[j] \in S THEN Append(f[j - 1], s[j]) ELSE f[j - 1]
          BY <2>1, Zenon DEF IsKept
        <5>2. i \in 0 .. m /\ i # 0
          BY <3>2
        <5> QED
          BY <5>1, <5>2, Zenon
      <4> QED
        BY <3>2, <4>1, <4>2
    <3>3. CASE i = m + 1
      <4>1. g[i - 1] = f[i - 1]
        BY <3>3
      <4> QED
        BY <3>3, <4>1
    <3> QED
      BY <3>1, <3>2, <3>3
  <2>3. g = [i \in 0 .. m + 1 |-> g[i]]
    OBVIOUS
  <2> HIDE DEF g
  <2>4. IsKept(g, s, S, m + 1)
    BY <2>2, <2>3 DEF IsKept
  <2> QED
    BY <2>4
<1>3. Nat \subseteq N
  <2> HIDE DEF N
  <2> QED
    BY <1>1, <1>2, Induction
<1> QED
  BY <1>3

LEMMA SiftIsKept ==
    ASSUME NEW s, NEW S, Len(s) \in Nat
    PROVE  \E f : IsKept(f, s, S, Len(s)) /\ Sift(s, S) = f[Len(s)]
<1> DEFINE f == CHOOSE f : IsKept(f, s, S, Len(s))
<1>1. IsKept(f, s, S, Len(s))
  BY KeptExists
<1>2. Sift(s, S) = f[Len(s)]
  BY Zenon DEF Sift, IsKept
<1> QED
  BY <1>1, <1>2

LEMMA KeptAt ==
    ASSUME NEW f, NEW s, NEW S, NEW n \in Nat, IsKept(f, s, S, n)
    PROVE  /\ f[0] = <<>>
           /\ \A i \in 1 .. n :
                f[i] = IF s[i] \in S THEN Append(f[i - 1], s[i]) ELSE f[i - 1]
<1>1. \A i \in 0 .. n : f[i] = IF i = 0 THEN <<>>
            ELSE IF s[i] \in S THEN Append(f[i - 1], s[i]) ELSE f[i - 1]
  BY Zenon DEF IsKept
<1>2. 0 \in 0 .. n
  OBVIOUS
<1>3. ASSUME NEW i \in 1 .. n PROVE i \in 0 .. n /\ i # 0
  OBVIOUS
<1> QED
  BY <1>1, <1>2, <1>3, Zenon

\* The sifted prefixes of two sequences that begin alike are alike.
LEMMA KeptAgree ==
    ASSUME NEW f, NEW g, NEW s, NEW r, NEW S, NEW n \in Nat, NEW m \in Nat, n <= m,
           IsKept(f, s, S, n), IsKept(g, r, S, m), \A i \in 1 .. n : s[i] = r[i]
    PROVE  f[n] = g[n]
<1> DEFINE N == {k \in Nat : k <= n => f[k] = g[k]}
<1>1. 0 \in N
  BY KeptAt
<1>2. ASSUME NEW k \in Nat, k \in N PROVE k + 1 \in N
  <2> SUFFICES ASSUME k + 1 <= n PROVE f[k + 1] = g[k + 1]
    OBVIOUS
  <2>1. k + 1 \in 1 .. n /\ k + 1 \in 1 .. m /\ (k + 1) - 1 = k
    OBVIOUS
  <2>2. f[k] = g[k] /\ s[k + 1] = r[k + 1]
    BY <1>2, <2>1
  <2>3. f[k + 1] = IF s[k + 1] \in S THEN Append(f[k], s[k + 1]) ELSE f[k]
    BY <2>1, KeptAt
  <2>4. g[k + 1] = IF r[k + 1] \in S THEN Append(g[k], r[k + 1]) ELSE g[k]
    BY <2>1, KeptAt
  <2> QED
    BY <2>2, <2>3, <2>4
<1>3. Nat \subseteq N
  <2> HIDE DEF N
  <2> QED
    BY <1>1, <1>2, Induction
<1> QED
  BY <1>3

\* The two equations of Sift.
LEMMA SiftEmpty == ASSUME NEW S PROVE Sift(<<>>, S) = <<>>
<1>1. PICK f : IsKept(f, <<>>, S, Len(<<>>)) /\ Sift(<<>>, S) = f[Len(<<>>)]
  BY SiftIsKept
<1> QED
  BY <1>1, KeptAt

LEMMA SiftAppend ==
    ASSUME NEW T, NEW s \in Seq(T), NEW x \in T, NEW S
    PROVE  Sift(Append(s, x), S) = IF x \in S THEN Append(Sift(s, S), x) ELSE Sift(s, S)
<1> DEFINE r == Append(s, x)
           n == Len(s)
<1>1. n \in Nat /\ Len(r) = n + 1 /\ r[n + 1] = x /\ \A i \in 1 .. n : s[i] = r[i]
  OBVIOUS
<1> HIDE DEF r
<1>2. PICK f : IsKept(f, s, S, n) /\ Sift(s, S) = f[n]
  BY <1>1, SiftIsKept
<1>3. PICK g : IsKept(g, r, S, n + 1) /\ Sift(r, S) = g[n + 1]
  BY <1>1, SiftIsKept
<1> HIDE DEF n
<1>4. n \in Nat /\ n + 1 \in Nat /\ n <= n + 1 /\ n + 1 \in 1 .. n + 1 /\ (n + 1) - 1 = n
  BY <1>1
<1>5. f[n] = g[n]
  BY <1>1, <1>2, <1>3, <1>4, KeptAgree
<1>6. g[n + 1] = IF r[n + 1] \in S THEN Append(g[n], r[n + 1]) ELSE g[n]
  BY <1>3, <1>4, KeptAt
<1> QED
  BY <1>1, <1>2, <1>3, <1>5, <1>6 DEF r

-----------------------------------------------------------------------------
\* It keeps elements of S, in a sequence no longer than the one it gets.
LEMMA SiftTyped ==
    ASSUME NEW T, NEW s \in Seq(T), NEW S
    PROVE  /\ Sift(s, S) \in Seq(T)
           /\ Len(Sift(s, S)) <= Len(s)
           /\ \A k \in DOMAIN Sift(s, S) : Sift(s, S)[k] \in S
<1> DEFINE P == {r \in Seq(T) : /\ Sift(r, S) \in Seq(T)
                               /\ Len(Sift(r, S)) <= Len(r)
                               /\ \A k \in DOMAIN Sift(r, S) : Sift(r, S)[k] \in S}
<1>1. <<>> \in P
  <2>1. <<>> \in Seq(T)
    OBVIOUS
  <2>2. Sift(<<>>, S) = <<>>
    BY SiftEmpty
  <2>3. \A k \in DOMAIN <<>> : <<>>[k] \in S
    OBVIOUS
  <2>4. Sift(<<>>, S) \in Seq(T) /\ Len(Sift(<<>>, S)) <= Len(<<>>)
    <3>1. Len(<<>>) <= Len(<<>>)
      OBVIOUS
    <3> QED
      BY <2>1, <2>2, <3>1, Zenon
  <2>5. \A k \in DOMAIN Sift(<<>>, S) : Sift(<<>>, S)[k] \in S
    BY <2>2, <2>3
  <2> QED
    BY <2>1, <2>4, <2>5
<1>2. ASSUME NEW r \in Seq(T), NEW x \in T, r \in P PROVE Append(r, x) \in P
  <2>1. Sift(Append(r, x), S) = IF x \in S THEN Append(Sift(r, S), x) ELSE Sift(r, S)
    BY SiftAppend
  <2>2. Append(r, x) \in Seq(T) /\ Len(Append(r, x)) = Len(r) + 1
    OBVIOUS
  <2>3. /\ Sift(r, S) \in Seq(T) /\ Len(Sift(r, S)) <= Len(r)
        /\ \A k \in DOMAIN Sift(r, S) : Sift(r, S)[k] \in S
    BY <1>2
  <2> DEFINE k == Sift(r, S)
             q == Append(r, x)
  <2>4. Sift(q, S) \in Seq(T) /\ Len(Sift(q, S)) <= Len(q)
    <3> HIDE DEF k
    <3> QED
      BY <2>1, <2>2, <2>3 DEF k
  <2>5. ASSUME NEW i \in DOMAIN Sift(q, S) PROVE Sift(q, S)[i] \in S
    <3>1. CASE x \in S
      <4>1. Sift(q, S) = Append(k, x) /\ k \in Seq(T)
        BY <2>1, <2>3, <3>1
      <4>2. \A l \in DOMAIN k : k[l] \in S
        BY <2>3
      <4> HIDE DEF k, q
      <4>3. CASE i = Len(k) + 1
        BY <3>1, <4>1, <4>3
      <4>4. CASE i # Len(k) + 1
        BY <4>1, <4>2, <4>4, <2>5
      <4> QED
        BY <4>3, <4>4
    <3>2. CASE x \notin S
      BY <2>1, <2>3, <2>5, <3>2
    <3> QED
      BY <3>1, <3>2
  <2> HIDE DEF q
  <2>6. q \in Seq(T)
    BY <2>2 DEF q
  <2>7. q \in P
    BY <2>4, <2>5, <2>6
  <2> QED
    BY <2>7 DEF q
<1>3. Seq(T) \subseteq P
  <2> HIDE DEF P
  <2> QED
    BY <1>1, <1>2, SeqInduction
<1> QED
  BY <1>3

\* One sieve after the other is one sieve.
LEMMA SiftTwice ==
    ASSUME NEW T, NEW s \in Seq(T), NEW S, NEW R
    PROVE  Sift(Sift(s, S), R) = Sift(s, S \cap R)
<1> DEFINE P == {r \in Seq(T) : Sift(Sift(r, S), R) = Sift(r, S \cap R)}
<1>1. <<>> \in P
  <2>1. <<>> \in Seq(T)
    OBVIOUS
  <2>2. Sift(<<>>, S) = <<>> /\ Sift(<<>>, R) = <<>> /\ Sift(<<>>, S \cap R) = <<>>
    BY SiftEmpty
  <2> QED
    BY <2>1, <2>2
<1>2. ASSUME NEW r \in Seq(T), NEW x \in T, r \in P PROVE Append(r, x) \in P
  <2> DEFINE k == Sift(r, S)
  <2>1. Sift(Append(r, x), S) = IF x \in S THEN Append(k, x) ELSE k
    BY SiftAppend
  <2>2. Sift(Append(r, x), S \cap R)
          = IF x \in S \cap R THEN Append(Sift(r, S \cap R), x) ELSE Sift(r, S \cap R)
    BY SiftAppend
  <2>3. k \in Seq(T)
    BY SiftTyped
  <2>4. Sift(Append(k, x), R) = IF x \in R THEN Append(Sift(k, R), x) ELSE Sift(k, R)
    BY <2>3, SiftAppend
  <2>5. Sift(k, R) = Sift(r, S \cap R)
    BY <1>2
  <2>6. Append(r, x) \in Seq(T)
    OBVIOUS
  <2> HIDE DEF k
  <2>7. Sift(Sift(Append(r, x), S), R) = Sift(Append(r, x), S \cap R)
    <3>1. CASE x \in S
      <4>1. Sift(Append(r, x), S) = Append(k, x)
        BY <3>1, <2>1
      <4>2. x \in S \cap R <=> x \in R
        BY <3>1
      <4> QED
        BY <4>1, <4>2, <2>2, <2>4, <2>5
    <3>2. CASE x \notin S
      BY <3>2, <2>1, <2>2, <2>5
    <3> QED
      BY <3>1, <3>2
  <2> QED
    BY <2>6, <2>7
<1>3. Seq(T) \subseteq P
  <2> HIDE DEF P
  <2> QED
    BY <1>1, <1>2, SeqInduction
<1> QED
  BY <1>3

\* Only what the sequence may hold matters.
LEMMA SiftAlike ==
    ASSUME NEW T, NEW s \in Seq(T), NEW S, NEW R, S \cap T = R \cap T
    PROVE  Sift(s, S) = Sift(s, R)
<1> DEFINE P == {r \in Seq(T) : Sift(r, S) = Sift(r, R)}
<1>1. <<>> \in P
  <2>1. <<>> \in Seq(T)
    OBVIOUS
  <2>2. Sift(<<>>, S) = <<>> /\ Sift(<<>>, R) = <<>> /\ Sift(<<>>, S \cap R) = <<>>
    BY SiftEmpty
  <2> QED
    BY <2>1, <2>2
<1>2. ASSUME NEW r \in Seq(T), NEW x \in T, r \in P PROVE Append(r, x) \in P
  <2>1. Sift(Append(r, x), S) = IF x \in S THEN Append(Sift(r, S), x) ELSE Sift(r, S)
    BY SiftAppend
  <2>2. Sift(Append(r, x), R) = IF x \in R THEN Append(Sift(r, R), x) ELSE Sift(r, R)
    BY SiftAppend
  <2>3. x \in S <=> x \in R
    OBVIOUS
  <2>4. Sift(r, S) = Sift(r, R)
    BY <1>2
  <2>5. Sift(Append(r, x), S) = Sift(Append(r, x), R)
    <3>1. CASE x \in S
      BY <3>1, <2>1, <2>2, <2>3, <2>4, Zenon
    <3>2. CASE x \notin S
      BY <3>2, <2>1, <2>2, <2>3, <2>4, Zenon
    <3> QED
      BY <3>1, <3>2
  <2>6. Append(r, x) \in Seq(T)
    BY <1>2
  <2> QED
    BY <2>5, <2>6, Zenon
<1>3. Seq(T) \subseteq P
  <2> HIDE DEF P
  <2> QED
    BY <1>1, <1>2, SeqInduction
<1> QED
  BY <1>3

\* A finer sieve lets less through.
LEMMA SiftFiner ==
    ASSUME NEW T, NEW s \in Seq(T), NEW S, NEW R, S \cap T \subseteq R
    PROVE  /\ Sift(Sift(s, R), S) = Sift(s, S)
           /\ Len(Sift(s, S)) <= Len(Sift(s, R))
<1>1. Sift(s, R) \in Seq(T)
  BY SiftTyped
<1>2. Sift(Sift(s, R), S) = Sift(s, R \cap S)
  BY SiftTwice
<1>3. Sift(s, R \cap S) = Sift(s, S)
  <2>1. (R \cap S) \cap T = S \cap T
    OBVIOUS
  <2> QED
    BY <2>1, SiftAlike
<1>4. Len(Sift(Sift(s, R), S)) <= Len(Sift(s, R))
  BY <1>1, SiftTyped
<1> QED
  BY <1>2, <1>3, <1>4

\* Each element that is kept comes from a place of its own.
LEMMA SiftPlaces ==
    ASSUME NEW T, NEW s \in Seq(T), NEW S
    PROVE  \E g \in [DOMAIN Sift(s, S) -> DOMAIN s] :
             /\ \A k \in DOMAIN Sift(s, S) : Sift(s, S)[k] = s[g[k]]
             /\ \A k, l \in DOMAIN Sift(s, S) : k < l => g[k] < g[l]
<1> DEFINE Placed(g, r) ==
             /\ g \in [DOMAIN Sift(r, S) -> DOMAIN r]
             /\ \A k \in DOMAIN Sift(r, S) : Sift(r, S)[k] = r[g[k]]
             /\ \A k, l \in DOMAIN Sift(r, S) : k < l => g[k] < g[l]
           P == {r \in Seq(T) : \E g : Placed(g, r)}
<1>1. <<>> \in P
  <2>1. Sift(<<>>, S) = <<>> /\ <<>> \in Seq(T)
    BY SiftEmpty
  <2>2. Placed(<<>>, <<>>)
    BY <2>1
  <2> QED
    BY <2>1, <2>2
<1>2. ASSUME NEW r \in Seq(T), NEW x \in T, r \in P PROVE Append(r, x) \in P
  <2> DEFINE q == Append(r, x)
             k == Sift(r, S)
  <2>1. Sift(q, S) = IF x \in S THEN Append(k, x) ELSE k
    BY SiftAppend
  <2>2. k \in Seq(T)
    BY SiftTyped
  <2>3. /\ q \in Seq(T) /\ DOMAIN r = 1 .. Len(r) /\ DOMAIN q = 1 .. Len(r) + 1
        /\ q[Len(r) + 1] = x /\ \A i \in DOMAIN r : q[i] = r[i]
    OBVIOUS
  <2>4. PICK g : Placed(g, r)
    BY <1>2
  <2>5. CASE x \notin S
    <3>1. Placed(g, q)
      BY <2>1, <2>3, <2>4, <2>5
    <3> QED
      BY <2>3, <3>1
  <2>6. CASE x \in S
    <3> DEFINE n == Len(k)
               h == [i \in 1 .. n + 1 |-> IF i = n + 1 THEN Len(r) + 1 ELSE g[i]]
    <3>1. /\ n \in Nat /\ DOMAIN k = 1 .. n /\ DOMAIN Sift(q, S) = 1 .. n + 1
          /\ Sift(q, S)[n + 1] = x /\ \A i \in 1 .. n : Sift(q, S)[i] = k[i]
      BY <2>1, <2>2, <2>6
    <3> HIDE DEF k, n, q
    <3>2. h \in [DOMAIN Sift(q, S) -> DOMAIN q]
      BY <2>3, <2>4, <3>1 DEF k
    <3>3. \A i \in DOMAIN Sift(q, S) : Sift(q, S)[i] = q[h[i]]
      BY <2>3, <2>4, <3>1 DEF k
    <3>4. \A i, j \in DOMAIN Sift(q, S) : i < j => h[i] < h[j]
      BY <2>3, <2>4, <3>1 DEF k
    <3> QED
      BY <2>3, <3>2, <3>3, <3>4 DEF q
  <2> QED
    BY <2>5, <2>6
<1>3. Seq(T) \subseteq P
  <2> HIDE DEF P
  <2> QED
    BY <1>1, <1>2, SeqInduction
<1> QED
  BY <1>3

\* Nothing that is in S is lost.
LEMMA SiftKeeps ==
    ASSUME NEW T, NEW s \in Seq(T), NEW S, NEW i \in DOMAIN s, s[i] \in S
    PROVE  \E k \in DOMAIN Sift(s, S) : Sift(s, S)[k] = s[i]
<1> DEFINE Whole(r) == \A j \in DOMAIN r : r[j] \in S =>
                         \E k \in DOMAIN Sift(r, S) : Sift(r, S)[k] = r[j]
           P == {r \in Seq(T) : Whole(r)}
<1>1. <<>> \in P
  <2>1. <<>> \in Seq(T) /\ DOMAIN <<>> = {}
    OBVIOUS
  <2> QED
    BY <2>1
<1>2. ASSUME NEW r \in Seq(T), NEW x \in T, r \in P PROVE Append(r, x) \in P
  <2> DEFINE q == Append(r, x)
             kept == Sift(r, S)
  <2>1. Sift(q, S) = IF x \in S THEN Append(kept, x) ELSE kept
    BY SiftAppend
  <2>2. kept \in Seq(T)
    BY SiftTyped
  <2>3. /\ q \in Seq(T) /\ DOMAIN r = 1 .. Len(r) /\ DOMAIN q = 1 .. Len(r) + 1
        /\ q[Len(r) + 1] = x /\ \A j \in DOMAIN r : q[j] = r[j]
    OBVIOUS
  <2>4. \A j \in DOMAIN r : r[j] \in S => \E k \in DOMAIN kept : kept[k] = r[j]
    BY <1>2
  <2> HIDE DEF q, kept
  <2>5. \A k \in DOMAIN kept : k \in DOMAIN Sift(q, S) /\ Sift(q, S)[k] = kept[k]
    BY <2>1, <2>2
  <2>6. ASSUME x \in S PROVE \E k \in DOMAIN Sift(q, S) : Sift(q, S)[k] = x
    <3>1. Len(kept) + 1 \in DOMAIN Append(kept, x) /\ Append(kept, x)[Len(kept) + 1] = x
      BY <2>2
    <3> QED
      BY <2>1, <2>6, <3>1
  <2>7. ASSUME NEW j \in DOMAIN q, q[j] \in S
        PROVE  \E k \in DOMAIN Sift(q, S) : Sift(q, S)[k] = q[j]
    <3>1. CASE j \in DOMAIN r
      BY <2>3, <2>4, <2>5, <2>7, <3>1
    <3>2. CASE j = Len(r) + 1
      BY <2>3, <2>6, <2>7, <3>2
    <3> QED
      BY <2>3, <3>1, <3>2
  <2> QED
    BY <2>3, <2>7 DEF q
<1>3. Seq(T) \subseteq P
  <2> HIDE DEF P
  <2> QED
    BY <1>1, <1>2, SeqInduction
<1> QED
  BY <1>3
=============================================================================
