----------------------------- MODULE FoldLemmas -----------------------------
(***************************************************************************)
(* What FlattenSeq and FoldLeft(+, ...) of the community modules compute,  *)
(* one element at a time.  Both are recursive tables over the positions of *)
(* a sequence, chosen by their equation; that such a table exists and how  *)
(* it grows is shown by induction over sets of naturals, which rests on    *)
(* the well-foundedness of finite sets under strict inclusion.             *)
(***************************************************************************)
EXTENDS Integers, SequencesExt, FiniteSetTheorems, SequenceTheorems, TLAPS

(* A set of naturals has a least element.                                  *)
LEMMA LeastNat ==
  ASSUME NEW T \in SUBSET Nat, T # {}
  PROVE  \E m \in T : \A k \in T : m <= k
<1> DEFINE R == StrictSubsetOrdering(Nat)
           F == {0..k : k \in T}
<1>1. IsWellFoundedOn(R, FiniteSubsetsOf(Nat))
  BY FS_StrictSubsetOrderingWellFounded
<1>2. F \subseteq FiniteSubsetsOf(Nat) /\ F # {}
  <2>1. ASSUME NEW k \in T PROVE 0..k \in SUBSET Nat /\ IsFiniteSet(0..k)
    BY FS_Interval
  <2> QED BY <2>1 DEF FiniteSubsetsOf
<1>3. PICK U \in F : \A V \in F : <<V, U>> \notin R
  <2> HIDE DEF R, F
  <2> QED BY <1>1, <1>2, WFMin, Zenon
<1>4. PICK m \in T : U = 0..m
  BY <1>3
<1>5. ASSUME NEW k \in T, k < m PROVE FALSE
  <2>1. 0..k \in SUBSET Nat /\ 0..m \in SUBSET Nat  OBVIOUS
  <2>2. 0..k # 0..m /\ (0..k) \subseteq (0..m)  BY <1>5
  <2>3. <<0..k, 0..m>> \in R  BY <2>1, <2>2 DEF StrictSubsetOrdering
  <2> QED BY <2>3, <1>3, <1>4
<1> QED BY <1>5

(* Induction up to n, over a set instead of a predicate.                   *)
LEMMA Induction ==
  ASSUME NEW n \in Nat, NEW T, 0 \in T, \A k \in 0..n : k \in T /\ k < n => k + 1 \in T
  PROVE  0..n \subseteq T
<1> SUFFICES ASSUME ~(0..n \subseteq T) PROVE FALSE OBVIOUS
<1> DEFINE U == (0..n) \ T
<1>1. PICK m \in U : \A k \in U : m <= k
  <2>1. U \in SUBSET Nat /\ U # {}  OBVIOUS
  <2> HIDE DEF U
  <2> QED BY <2>1, LeastNat
<1>2. m # 0 /\ m \in 0..n /\ m \notin T  OBVIOUS
<1>3. m - 1 \in T  BY <1>1, <1>2
<1> QED BY <1>2, <1>3

-----------------------------------------------------------------------------
(* The table FlattenSeq chooses: the first n sequences of s, concatenated. *)

IsFlat(g, s, n) == g = [i \in 1..n |-> IF i = 1 THEN s[i] ELSE g[i-1] \o s[i]]

FlatStep(g, s, i) ==
  /\ i = 1 => g[i] = s[i]
  /\ i # 1 => g[i] = g[i-1] \o s[i]

(* The equation of the table, at one position.                             *)
LEMMA FlatAt ==
  ASSUME NEW g, NEW s, NEW n, NEW i \in 1..n, IsFlat(g, s, n)
  PROVE  FlatStep(g, s, i)
<1> DEFINE F == [j \in 1..n |-> IF j = 1 THEN s[j] ELSE g[j-1] \o s[j]]
<1>1. g = F  BY Zenon DEF IsFlat
<1>2. F[i] = IF i = 1 THEN s[i] ELSE g[i-1] \o s[i]  OBVIOUS
<1>3. F[i] = g[i]
  <2> HIDE DEF F
  <2> QED BY <1>1, Zenon
<1> HIDE DEF F
<1> QED BY <1>2, <1>3 DEF FlatStep

(* There is such a table.                                                 *)
LEMMA FlatExists ==
  ASSUME NEW s, NEW n \in Nat
  PROVE  \E g : IsFlat(g, s, n)
<1> DEFINE T == {m \in 0..n : \E g : IsFlat(g, s, m)}
<1>1. 0 \in T
  <2> DEFINE g == [i \in 1..0 |-> i]
  <2> IsFlat(g, s, 0)  BY DEF IsFlat
  <2> QED OBVIOUS
<1>2. ASSUME NEW k \in 0..n, k \in T, k < n PROVE k + 1 \in T
  <2>1. PICK g : IsFlat(g, s, k)  BY <1>2
  <2> DEFINE h == [i \in 1..k+1 |-> IF i = 1 THEN s[i] ELSE g[i-1] \o s[i]]
  <2>2. ASSUME NEW i \in 1..k PROVE h[i] = g[i]
    <3>1. FlatStep(g, s, i)  BY <2>1, FlatAt, Zenon
    <3>2. i \in 1..k+1  OBVIOUS
    <3>3. h[i] = IF i = 1 THEN s[i] ELSE g[i-1] \o s[i]  BY <3>2
    <3> HIDE DEF h
    <3> QED BY <3>1, <3>3 DEF FlatStep
  <2>3. ASSUME NEW i \in 1..k+1, i # 1 PROVE g[i-1] = h[i-1]
    <3>1. i - 1 \in 1..k  BY <2>3
    <3> QED BY <3>1, <2>2
  <2>4. IsFlat(h, s, k+1)
    <3>1. h = [i \in 1..k+1 |-> IF i = 1 THEN s[i] ELSE h[i-1] \o s[i]]  BY <2>3
    <3> HIDE DEF h
    <3> QED BY <3>1 DEF IsFlat
  <2>5. k + 1 \in 0..n  BY <1>2
  <2> HIDE DEF h
  <2> QED BY <2>4, <2>5
<1> HIDE DEF T
<1>3. 0..n \subseteq T  BY <1>1, <1>2, Induction
<1> QED BY <1>3 DEF T

(* Two sequences with a common prefix have tables with a common prefix.    *)
LEMMA FlatUnique ==
  ASSUME NEW s, NEW t, NEW n \in Nat, NEW m \in Nat, NEW g, NEW h,
         n <= m, \A i \in 1..n : s[i] = t[i], IsFlat(g, s, n), IsFlat(h, t, m)
  PROVE  \A i \in 1..n : g[i] = h[i]
<1> DEFINE T == {k \in 0..n : k = 0 \/ g[k] = h[k]}
<1>1. 0 \in T  OBVIOUS
<1>2. ASSUME NEW k \in 0..n, k \in T, k < n PROVE k + 1 \in T
  <2> DEFINE i == k + 1
  <2>1. i \in 1..n /\ i \in 1..m /\ i - 1 = k /\ (i # 1 => k # 0)  BY <1>2
  <2> HIDE DEF i
  <2>2. FlatStep(g, s, i)  BY <2>1, FlatAt, Zenon
  <2>3. FlatStep(h, t, i)  BY <2>1, FlatAt, Zenon
  <2>4. s[i] = t[i]  BY <2>1
  <2>5. i # 1 => g[i-1] = h[i-1]  BY <1>2, <2>1
  <2>6. g[i] = h[i]  BY <2>2, <2>3, <2>4, <2>5 DEF FlatStep
  <2> QED BY <2>1, <2>6 DEF i
<1> HIDE DEF T
<1>3. 0..n \subseteq T  BY <1>1, <1>2, Induction
<1> QED BY <1>3 DEF T

(* FlattenSeq is the last entry of a table.                                *)
LEMMA FlattenIsFlat ==
  ASSUME NEW s, Len(s) \in Nat, Len(s) # 0
  PROVE  \E g : IsFlat(g, s, Len(s)) /\ FlattenSeq(s) = g[Len(s)]
<1>1. PICK g : IsFlat(g, s, Len(s))  BY FlatExists
<1> DEFINE h == CHOOSE h : h = [i \in 1..Len(s) |-> IF i = 1 THEN s[i] ELSE h[i-1] \o s[i]]
<1>2. h = [i \in 1..Len(s) |-> IF i = 1 THEN s[i] ELSE h[i-1] \o s[i]]
  BY <1>1, Zenon DEF IsFlat
<1>3. FlattenSeq(s) = h[Len(s)]  BY DEF FlattenSeq
<1>4. IsFlat(h, s, Len(s))  BY <1>2, Zenon DEF IsFlat
<1> QED BY <1>3, <1>4

(* FlattenSeq of no sequence, of one, and of one more.                     *)
LEMMA FlattenEmpty == FlattenSeq(<< >>) = << >>
BY DEF FlattenSeq

LEMMA FlattenOne ==
  ASSUME NEW s, Len(s) = 1
  PROVE  FlattenSeq(s) = s[1]
<1>1. Len(s) \in Nat /\ Len(s) # 0  OBVIOUS
<1>2. PICK g : IsFlat(g, s, Len(s)) /\ FlattenSeq(s) = g[Len(s)]
  BY <1>1, FlattenIsFlat, Zenon
<1>3. IsFlat(g, s, 1) /\ FlattenSeq(s) = g[1]  BY <1>2
<1>4. 1 \in 1..1  OBVIOUS
<1>5. FlatStep(g, s, 1)  BY <1>3, <1>4, FlatAt, Zenon
<1> QED BY <1>3, <1>5 DEF FlatStep

LEMMA FlatNext ==
  ASSUME NEW s, NEW t, NEW n \in Nat, NEW g, NEW h, NEW x, NEW y,
         n # 0, \A i \in 1..n : s[i] = t[i], IsFlat(g, s, n), IsFlat(h, t, n + 1),
         x = g[n], y = h[n + 1]
  PROVE  y = x \o t[n + 1]
<1> DEFINE m == n + 1
<1>1. m \in Nat /\ n <= m /\ n \in 1..n /\ m \in 1..m /\ m # 1 /\ m - 1 = n  OBVIOUS
<1>2. IsFlat(h, t, m)  OBVIOUS
<1> HIDE DEF m
<1>3. \A i \in 1..n : g[i] = h[i]  BY <1>1, <1>2, FlatUnique
<1>4. FlatStep(h, t, m)  BY <1>1, <1>2, FlatAt, Zenon
<1>5. h[m] = g[n] \o t[m]  BY <1>1, <1>3, <1>4 DEF FlatStep
<1> QED BY <1>5 DEF m

LEMMA FlattenNext ==
  ASSUME NEW s, NEW t, NEW n \in Nat, n # 0, Len(s) = n, Len(t) = n + 1,
         \A i \in 1..n : s[i] = t[i]
  PROVE  FlattenSeq(t) = FlattenSeq(s) \o t[n + 1]
<1>1. Len(s) \in Nat /\ Len(s) # 0 /\ Len(t) \in Nat /\ Len(t) # 0  OBVIOUS
<1>2. PICK g : IsFlat(g, s, n) /\ FlattenSeq(s) = g[n]
  BY <1>1, FlattenIsFlat, Zenon
<1>3. PICK h : IsFlat(h, t, n + 1) /\ FlattenSeq(t) = h[n + 1]
  BY <1>1, FlattenIsFlat, Zenon
<1> QED BY <1>2, <1>3, FlatNext

LEMMA FlattenAppend ==
  ASSUME NEW S, NEW s \in Seq(Seq(S)), NEW x \in Seq(S)
  PROVE  FlattenSeq(Append(s, x)) = FlattenSeq(s) \o x
<1> DEFINE t == Append(s, x)
           n == Len(s)
<1>1. /\ t \in Seq(Seq(S)) /\ n \in Nat /\ Len(t) = n + 1 /\ t[n + 1] = x
      /\ \A i \in 1..n : s[i] = t[i]
  BY AppendProperties
<1>2. CASE n = 0
  <2>1. s = << >>  BY <1>2, EmptySeq
  <2>2. Len(t) = 1 /\ t[1] = x  BY <1>1, <1>2
  <2>3. FlattenSeq(t) = x
    <3> HIDE DEF t
    <3> QED BY <2>2, FlattenOne
  <2> QED BY <2>1, <2>3, FlattenEmpty, ConcatEmptySeq
<1>3. CASE n # 0
  <2>1. n = Len(s)  OBVIOUS
  <2> HIDE DEF t, n
  <2>2. n + 1 \in Nat  BY <1>1
  <2>3. FlattenSeq(t) = FlattenSeq(s) \o t[n + 1]  BY <1>1, <1>3, <2>1, <2>2, FlattenNext, Zenon
  <2> QED BY <1>1, <2>3 DEF t
<1> QED BY <1>2, <1>3

(* What is flattened of sequences over S is a sequence over S.             *)
LEMMA FlattenType ==
  ASSUME NEW S, NEW s \in Seq(Seq(S))
  PROVE  FlattenSeq(s) \in Seq(S)
<1> DEFINE n == Len(s)
           T == {m \in 0..n : FlattenSeq(SubSeq(s, 1, m)) \in Seq(S)}
<1>1. 0 \in T
  <2>1. SubSeq(s, 1, 0) = << >>  OBVIOUS
  <2>2. << >> \in Seq(S) /\ 0 \in 0..n  OBVIOUS
  <2> QED BY <2>1, <2>2, FlattenEmpty, Zenon
<1>2. ASSUME NEW k \in 0..n, k \in T, k < n PROVE k + 1 \in T
  <2> DEFINE a == SubSeq(s, 1, k)
  <2>1. a \in Seq(Seq(S)) /\ s[k + 1] \in Seq(S)  BY <1>2
  <2>2. SubSeq(s, 1, k + 1) = Append(a, s[k + 1])  BY <1>2, SubSeqRecursiveSecond
  <2>3. FlattenSeq(a) \in Seq(S)  BY <1>2
  <2>4. FlattenSeq(SubSeq(s, 1, k + 1)) = FlattenSeq(a) \o s[k + 1]
    <3> HIDE DEF a
    <3> QED BY <2>1, <2>2, FlattenAppend
  <2>5. FlattenSeq(a) \o s[k + 1] \in Seq(S)
    <3> HIDE DEF a
    <3> QED BY <2>1, <2>3, ConcatProperties
  <2>6. k + 1 \in 0..n  BY <1>2
  <2> HIDE DEF a, n
  <2> QED BY <2>4, <2>5, <2>6, Zenon
<1>3. n \in T
  <2> n \in Nat  OBVIOUS
  <2> HIDE DEF T, n
  <2>1. 0..n \subseteq T  BY <1>1, <1>2, Induction
  <2> QED BY <2>1
<1>4. SubSeq(s, 1, n) = s  BY SubSeqFull
<1> QED BY <1>3, <1>4

-----------------------------------------------------------------------------
(* The sum of a sequence of numbers, from b on; the table FoldLeft chooses *)
(* for it is indexed by sets of positions.                                 *)

SumOf(b, s) == FoldLeft(+, b, s)

IsSum(it, b, s, n) ==
  it = [u \in SUBSET (1..n) |-> IF u = {} THEN b ELSE it[u \ {Max(u)}] + s[Max(u)]]

(* The Max of FiniteSetsExt.                                               *)
LEMMA MaxIs ==
  ASSUME NEW u \in SUBSET Int, NEW m \in u, \A k \in u : k <= m
  PROVE  Max(u) = m
<1>1. \A y \in u : m >= y  OBVIOUS
<1>2. Max(u) \in u /\ \A y \in u : Max(u) >= y  BY <1>1, Zenon DEF Max
<1>3. m \in Int /\ Max(u) \in Int /\ Max(u) >= m /\ Max(u) <= m
  <2> DEFINE x == Max(u)
  <2>1. x \in u /\ \A y \in u : x >= y  BY <1>2
  <2> HIDE DEF x
  <2> QED BY <2>1 DEF x
<1> QED BY <1>3

(* There is such a table.                                                 *)
LEMMA SumExists ==
  ASSUME NEW b, NEW s, NEW n \in Nat
  PROVE  \E it : IsSum(it, b, s, n)
<1> DEFINE T == {m \in 0..n : \E it : IsSum(it, b, s, m)}
<1>1. 0 \in T
  <2> DEFINE it == [u \in SUBSET (1..0) |-> b]
  <2>1. \A u \in SUBSET (1..0) : u = {}  OBVIOUS
  <2> IsSum(it, b, s, 0)  BY <2>1 DEF IsSum
  <2> QED OBVIOUS
<1>2. ASSUME NEW k \in 0..n, k \in T, k < n PROVE k + 1 \in T
  <2>1. PICK it : IsSum(it, b, s, k)  BY <1>2
  <2> DEFINE m == k + 1
             old(u) == IF u = {} THEN b ELSE it[u \ {Max(u)}] + s[Max(u)]
             jt == [u \in SUBSET (1..m) |-> IF m \in u THEN it[u \ {m}] + s[m] ELSE it[u]]
  <2>2. m \in 1..n /\ m \notin 1..k /\ 1..m = (1..k) \cup {m} /\ m \in Int  BY <1>2
  <2>3. ASSUME NEW u \in SUBSET (1..k) PROVE it[u] = old(u) /\ jt[u] = it[u]
    <3>1. it[u] = old(u)
      <4> DEFINE F == [v \in SUBSET (1..k) |-> old(v)]
      <4>1. it = F  BY <2>1, Zenon DEF IsSum
      <4>2. F[u] = old(u)  OBVIOUS
      <4> HIDE DEF F, old
      <4> QED BY <4>1, <4>2, Zenon
    <3>2. u \in SUBSET (1..m) /\ m \notin u  BY <2>2
    <3>3. jt[u] = it[u]
      <4> HIDE DEF m
      <4> QED BY <3>2
    <3> QED BY <3>1, <3>3
  <2>4. ASSUME NEW u \in SUBSET (1..m)
        PROVE  jt[u] = IF u = {} THEN b ELSE jt[u \ {Max(u)}] + s[Max(u)]
    <3>1. CASE m \in u
      <4>1. Max(u) = m
        <5>1. u \in SUBSET Int /\ \A j \in u : j <= m  OBVIOUS
        <5> HIDE DEF m
        <5> QED BY <3>1, <5>1, MaxIs
      <4>2. u \ {m} \in SUBSET (1..k)  BY <2>2
      <4>3. jt[u] = it[u \ {m}] + s[m]  BY <3>1
      <4>4. jt[u \ {m}] = it[u \ {m}]  BY <2>3, <4>2
      <4> HIDE DEF jt, m
      <4> QED BY <3>1, <4>1, <4>3, <4>4
    <3>2. CASE m \notin u
      <4>1. u \in SUBSET (1..k)  BY <3>2, <2>2
      <4>2. u \ {Max(u)} \in SUBSET (1..k)  BY <4>1
      <4>3. jt[u] = old(u)  BY <2>3, <4>1
      <4>4. jt[u \ {Max(u)}] = it[u \ {Max(u)}]  BY <2>3, <4>2
      <4> HIDE DEF jt, m
      <4> QED BY <4>3, <4>4
    <3> QED BY <3>1, <3>2
  <2>5. IsSum(jt, b, s, m)
    <3>1. jt = [u \in SUBSET (1..m) |-> IF u = {} THEN b ELSE jt[u \ {Max(u)}] + s[Max(u)]]
      <4> DEFINE G == [u \in SUBSET (1..m) |-> IF u = {} THEN b ELSE jt[u \ {Max(u)}] + s[Max(u)]]
      <4>1. \A u \in SUBSET (1..m) : jt[u] = G[u]  BY <2>4
      <4> QED BY <4>1
    <3> HIDE DEF jt, m
    <3> QED BY <3>1, Zenon DEF IsSum
  <2> HIDE DEF jt
  <2> QED BY <2>2, <2>5
<1> HIDE DEF T
<1>3. 0..n \subseteq T  BY <1>1, <1>2, Induction
<1> QED BY <1>3 DEF T

(* The entries that matter: the first i positions.                         *)
SumStep(it, s, i) == it[1..i] = it[1..(i - 1)] + s[i]

LEMMA SumAt ==
  ASSUME NEW b, NEW s, NEW n \in Nat, NEW it, IsSum(it, b, s, n)
  PROVE  it[{}] = b /\ \A i \in 1..n : SumStep(it, s, i)
<1> DEFINE new(u) == IF u = {} THEN b ELSE it[u \ {Max(u)}] + s[Max(u)]
           F == [u \in SUBSET (1..n) |-> new(u)]
<1>1. it = F  BY Zenon DEF IsSum
<1>2. ASSUME NEW u \in SUBSET (1..n) PROVE it[u] = new(u)
  <2>1. F[u] = new(u)  OBVIOUS
  <2> HIDE DEF F, new
  <2> QED BY <1>1, <2>1, Zenon
<1>3. it[{}] = b  BY <1>2
<1>4. ASSUME NEW i \in 1..n PROVE SumStep(it, s, i)
  <2>1. 1..i \in SUBSET (1..n) /\ 1..i # {} /\ (1..i) \ {i} = 1..(i - 1)  OBVIOUS
  <2>2. Max(1..i) = i
    <3>1. 1..i \in SUBSET Int /\ i \in 1..i /\ \A k \in 1..i : k <= i  OBVIOUS
    <3> QED BY <3>1, MaxIs, Zenon
  <2>3. it[1..i] = new(1..i)  BY <1>2, <2>1
  <2> QED BY <2>1, <2>2, <2>3 DEF SumStep
<1> QED BY <1>3, <1>4

(* FoldLeft(+, b, s) is the entry of all positions.                        *)
LEMMA SumOfTable ==
  ASSUME NEW b, NEW s, NEW n \in Nat, DOMAIN s = 1..n
  PROVE  \E it : IsSum(it, b, s, n) /\ SumOf(b, s) = it[1..n]
<1>1. PICK it : IsSum(it, b, s, n)  BY SumExists
<1> DEFINE jt == CHOOSE jt : jt = [u \in SUBSET (1..n) |-> IF u = {} THEN b ELSE jt[u \ {Max(u)}] + s[Max(u)]]
<1>2. jt = [u \in SUBSET (1..n) |-> IF u = {} THEN b ELSE jt[u \ {Max(u)}] + s[Max(u)]]
  BY <1>1, Zenon DEF IsSum
<1>3. SumOf(b, s) = (CHOOSE kt : kt = [u \in SUBSET DOMAIN s |-> IF u = {} THEN b ELSE kt[u \ {Max(u)}] + s[Max(u)]])[DOMAIN s]
  BY DEF SumOf, FoldLeft, MapThenFoldSet
<1>4. SumOf(b, s) = jt[1..n]  BY <1>3
<1>5. IsSum(jt, b, s, n)  BY <1>2, Zenon DEF IsSum
<1> QED BY <1>4, <1>5

(* A sum of positive numbers counts at least one for each.                 *)
LEMMA SumAtLeast ==
  ASSUME NEW b \in Nat, NEW s \in Seq(Nat \ {0})
  PROVE  SumOf(b, s) \in Nat /\ b + Len(s) <= SumOf(b, s)
<1> DEFINE n == Len(s)
<1>1. n \in Nat /\ DOMAIN s = 1..n  OBVIOUS
<1>2. PICK it : IsSum(it, b, s, n) /\ SumOf(b, s) = it[1..n]  BY <1>1, SumOfTable
<1>3. it[{}] = b /\ \A i \in 1..n : SumStep(it, s, i)
  <2> HIDE DEF n
  <2> QED BY <1>1, <1>2, SumAt
<1> DEFINE Fits(k) == it[1..k] \in Nat /\ b + k <= it[1..k]
           T == {k \in 0..n : Fits(k)}
<1>4. 0 \in T
  <2>1. 1..0 = {}  OBVIOUS
  <2> QED BY <1>3, <2>1
<1>5. ASSUME NEW k \in 0..n, k \in T, k < n PROVE k + 1 \in T
  <2>1. k + 1 \in 1..n /\ (k + 1) - 1 = k /\ k + 1 \in 0..n  BY <1>5
  <2>2. it[1..(k + 1)] = it[1..k] + s[k + 1]  BY <1>3, <2>1 DEF SumStep
  <2>3. s[k + 1] \in Nat \ {0}  BY <2>1
  <2>4. it[1..k] \in Nat /\ b + k <= it[1..k]  BY <1>5
  <2>5. Fits(k + 1)
    <3> HIDE DEF n, T
    <3> QED BY <2>2, <2>3, <2>4
  <2> QED BY <2>1, <2>5
<1>6. Fits(n)
  <2> HIDE DEF T, n
  <2>1. 0..n \subseteq T  BY <1>1, <1>4, <1>5, Induction
  <2> QED BY <1>1, <2>1 DEF T
<1> QED BY <1>2, <1>6

(* A sum grows by the next number.                                         *)
LEMMA SumEmpty ==
  ASSUME NEW b
  PROVE  SumOf(b, << >>) = b
<1>1. PICK it : IsSum(it, b, << >>, 0) /\ SumOf(b, << >>) = it[1..0]
  <2>1. 0 \in Nat /\ DOMAIN << >> = 1..0  OBVIOUS
  <2> QED BY <2>1, SumOfTable
<1>2. it[{}] = b  BY <1>1, SumAt
<1>3. 1..0 = {}  OBVIOUS
<1> QED BY <1>1, <1>2, <1>3

Begins(t, s, k) == DOMAIN t = 1..k /\ \A i \in 1..k : t[i] = s[i]

LEMMA SumOfPrefix ==
  ASSUME NEW b, NEW s, NEW n \in Nat, NEW it, IsSum(it, b, s, n),
         NEW k \in 0..n, NEW t, Begins(t, s, k)
  PROVE  SumOf(b, t) = it[1..k]
<1>1. k \in Nat  OBVIOUS
<1>2. PICK jt : IsSum(jt, b, t, k) /\ SumOf(b, t) = jt[1..k]  BY <1>1, SumOfTable DEF Begins
<1>3. it[{}] = b /\ \A i \in 1..n : SumStep(it, s, i)  BY SumAt
<1>4. jt[{}] = b /\ \A i \in 1..k : SumStep(jt, t, i)  BY <1>1, <1>2, SumAt
<1> DEFINE T == {m \in 0..k : jt[1..m] = it[1..m]}
<1>5. 0 \in T
  <2>1. 1..0 = {}  OBVIOUS
  <2> QED BY <1>3, <1>4, <2>1
<1>6. ASSUME NEW m \in 0..k, m \in T, m < k PROVE m + 1 \in T
  <2>1. m + 1 \in 1..k /\ m + 1 \in 1..n /\ (m + 1) - 1 = m /\ m + 1 \in 0..k  BY <1>6
  <2>2. jt[1..(m + 1)] = jt[1..m] + t[m + 1]  BY <1>4, <2>1 DEF SumStep
  <2>3. it[1..(m + 1)] = it[1..m] + s[m + 1]  BY <1>3, <2>1 DEF SumStep
  <2>4. jt[1..m] = it[1..m] /\ t[m + 1] = s[m + 1]  BY <1>6, <2>1 DEF Begins
  <2>5. jt[1..(m + 1)] = it[1..(m + 1)]  BY <2>2, <2>3, <2>4, Zenon
  <2> QED BY <2>1, <2>5
<1>7. 0..k \subseteq T
  <2> HIDE DEF T
  <2> QED BY <1>1, <1>5, <1>6, Induction
<1> QED BY <1>2, <1>7

LEMMA SumGrows ==
  ASSUME NEW b \in Nat, NEW s \in Seq(Nat), NEW k \in 0..Len(s), k # Len(s)
  PROVE  SumOf(b, SubSeq(s, 1, k + 1)) = SumOf(b, SubSeq(s, 1, k)) + s[k + 1]
<1> DEFINE n == Len(s)
<1>1. n \in Nat /\ k + 1 \in 0..n /\ k + 1 \in 1..n /\ (k + 1) - 1 = k  OBVIOUS
<1>2. PICK it : IsSum(it, b, s, n)  BY <1>1, SumExists
<1>3. ASSUME NEW m \in 0..n PROVE SumOf(b, SubSeq(s, 1, m)) = it[1..m]
  <2> DEFINE t == SubSeq(s, 1, m)
  <2>1. Begins(t, s, m)  BY DEF Begins
  <2> HIDE DEF n, t
  <2>2. n \in Nat /\ m \in 0..n /\ IsSum(it, b, s, n)  BY <1>1, <1>2
  <2>3. SumOf(b, t) = it[1..m]  BY <2>1, <2>2, SumOfPrefix
  <2> QED BY <2>3 DEF t
<1>4. SumOf(b, SubSeq(s, 1, k)) = it[1..k] /\ SumOf(b, SubSeq(s, 1, k + 1)) = it[1..(k + 1)]
  BY <1>1, <1>3
<1>5. SumStep(it, s, k + 1)
  <2> HIDE DEF n
  <2> QED BY <1>1, <1>2, SumAt
<1> QED BY <1>1, <1>4, <1>5 DEF SumStep

(* The sum of the first k numbers, and of all.                             *)
LEMMA SumUpTo ==
  ASSUME NEW s \in Seq(Nat)
  PROVE  /\ SumOf(0, SubSeq(s, 1, 0)) = 0 /\ SumOf(0, SubSeq(s, 1, Len(s))) = SumOf(0, s)
         /\ \A k \in 0..Len(s) : k # Len(s) =>
              SumOf(0, SubSeq(s, 1, k + 1)) = SumOf(0, SubSeq(s, 1, k)) + s[k + 1]
<1>1. SubSeq(s, 1, 0) = << >> /\ SubSeq(s, 1, Len(s)) = s  OBVIOUS
<1>2. SumOf(0, << >>) = 0  BY SumEmpty
<1>3. 0 \in Nat  OBVIOUS
<1> QED BY <1>1, <1>2, <1>3, SumGrows, Zenon

(* A sum of naturals is a natural, no less than any of them, and zero if   *)
(* they all are.                                                           *)
LEMMA SumOfNats ==
  ASSUME NEW s \in Seq(Nat)
  PROVE  /\ SumOf(0, s) \in Nat
         /\ \A i \in 1..Len(s) : s[i] <= SumOf(0, s)
         /\ (\A i \in 1..Len(s) : s[i] = 0) => SumOf(0, s) = 0
<1> DEFINE n == Len(s)
           f(k) == SumOf(0, SubSeq(s, 1, k))
           Good(k) == /\ f(k) \in Nat
                      /\ \A i \in 1..k : s[i] <= f(k)
                      /\ (\A i \in 1..n : s[i] = 0) => f(k) = 0
           T == {k \in 0..n : Good(k)}
<1>1. /\ f(0) = 0 /\ f(n) = SumOf(0, s)
      /\ \A k \in 0..n : k # n => f(k + 1) = f(k) + s[k + 1]
  BY SumUpTo
<1>2. n \in Nat /\ \A i \in 1..n : s[i] \in Nat  OBVIOUS
<1> HIDE DEF f, n
<1>3. 0 \in T  BY <1>1, <1>2
<1>4. ASSUME NEW k \in 0..n, k \in T, k < n PROVE k + 1 \in T
  <2>0. k # n /\ k + 1 \in 1..n  BY <1>2, <1>4
  <2>1. f(k + 1) = f(k) + s[k + 1] /\ k + 1 \in 1..n  BY <1>1, <2>0
  <2>2. f(k) \in Nat /\ s[k + 1] \in Nat  BY <1>2, <1>4, <2>1
  <2>3. ASSUME NEW i \in 1..k + 1 PROVE s[i] <= f(k + 1)
    <3>1. CASE i = k + 1  BY <2>1, <2>2, <3>1
    <3>2. CASE i # k + 1
      <4>1. i \in 1..k /\ i \in 1..n  BY <3>2, <1>2
      <4>2. s[i] <= f(k) /\ s[i] \in Nat  BY <4>1, <1>2, <1>4
      <4> QED BY <2>1, <2>2, <4>2
    <3> QED BY <3>1, <3>2
  <2>4. (\A i \in 1..n : s[i] = 0) => f(k + 1) = 0  BY <2>1, <1>4
  <2>5. k + 1 \in 0..n /\ f(k + 1) \in Nat  BY <2>1, <2>2
  <2> QED BY <2>3, <2>4, <2>5
<1> HIDE DEF T
<1>5. n \in T
  <2>1. 0..n \subseteq T  BY <1>2, <1>3, <1>4, Induction
  <2> QED BY <1>2, <2>1
<1> QED BY <1>1, <1>5 DEF T, n

(* A sum, one number longer.                                               *)
LEMMA SumAppend ==
  ASSUME NEW s \in Seq(Nat), NEW x \in Nat
  PROVE  SumOf(0, Append(s, x)) = SumOf(0, s) + x
<1> DEFINE t == Append(s, x)
           k == Len(s)
<1>1. t \in Seq(Nat) /\ Len(t) = k + 1 /\ k \in 0..Len(t) /\ k # Len(t) /\ t[k + 1] = x
  OBVIOUS
<1>2. SubSeq(t, 1, k) = s
  <2>1. SubSeq(t, 1, k) \in Seq(Nat) /\ Len(SubSeq(t, 1, k)) = k  OBVIOUS
  <2>2. \A i \in 1..k : SubSeq(t, 1, k)[i] = s[i]  OBVIOUS
  <2> QED BY <2>1, <2>2, SeqEqual
<1> HIDE DEF t, k
<1>3. /\ SumOf(0, SubSeq(t, 1, Len(t))) = SumOf(0, t)
      /\ SumOf(0, SubSeq(t, 1, k + 1)) = SumOf(0, SubSeq(t, 1, k)) + t[k + 1]
  BY <1>1, SumUpTo
<1> QED BY <1>1, <1>2, <1>3 DEF t

(* A sum, its first number apart.                                          *)
LEMMA SumTail ==
  ASSUME NEW s \in Seq(Nat), s # << >>
  PROVE  SumOf(0, s) = s[1] + SumOf(0, Tail(s))
<1> DEFINE t == Tail(s)
           n == Len(t)
           f(k) == SumOf(0, SubSeq(s, 1, k))
           g(k) == SumOf(0, SubSeq(t, 1, k))
           T == {k \in 0..n : g(k) \in Nat /\ f(k + 1) = s[1] + g(k)}
<1>1. t \in Seq(Nat) /\ Len(s) = n + 1 /\ n \in Nat /\ \A i \in 1..n : t[i] = s[i + 1]
  OBVIOUS
<1>2. /\ f(0) = 0 /\ f(n + 1) = SumOf(0, s)
      /\ \A k \in 0..n + 1 : k # n + 1 => f(k + 1) = f(k) + s[k + 1]
  BY <1>1, SumUpTo
<1>3. /\ g(0) = 0 /\ g(n) = SumOf(0, t)
      /\ \A k \in 0..n : k # n => g(k + 1) = g(k) + t[k + 1]
  <2> HIDE DEF t
  <2> QED BY <1>1, SumUpTo
<1>4. \A i \in 1..n + 1 : s[i] \in Nat  BY <1>1
<1> HIDE DEF f, g, t, n
<1>5. 0 \in T
  <2>1. f(0 + 1) = f(0) + s[0 + 1]  BY <1>1, <1>2
  <2>2. s[1] \in Nat  BY <1>1, <1>4
  <2> QED BY <1>1, <1>2, <1>3, <2>1, <2>2
<1>6. ASSUME NEW k \in 0..n, k \in T, k < n PROVE k + 1 \in T
  <2>1. k + 1 \in 0..n /\ k + 1 \in 1..n /\ k + 1 \in 0..n + 1 /\ k + 1 # n + 1 /\ k # n  BY <1>1, <1>6
  <2>2. g(k + 1) = g(k) + t[k + 1]  BY <1>3, <2>1
  <2>3. f((k + 1) + 1) = f(k + 1) + s[(k + 1) + 1]  BY <1>2, <2>1
  <2>4. t[k + 1] = s[(k + 1) + 1]  BY <1>1, <2>1
  <2>5. s[(k + 1) + 1] \in Nat /\ s[1] \in Nat  BY <1>1, <1>4, <2>1
  <2>6. g(k) \in Nat /\ f(k + 1) = s[1] + g(k)  BY <1>6
  <2>7. \A a, b, d \in Nat : (a + b) + d = a + (b + d) /\ b + d \in Nat  OBVIOUS
  <2>8. g(k + 1) = g(k) + s[(k + 1) + 1] /\ f((k + 1) + 1) = (s[1] + g(k)) + s[(k + 1) + 1]
    BY <2>2, <2>3, <2>4, <2>6, Zenon
  <2>9. g(k + 1) \in Nat /\ f((k + 1) + 1) = s[1] + g(k + 1)
    <3>1. /\ (s[1] + g(k)) + s[(k + 1) + 1] = s[1] + (g(k) + s[(k + 1) + 1])
          /\ g(k) + s[(k + 1) + 1] \in Nat
      BY <2>5, <2>6, <2>7
    <3> QED BY <2>8, <3>1
  <2> QED BY <2>1, <2>9
<1> HIDE DEF T
<1>7. n \in T
  <2>1. 0..n \subseteq T  BY <1>1, <1>5, <1>6, Induction
  <2> QED BY <1>1, <2>1
<1> QED BY <1>2, <1>3, <1>7 DEF T, t

-----------------------------------------------------------------------------
AssociativeOn(S) == \A s \in S : \A t \in S : \A u \in S : (s \o t) \o u = s \o (t \o u)

LEMMA Associative ==
  ASSUME NEW S
  PROVE  AssociativeOn(Seq(S))
BY ConcatAssociative DEF AssociativeOn

(* What is flattened of a sequence grows by its next element.              *)
LEMMA FlattenGrows ==
  ASSUME NEW S, NEW b \in Seq(S), NEW s \in Seq(Seq(S)), NEW k \in 1..Len(s)
  PROVE  b \o FlattenSeq(SubSeq(s, 1, k)) = (b \o FlattenSeq(SubSeq(s, 1, k - 1))) \o s[k]
<1> DEFINE a == SubSeq(s, 1, k - 1)
           x == s[k]
           y == FlattenSeq(a)
           ax == FlattenSeq(Append(a, x))
<1>1. a \in Seq(Seq(S)) /\ x \in Seq(S)  BY SubSeqProperties
<1>2. SubSeq(s, 1, k) = Append(a, x)  BY SubSeqRecursiveSecond
<1>3. ax = y \o x
  <2> HIDE DEF a, x
  <2> QED BY <1>1, FlattenAppend
<1>4. y \in Seq(S)
  <2> HIDE DEF a
  <2> QED BY <1>1, FlattenType
<1>5. b \o ax = (b \o y) \o x
  <2> HIDE DEF a, x, y, ax
  <2> SUFFICES b \o (y \o x) = (b \o y) \o x  BY <1>3
  <2>1. AssociativeOn(Seq(S))  BY Associative, Zenon
  <2> QED BY <1>1, <1>4, <2>1, Zenon DEF AssociativeOn
<1> QED BY <1>2, <1>5

(* The first sequence comes first, then what is flattened of the rest.     *)
LEMMA FlattenTail ==
  ASSUME NEW S, NEW s \in Seq(Seq(S)), s # << >>
  PROVE  FlattenSeq(s) = Head(s) \o FlattenSeq(Tail(s))
<1> DEFINE t == Tail(s)
           n == Len(t)
           b == Head(s)
           F(k) == FlattenSeq(SubSeq(s, 1, k))
           G(k) == b \o FlattenSeq(SubSeq(t, 1, k))
           T == {k \in 0..n : F(k + 1) = G(k)}
<1>1. /\ t \in Seq(Seq(S)) /\ b \in Seq(S) /\ n \in Nat /\ Len(s) = n + 1
      /\ s[1] = b /\ \A i \in 1..n : t[i] = s[i + 1]
  OBVIOUS
<1>2. 0 \in T
  <2>1. SubSeq(t, 1, 0) = << >> /\ SubSeq(s, 1, 0) = << >>  BY <1>1
  <2>2. << >> \in Seq(S)  OBVIOUS
  <2>3. 1 \in 1..Len(s)  BY <1>1
  <2>4. << >> \o FlattenSeq(SubSeq(s, 1, 1)) = (<< >> \o FlattenSeq(SubSeq(s, 1, 0))) \o s[1]
    <3>1. 1 - 1 = 0  OBVIOUS
    <3> HIDE DEF t, n, b
    <3> QED BY <2>2, <2>3, <3>1, FlattenGrows
  <2>5. SubSeq(s, 1, 1) \in Seq(Seq(S))  BY <1>1
  <2>6. FlattenSeq(SubSeq(s, 1, 1)) \in Seq(S)
    <3> HIDE DEF t, n, b
    <3> QED BY <2>5, FlattenType
  <2> HIDE DEF t, n, b
  <2>a. /\ << >> \o FlattenSeq(SubSeq(s, 1, 1)) = FlattenSeq(SubSeq(s, 1, 1))
        /\ << >> \o << >> = << >> /\ << >> \o b = b /\ b \o << >> = b
    BY <1>1, <2>2, <2>6, ConcatEmptySeq
  <2>b. FlattenSeq(<< >>) = << >>  BY FlattenEmpty
  <2>7. F(1) = b
    <3>1. s[1] = b  BY <1>1
    <3>2. FlattenSeq(SubSeq(s, 1, 1)) = b  BY <2>1, <2>4, <2>a, <2>b, <3>1, Zenon
    <3> QED BY <3>2
  <2>8. G(0) = b  BY <2>1, <2>a, <2>b, Zenon
  <2>9. 0 \in 0..n /\ 0 + 1 = 1  BY <1>1
  <2> HIDE DEF F, G
  <2> QED BY <2>7, <2>8, <2>9
<1>3. ASSUME NEW k \in 0..n, k \in T, k < n PROVE k + 1 \in T
  <2>1. k + 1 \in 1..n /\ k + 2 \in 1..Len(s) /\ (k + 1) - 1 = k /\ (k + 2) - 1 = k + 1 /\ (k + 1) + 1 = k + 2
        /\ k + 1 \in 0..n
    BY <1>1, <1>3
  <2>2. t[k + 1] = s[k + 2]  BY <1>1, <2>1
  <2> HIDE DEF t, b
  <2>3. G(k + 1) = G(k) \o t[k + 1]
    <3>1. k + 1 \in 1..Len(t)  BY <2>1
    <3>2. t \in Seq(Seq(S)) /\ b \in Seq(S)  BY <1>1
    <3>3. (k + 1) - 1 = k  BY <2>1
    <3> HIDE DEF n
    <3> QED BY <3>1, <3>2, <3>3, FlattenGrows
  <2>4. << >> \in Seq(S)  OBVIOUS
  <2>5. << >> \o F(k + 2) = (<< >> \o F(k + 1)) \o s[k + 2]
    <3> HIDE DEF n
    <3> QED BY <2>1, <2>4, FlattenGrows
  <2>6. F(k + 2) \in Seq(S) /\ F(k + 1) \in Seq(S)
    <3>1. SubSeq(s, 1, k + 2) \in Seq(Seq(S)) /\ SubSeq(s, 1, k + 1) \in Seq(Seq(S))
      BY <1>1, <2>1
    <3> QED BY <3>1, FlattenType
  <2> HIDE DEF F, G
  <2>7. F(k + 2) = F(k + 1) \o s[k + 2]  BY <2>5, <2>6, ConcatEmptySeq
  <2>8. F(k + 1) = G(k)  BY <1>3
  <2> HIDE DEF n
  <2>9. F(k + 2) = G(k + 1)  BY <2>2, <2>3, <2>7, <2>8, Zenon
  <2> QED BY <2>1, <2>9
<1>4. n \in T
  <2>1. n \in Nat /\ n \in 0..n  BY <1>1
  <2> HIDE DEF T, n
  <2>2. 0..n \subseteq T  BY <1>2, <1>3, <2>1, Induction
  <2> QED BY <2>1, <2>2
<1>5. SubSeq(t, 1, n) = t /\ SubSeq(s, 1, n + 1) = s
  BY <1>1, SubSeqFull
<1> HIDE DEF t, b, n
<1>6. F(n + 1) = G(n)
  <2> HIDE DEF F, G
  <2> QED BY <1>4
<1>7. FlattenSeq(s) = b \o FlattenSeq(t)
  BY <1>5, <1>6, Zenon
<1> QED BY <1>7, Zenon DEF t, b

(* How long the first k sequences of t are together.                       *)
Width(t, k) == Len(FlattenSeq(SubSeq(t, 1, k)))

LEMMA WidthGrows ==
  ASSUME NEW S, NEW t \in Seq(Seq(S)), NEW k \in 0..Len(t), k # Len(t)
  PROVE  /\ Width(t, k) \in Nat /\ Len(t[k + 1]) \in Nat
         /\ Width(t, k + 1) = Width(t, k) + Len(t[k + 1])
<1> DEFINE a == SubSeq(t, 1, k)
           x == t[k + 1]
<1>1. a \in Seq(Seq(S)) /\ x \in Seq(S)  BY SubSeqProperties
<1>2. SubSeq(t, 1, k + 1) = Append(a, x)
  <2>1. k + 1 \in 1..Len(t) /\ (k + 1) - 1 = k  OBVIOUS
  <2> QED BY <2>1, SubSeqRecursiveSecond
<1>3. FlattenSeq(Append(a, x)) = FlattenSeq(a) \o x
  <2> HIDE DEF a, x
  <2> QED BY <1>1, FlattenAppend
<1>4. FlattenSeq(a) \in Seq(S)
  <2> HIDE DEF a
  <2> QED BY <1>1, FlattenType
<1>5. Len(FlattenSeq(a) \o x) = Len(FlattenSeq(a)) + Len(x) /\ Len(FlattenSeq(a)) \in Nat /\ Len(x) \in Nat
  <2> HIDE DEF a, x
  <2> QED BY <1>1, <1>4
<1> QED BY <1>2, <1>3, <1>5 DEF Width

(* Where the c-th of the flattened sequences is found.                     *)
HoldsAt(t, s, c, w) == \A j \in 1..Len(s[c]) : t[w + j] = s[c][j]

LEMMA FlattenAt ==
  ASSUME NEW S, NEW s \in Seq(Seq(S)), NEW c \in 1..Len(s)
  PROVE  /\ Width(s, c - 1) \in Nat /\ Width(s, c - 1) + Len(s[c]) <= Len(FlattenSeq(s))
         /\ HoldsAt(FlattenSeq(s), s, c, Width(s, c - 1))
<1> DEFINE n == Len(s)
           w == Width(s, c - 1)
           F(k) == FlattenSeq(SubSeq(s, 1, k))
           Fits(k) == w + Len(s[c]) <= Len(F(k)) /\ HoldsAt(F(k), s, c, w)
           T == {k \in 0..n : c <= k => Fits(k)}
<1>1. n \in Nat /\ c \in Int /\ c > 0 /\ c <= n  OBVIOUS
<1>2. \A k \in 0..n : F(k) \in Seq(S)
  <2> SUFFICES ASSUME NEW k \in 0..n PROVE F(k) \in Seq(S)  OBVIOUS
  <2> DEFINE a == SubSeq(s, 1, k)
  <2>1. a \in Seq(Seq(S))  BY SubSeqProperties
  <2> HIDE DEF a
  <2>2. FlattenSeq(a) \in Seq(S)  BY <2>1, FlattenType
  <2> QED BY <2>2 DEF a
<1>3. w \in Nat
  <2>1. c - 1 \in 0..n  BY <1>1
  <2>2. F(c - 1) \in Seq(S)  BY <1>2, <2>1
  <2>3. w = Len(F(c - 1))  BY DEF Width
  <2> QED BY ONLY <2>2, <2>3, LenProperties
<1>4. ASSUME NEW k \in 0..n, k # n PROVE s[k + 1] \in Seq(S) /\ F(k + 1) = F(k) \o s[k + 1]
  <2> DEFINE a == SubSeq(s, 1, k)
             x == s[k + 1]
  <2>1. a \in Seq(Seq(S)) /\ x \in Seq(S)  BY <1>4, SubSeqProperties
  <2>2. SubSeq(s, 1, k + 1) = Append(a, x)
    <3>1. k + 1 \in 1..Len(s) /\ (k + 1) - 1 = k  BY <1>4
    <3> QED BY <3>1, SubSeqRecursiveSecond
  <2>3. FlattenSeq(Append(a, x)) = FlattenSeq(a) \o x
    <3> HIDE DEF a, x
    <3> QED BY <2>1, FlattenAppend
  <2> QED BY <2>1, <2>2, <2>3
<1>5. 0 \in T  BY <1>1
<1>6. ASSUME NEW k \in 0..n, k \in T, k < n PROVE k + 1 \in T
  <2>1. k # n /\ k + 1 \in 0..n  BY <1>6
  <2> DEFINE f == F(k)
             x == s[k + 1]
             g == F(k + 1)
  <2>2. g = f \o x /\ f \in Seq(S) /\ x \in Seq(S)  BY <1>2, <1>4, <2>1
  <2>3. /\ Len(g) = Len(f) + Len(x) /\ Len(f) \in Nat /\ Len(x) \in Nat
        /\ \A i \in 1..Len(f) : g[i] = f[i]
        /\ \A i \in 1..Len(x) : g[Len(f) + i] = x[i]
    <3> HIDE DEF f, x, g
    <3> QED BY <2>2
  <2>4. CASE c <= k
    <3>1. w + Len(s[c]) <= Len(f) /\ HoldsAt(f, s, c, w)  BY <1>6, <2>4
    <3>2. Len(s[c]) \in Nat
      <4>1. s[c] \in Seq(S)  OBVIOUS
      <4> HIDE DEF T, F, w
      <4> QED BY ONLY <4>1, LenProperties
    <3> HIDE DEF f, g, x, w
    <3>3. ASSUME NEW j \in 1..Len(s[c]) PROVE g[w + j] = s[c][j]
      <4>1. w + j \in 1..Len(f)  BY <1>3, <2>3, <3>1, <3>2
      <4> QED BY <2>3, <3>1, <4>1 DEF HoldsAt
    <3>4. w + Len(s[c]) <= Len(g)  BY <1>3, <2>3, <3>1, <3>2
    <3>5. Fits(k + 1)  BY <3>3, <3>4 DEF HoldsAt, g
    <3> QED BY <2>1, <3>5
  <2>5. CASE c = k + 1
    <3>1. w = Len(f)  BY <2>5 DEF Width
    <3> HIDE DEF f, g, w
    <3>2. w + Len(s[c]) <= Len(g)  BY <2>3, <2>5, <3>1
    <3>3. HoldsAt(g, s, c, w)  BY <2>3, <2>5, <3>1 DEF HoldsAt
    <3>4. Fits(k + 1)  BY <3>2, <3>3 DEF g
    <3> QED BY <2>1, <3>4
  <2>6. CASE ~(c <= k) /\ c # k + 1
    <3>1. ~(c <= k + 1)  BY <1>1, <2>1, <2>6
    <3> QED BY <2>1, <3>1
  <2> QED BY <2>4, <2>5, <2>6
<1>7. 0..n \subseteq T
  <2> HIDE DEF T, n
  <2> QED BY <1>1, <1>5, <1>6, Induction
<1>8. Fits(n)
  <2> HIDE DEF Fits, n
  <2>1. n \in T  BY <1>1, <1>7
  <2> QED BY <1>1, <2>1
<1>9. SubSeq(s, 1, n) = s  OBVIOUS
<1> QED BY <1>3, <1>8, <1>9

LEMMA NoLonger ==
  ASSUME NEW old \in Nat, NEW len \in Nat, NEW sum \in Nat, NEW x \in Nat, old <= sum, len <= x
  PROVE  sum + x \in Nat /\ old + len <= sum + x
OBVIOUS

(* A sequence of sequences each no longer than the number beside it, after *)
(* m of them that are no longer than b, is flattened to one no longer than *)
(* the sum.                                                                *)
LEMMA FlattenedLength ==
  ASSUME NEW b \in Nat, NEW s \in Seq(Nat), NEW S, NEW t \in Seq(Seq(S)), NEW m \in Nat,
         Len(t) = m + Len(s), Width(t, m) <= b,
         \A i \in 1..Len(s) : Len(t[m + i]) <= s[i]
  PROVE  SumOf(b, s) \in Nat /\ Len(FlattenSeq(t)) <= SumOf(b, s)
<1> DEFINE n == Len(s)
<1>1. n \in Nat /\ DOMAIN s = 1..n /\ \A i \in 1..n : s[i] \in Nat
  <2>1. s \in Seq(Nat)  OBVIOUS
  <2> QED BY ONLY <2>1
<1>2. PICK it : IsSum(it, b, s, n) /\ SumOf(b, s) = it[1..n]  BY <1>1, SumOfTable
<1>3. it[{}] = b /\ \A i \in 1..n : SumStep(it, s, i)
  <2> HIDE DEF n
  <2> QED BY <1>1, <1>2, SumAt
<1> DEFINE Fits(k) == it[1..k] \in Nat /\ Width(t, m + k) <= it[1..k]
           T == {k \in 0..n : Fits(k)}
<1>4. 0 \in T
  <2>1. 1..0 = {} /\ m + 0 = m  OBVIOUS
  <2> QED BY <1>3, <2>1
<1>5. ASSUME NEW k \in 0..n, k \in T, k < n PROVE k + 1 \in T
  <2> DEFINE l == Len(t)
  <2>0. l = m + n  OBVIOUS
  <2>1. /\ k + 1 \in 1..n /\ k + 1 \in 0..n /\ (k + 1) - 1 = k
        /\ m + k \in 0..l /\ m + k # l /\ m + (k + 1) = (m + k) + 1
    <3> HIDE DEF l, n, T
    <3>1. m \in Nat /\ k \in 0..n /\ k < n  BY <1>5
    <3> QED BY ONLY <2>0, <1>1, <3>1
  <2>2. /\ Width(t, m + k) \in Nat /\ Len(t[(m + k) + 1]) \in Nat
        /\ Width(t, (m + k) + 1) = Width(t, m + k) + Len(t[(m + k) + 1])
    <3> DEFINE j == m + k
    <3>1. j \in 0..Len(t) /\ j # Len(t)  BY <2>1
    <3> HIDE DEF j
    <3>2. /\ Width(t, j) \in Nat /\ Len(t[j + 1]) \in Nat
          /\ Width(t, j + 1) = Width(t, j) + Len(t[j + 1])  BY <3>1, WidthGrows, Zenon
    <3> QED BY <3>2 DEF j
  <2>3. it[1..(k + 1)] = it[1..k] + s[k + 1]
    <3> DEFINE j == k + 1
    <3>1. SumStep(it, s, j) /\ j - 1 = k  BY <1>3, <2>1
    <3> HIDE DEF j
    <3>2. it[1..j] = it[1..k] + s[j]  BY ONLY <3>1, Zenon DEF SumStep
    <3> QED BY <3>2 DEF j
  <2>4. Len(t[m + (k + 1)]) <= s[k + 1] /\ s[k + 1] \in Nat
    <3> DEFINE j == k + 1
    <3>1. j \in 1..n  BY <2>1
    <3> HIDE DEF j
    <3>2. Len(t[m + j]) <= s[j] /\ s[j] \in Nat  BY <3>1, <1>1
    <3> QED BY <3>2 DEF j
  <2>5. it[1..k] \in Nat /\ Width(t, m + k) <= it[1..k]  BY <1>5
  <2>6. Fits(k + 1)
    <3> DEFINE old == Width(t, m + k)
               new == Width(t, (m + k) + 1)
               len == Len(t[(m + k) + 1])
               sum == it[1..k]
               x   == s[k + 1]
    <3>1. /\ new = old + len /\ old \in Nat /\ len \in Nat /\ sum \in Nat /\ x \in Nat
          /\ it[1..(k + 1)] = sum + x /\ old <= sum
      BY <2>2, <2>3, <2>4, <2>5
    <3>2. len <= x
      <4>1. len = Len(t[m + (k + 1)])  BY <2>1
      <4> QED BY <4>1, <2>4
    <3>3. Width(t, m + (k + 1)) = new  BY <2>1
    <3> HIDE DEF old, new, len, sum, x
    <3>4. sum + x \in Nat /\ new <= sum + x  BY ONLY <3>1, <3>2, NoLonger, Zenon
    <3> QED BY <3>1, <3>3, <3>4
  <2> QED BY <2>1, <2>6
<1>6. Fits(n)
  <2> HIDE DEF T, n
  <2>1. 0..n \subseteq T  BY <1>1, <1>4, <1>5, Induction
  <2> QED BY <1>1, <2>1 DEF T
<1>7. SubSeq(t, 1, m + n) = t  BY SubSeqFull
<1> QED BY <1>2, <1>6, <1>7 DEF Width

-----------------------------------------------------------------------------
(* Small sequences.                                                        *)
LEMMA Pair ==
  ASSUME NEW x, NEW y
  PROVE  /\ <<x>> \o <<y>> = <<x, y>> /\ Append(<<x>>, y) = <<x, y>>
         /\ << >> \o <<x>> = <<x>> /\ Append(<< >>, x) = <<x>>
<1> DEFINE S == {x, y}
<1>1. x \in S /\ y \in S  OBVIOUS
<1> HIDE DEF S
<1>2. <<x>> \in Seq(S) /\ << >> \in Seq(S)  BY <1>1
<1>3. Append(<<x>>, y) = <<x, y>>
  <2> DEFINE a == Append(<<x>>, y)
             b == <<x, y>>
  <2>1. a \in Seq(S) /\ Len(a) = 2 /\ a[1] = x /\ a[2] = y  BY <1>1, <1>2, AppendProperties
  <2>2. b \in Seq(S) /\ Len(b) = 2 /\ b[1] = x /\ b[2] = y  BY <1>1
  <2>3. \A i \in 1..2 : a[i] = b[i]
    <3> HIDE DEF a, b
    <3> QED BY <2>1, <2>2
  <2>4. a = b
    <3> HIDE DEF a, b
    <3> QED BY <2>1, <2>2, <2>3, SeqEqual
  <2> QED BY <2>4
<1>4. <<x>> \o <<y>> = Append(<<x>>, y)  BY <1>1, <1>2, AppendIsConcat
<1>5. << >> \o <<x>> = <<x>>  BY <1>2, ConcatEmptySeq
<1>6. Append(<< >>, x) = <<x>>  BY <1>1
<1> QED BY <1>3, <1>4, <1>5, <1>6

LEMMA LastOfConcat ==
  ASSUME NEW S, NEW s \in Seq(S), NEW t \in Seq(S), t # << >>
  PROVE  s \o t # << >> /\ Last(s \o t) = Last(t)
BY DEF Last

LEMMA LastOfAppend ==
  ASSUME NEW S, NEW s \in Seq(S), NEW x \in S
  PROVE  Append(s, x) # << >> /\ Last(Append(s, x)) = x
BY DEF Last

=============================================================================
