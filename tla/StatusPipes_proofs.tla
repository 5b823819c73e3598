------------------------- MODULE StatusPipes_proofs -------------------------
(***************************************************************************)
(* Proofs about StatusPipes, for every size of the history, any number of  *)
(* devices and jobs, and pipes of any capacity: the histories of hpssd     *)
(* implement RecentEvents, a client is handed a torn fax only if CUPS      *)
(* killed the backend that wrote it, every variable keeps its type, and    *)
(* hpssd has the dq of the right device if the lengths of the replies tell *)
(* the devices apart.                                                      *)
(***************************************************************************)
EXTENDS StatusPipes, FoldLemmas

-----------------------------------------------------------------------------
(* The ring buffer.                                                        *)

(* A buffer is full when it holds HistorySize elements, and its cursor     *)
(* stands at its first place until then.                                   *)
RingInv(r, S) ==
    /\ r \in [data : Seq(S), cur : 0..HistorySize - 1, full : BOOLEAN]
    /\ IF r.full THEN Len(r.data) = HistorySize
                 ELSE r.cur = 0 /\ Len(r.data) < HistorySize

(* The place in data of the i-th oldest element.                           *)
Place(l, c, i) == IF i <= l - c THEN c + i ELSE i - (l - c)
At(r, i) == Place(Len(r.data), r.cur, i)

(* The places are those of the list, the newest element is in front of the *)
(* cursor, and a cursor one further is an element further.                 *)
LEMMA Places ==
    ASSUME NEW l \in Nat, NEW c \in Nat, NEW i \in Nat, c < l, 1 <= i, i <= l
    PROVE  /\ Place(l, c, i) \in 1..l
           /\ Place(l, c, i) = (IF c = 0 THEN l ELSE c) <=> i = l
  BY DEF Place

LEMMA NextPlace ==
    ASSUME NEW l \in Nat, NEW c \in Nat, NEW i \in Nat, c + 1 < l, 1 <= i, i < l
    PROVE  /\ Place(l, c + 1, i) = Place(l, c, i + 1)
           /\ Place(l, c + 1, i) # c + 1 /\ Place(l, c + 1, i) \in 1..l
  BY DEF Place

(* The cursor runs around the list.                                        *)
LEMMA NextCursor ==
    ASSUME NEW c \in 0..HistorySize - 1
    PROVE  (c + 1) % HistorySize = IF c + 1 = HistorySize THEN 0 ELSE c + 1
  BY SMTT(30), HistorySizeAssumption

(* The newest element is the one before the cursor.                        *)
LEMMA LastIndex ==
    ASSUME NEW c \in 0..HistorySize - 1
    PROVE  (c + HistorySize - 1) % HistorySize = IF c = 0 THEN HistorySize - 1 ELSE c - 1
  BY SMTT(30), HistorySizeAssumption

(* get gives the elements in the order At says.                            *)
LEMMA GetIs ==
    ASSUME NEW S, NEW r, RingInv(r, S)
    PROVE  /\ Get(r) \in Seq(S)
           /\ Len(Get(r)) = Len(r.data)
           /\ \A i \in 1..Len(r.data) : Get(r)[i] = r.data[At(r, i)]
  <1>1. /\ r.data \in Seq(S) /\ Len(r.data) \in Nat
        /\ r.cur \in 0..HistorySize - 1 /\ HistorySize \in Nat \ {0}
    BY HistorySizeAssumption, LenProperties DEF RingInv
  <1>2. CASE ~r.full
    BY <1>1, <1>2 DEF RingInv, Get, At, Place
  <1>3. CASE r.full
    <2> DEFINE n == HistorySize
               a == SubSeq(r.data, r.cur + 1, n)
               b == SubSeq(r.data, 1, r.cur)
    <2>1. Get(r) = a \o b /\ Len(r.data) = n
      BY <1>3 DEF RingInv, Get
    <2>2. /\ a \in Seq(S) /\ Len(a) = n - r.cur
          /\ \A i \in 1..n - r.cur : a[i] = r.data[r.cur + i]
      <3>1. /\ n \in Int /\ r.cur + 1 \in Int /\ r.cur + 1 <= n
            /\ \A i \in r.cur + 1..n : r.data[i] \in S
        BY <1>1, <2>1, ElementOfSeq
      <3>2. /\ a \in Seq(S)
            /\ Len(a) = IF r.cur + 1 <= n THEN n - (r.cur + 1) + 1 ELSE 0
            /\ \A i \in 1..n - (r.cur + 1) + 1 : a[i] = r.data[r.cur + 1 + i - 1]
        BY <3>1, SubSeqProperties
      <3> HIDE DEF a
      <3>3. n - (r.cur + 1) + 1 = n - r.cur
        BY <1>1
      <3>4. ASSUME NEW i \in 1..n - r.cur
            PROVE  a[i] = r.data[r.cur + i]
        <4>1. r.cur + 1 + i - 1 = r.cur + i
          BY <1>1
        <4> QED
          BY <3>2, <3>3, <4>1
      <3>5. Len(a) = n - r.cur
        BY <3>1, <3>2, <3>3
      <3> QED
        BY <3>2, <3>4, <3>5
    <2>3. /\ b \in Seq(S) /\ Len(b) = r.cur
          /\ \A i \in 1..r.cur : b[i] = r.data[i]
      <3>1. r.cur \in Int /\ \A i \in 1..r.cur : r.data[i] \in S
        BY <1>1, <2>1, ElementOfSeq
      <3>2. /\ b \in Seq(S)
            /\ Len(b) = IF 1 <= r.cur THEN r.cur - 1 + 1 ELSE 0
            /\ \A i \in 1..r.cur - 1 + 1 : b[i] = r.data[1 + i - 1]
        BY <3>1, SubSeqProperties
      <3> QED
        BY <1>1, <3>2
    <2> HIDE DEF a, b
    <2>4. /\ a \o b \in Seq(S) /\ Len(a \o b) = Len(a) + Len(b)
          /\ \A i \in 1..Len(a) + Len(b) : (a \o b)[i] = IF i <= Len(a) THEN a[i] ELSE b[i - Len(a)]
      BY <2>2, <2>3, ConcatProperties
    <2>5. Len(a) + Len(b) = n
      BY <1>1, <2>2, <2>3
    <2>6. ASSUME NEW i \in 1..n
          PROVE  (a \o b)[i] = r.data[At(r, i)]
      <3>1. CASE i <= n - r.cur
        BY <1>1, <2>1, <2>2, <2>4, <2>5, <3>1 DEF At, Place
      <3>2. CASE i > n - r.cur
        <4>1. (a \o b)[i] = b[i - (n - r.cur)]
          <5>1. i \in 1..Len(a) + Len(b) /\ ~(i <= Len(a)) /\ Len(a) = n - r.cur
            BY <1>1, <2>2, <2>5, <2>6, <3>2
          <5> QED
            BY <2>4, <5>1
        <4>2. b[i - (n - r.cur)] = r.data[i - (n - r.cur)]
          BY <1>1, <2>3, <3>2
        <4> QED
          BY <1>1, <2>1, <3>2, <4>1, <4>2 DEF At, Place
      <3> QED
        <4>1. i <= n - r.cur \/ i > n - r.cur
          BY <1>1, <2>6
        <4> QED
          BY <3>1, <3>2, <4>1
    <2> QED
      BY <2>1, <2>4, <2>5, <2>6
  <1> QED
    BY <1>2, <1>3

(* The last elements of a sequence with one more than before.              *)
LEMMA NewestIs ==
    ASSUME NEW S, NEW s \in Seq(S), NEW x \in S, Len(s) <= HistorySize
    PROVE  LET t == Recent!Newest(Append(s, x)) IN
           /\ t \in Seq(S)
           /\ Len(s) < HistorySize => t = Append(s, x)
           /\ Len(s) = HistorySize => /\ Len(t) = HistorySize
                                      /\ \A i \in 1..HistorySize - 1 : t[i] = s[i + 1]
                                      /\ t[HistorySize] = x
  <1> DEFINE u == Append(s, x)
             n == HistorySize
             k == IF Len(u) > n THEN Len(u) - n + 1 ELSE 1
  <1>1. /\ u \in Seq(S) /\ Len(u) = Len(s) + 1 /\ u[Len(s) + 1] = x
        /\ \A i \in 1..Len(s) : u[i] = s[i]
    BY AppendProperties
  <1>2. n \in Nat \ {0} /\ Len(s) \in Nat
    BY HistorySizeAssumption, LenProperties
  <1>3. Recent!Newest(u) = SubSeq(u, k, Len(u))
    BY DEF Recent!Newest
  <1>4. k \in 1..2 /\ (Len(s) < n => k = 1) /\ (Len(s) = n => k = 2)
    BY <1>1, <1>2
  <1> HIDE DEF u, k
  <1>5. \A i \in k..Len(u) : u[i] \in S
    BY <1>1, <1>4, ElementOfSeq
  <1>6. /\ SubSeq(u, k, Len(u)) \in Seq(S)
        /\ Len(SubSeq(u, k, Len(u))) = IF k <= Len(u) THEN Len(u) - k + 1 ELSE 0
        /\ \A i \in 1..Len(u) - k + 1 : SubSeq(u, k, Len(u))[i] = u[k + i - 1]
    <2>1. k \in Int /\ Len(u) \in Int
      BY <1>1, <1>2, <1>4
    <2> QED
      BY <1>5, <2>1, SubSeqProperties
  <1>7. Len(s) < n => SubSeq(u, k, Len(u)) = u
    BY <1>1, <1>4, SubSeqFull
  <1>8. ASSUME Len(s) = n
        PROVE  /\ Len(SubSeq(u, k, Len(u))) = n
               /\ \A i \in 1..n - 1 : SubSeq(u, k, Len(u))[i] = s[i + 1]
               /\ SubSeq(u, k, Len(u))[n] = x
    <2>1. k = 2 /\ Len(u) = n + 1 /\ Len(u) - k + 1 = n
      BY <1>1, <1>2, <1>4, <1>8
    <2>2. \A i \in 1..n : SubSeq(u, k, Len(u))[i] = u[i + 1]
      BY <1>2, <1>6, <2>1
    <2> QED
      BY <1>1, <1>2, <1>6, <1>8, <2>1, <2>2
  <1> QED
    BY <1>3, <1>6, <1>7, <1>8 DEF u

(* append of RingBuffer and RingBufferFull keeps the newest elements.      *)
LEMMA AppendIs ==
    ASSUME NEW S, NEW r, RingInv(r, S), NEW x \in S
    PROVE  /\ RingInv(RingAppend(r, x), S)
           /\ Get(RingAppend(r, x)) = Recent!Newest(Append(Get(r), x))
  <1> DEFINE q == RingAppend(r, x)
             n == HistorySize
             g == Get(r)
             t == Recent!Newest(Append(g, x))
  <1>1. /\ r.data \in Seq(S) /\ Len(r.data) \in Nat /\ r.full \in BOOLEAN
        /\ r.cur \in 0..n - 1 /\ n \in Nat \ {0} /\ Len(r.data) <= n
    BY HistorySizeAssumption, LenProperties DEF RingInv
  <1>2. /\ g \in Seq(S) /\ Len(g) = Len(r.data)
        /\ \A i \in 1..Len(r.data) : g[i] = r.data[At(r, i)]
    BY GetIs
  <1>3. /\ t \in Seq(S)
        /\ Len(g) < n => t = Append(g, x)
        /\ Len(g) = n => Len(t) = n /\ (\A i \in 1..n - 1 : t[i] = g[i + 1]) /\ t[n] = x
    BY <1>1, <1>2, NewestIs
  <1> HIDE DEF g, t
  <1>4. CASE ~r.full
    <2>1. q = [r EXCEPT !.data = Append(r.data, x), !.full = Len(r.data) + 1 = n]
      BY <1>4 DEF RingAppend
    <2>2. /\ q.data = Append(r.data, x) /\ q.cur = 0 /\ q.full = (Len(r.data) + 1 = n)
          /\ q = [data |-> q.data, cur |-> q.cur, full |-> q.full]
      BY <1>4, <2>1 DEF RingInv
    <2>3. /\ q.data \in Seq(S) /\ Len(q.data) = Len(r.data) + 1
          /\ \A i \in 1..Len(r.data) : q.data[i] = r.data[i]
          /\ q.data[Len(r.data) + 1] = x
      BY <1>1, <2>2, AppendProperties
    <2>4. Len(r.data) < n
      BY <1>4 DEF RingInv
    <2>5. RingInv(q, S)
      <3>1. q.data \in Seq(S) /\ q.cur \in 0..n - 1 /\ q.full \in BOOLEAN
        BY <1>1, <2>2, <2>3
      <3>2. IF q.full THEN Len(q.data) = n ELSE q.cur = 0 /\ Len(q.data) < n
        <4>1. CASE Len(r.data) + 1 = n
          BY <2>2, <2>3, <4>1
        <4>2. CASE Len(r.data) + 1 # n
          <5>1. ~q.full
            BY <2>2, <4>2
          <5>2. Len(r.data) + 1 < n
            BY <1>1, <2>4, <4>2
          <5> QED
            BY <2>2, <2>3, <5>1, <5>2
        <4> QED
          BY <4>1, <4>2
      <3> HIDE DEF q
      <3> QED
        BY <2>2, <3>1, <3>2 DEF RingInv
    <2>6. /\ Get(q) \in Seq(S) /\ Len(Get(q)) = Len(q.data)
          /\ \A i \in 1..Len(q.data) : Get(q)[i] = q.data[At(q, i)]
      BY <2>5, GetIs
    <2>7. g = r.data
      BY <1>4 DEF g, Get
    <2>8. t = q.data
      BY <1>3, <2>2, <2>4, <2>7
    <2>9. Get(q) = q.data
      <3>1. \A i \in 1..Len(q.data) : At(q, i) = i
        BY <1>1, <2>2, <2>3 DEF At, Place
      <3> QED
        BY <2>3, <2>6, <3>1, SeqEqual
    <2> QED
      BY <2>5, <2>8, <2>9 DEF t, g
  <1>5. CASE r.full
    <2>1. q = [r EXCEPT !.data[r.cur + 1] = x, !.cur = (r.cur + 1) % n]
      BY <1>5 DEF RingAppend
    <2>2. Len(r.data) = n /\ r.cur + 1 \in 1..n
      BY <1>1, <1>5 DEF RingInv
    <2>0. (r.cur + 1) % n = IF r.cur + 1 = n THEN 0 ELSE r.cur + 1
      BY <1>1, NextCursor
    <2>3. /\ q.data = [r.data EXCEPT ![r.cur + 1] = x] /\ q.full = r.full
          /\ q.cur = IF r.cur + 1 = n THEN 0 ELSE r.cur + 1
          /\ q = [data |-> q.data, cur |-> q.cur, full |-> q.full]
      BY <2>0, <2>1 DEF RingInv
    <2>4. /\ q.data \in Seq(S) /\ Len(q.data) = n
          /\ \A i \in 1..n : q.data[i] = IF i = r.cur + 1 THEN x ELSE r.data[i]
      BY <1>1, <2>2, <2>3, ExceptSeq
    <2>5. q.cur \in 0..n - 1
      BY <1>1, <2>3
    <2>6. RingInv(q, S)
      BY <1>1, <1>5, <2>3, <2>4, <2>5 DEF RingInv
    <2>7. /\ Get(q) \in Seq(S) /\ Len(Get(q)) = n
          /\ \A i \in 1..n : Get(q)[i] = q.data[At(q, i)]
      BY <2>4, <2>6, GetIs
    <2>8. \A i \in 1..n : Get(q)[i] = t[i]
      <3>1. ASSUME NEW i \in 1..n - 1
            PROVE  Get(q)[i] = t[i]
        <4>1. t[i] = r.data[At(r, i + 1)]
          BY <1>1, <1>2, <1>3, <2>2, <3>1
        <4>2. At(q, i) = At(r, i + 1) /\ At(q, i) # r.cur + 1 /\ At(q, i) \in 1..n
          <5> HIDE DEF q
          <5>1. q.cur = IF r.cur + 1 = n THEN 0 ELSE r.cur + 1
            BY <2>3
          <5>2. CASE r.cur + 1 = n
            <6>1. q.cur = 0 /\ r.cur = n - 1 /\ Len(q.data) = n /\ Len(r.data) = n
              BY <1>1, <2>2, <2>4, <5>1, <5>2
            <6>2. At(q, i) = i
              BY <1>1, <3>1, <6>1 DEF At, Place
            <6>3. At(r, i + 1) = i
              BY <1>1, <3>1, <6>1 DEF At, Place
            <6> QED
              BY <1>1, <3>1, <6>1, <6>2, <6>3
          <5>3. CASE r.cur + 1 # n
            <6>1. q.cur = r.cur + 1 /\ r.cur + 1 < n /\ Len(q.data) = n /\ Len(r.data) = n
              BY <1>1, <2>2, <2>4, <5>1, <5>3
            <6>2. n \in Nat /\ i \in Nat /\ r.cur \in Nat /\ 1 <= i /\ i < n
              BY <1>1, <3>1
            <6> HIDE DEF n
            <6>3. At(q, i) = Place(n, r.cur + 1, i) /\ At(r, i + 1) = Place(n, r.cur, i + 1)
              BY <6>1 DEF At
            <6>4. /\ Place(n, r.cur + 1, i) \in 1..n
                  /\ Place(n, r.cur + 1, i) = Place(n, r.cur, i + 1)
                  /\ Place(n, r.cur + 1, i) # r.cur + 1
              <7>1. /\ Place(n, r.cur + 1, i) = Place(n, r.cur, i + 1)
                    /\ Place(n, r.cur + 1, i) # r.cur + 1 /\ Place(n, r.cur + 1, i) \in 1..n
                BY <6>1, <6>2, NextPlace, Zenon
              <7> QED
                BY <7>1
            <6> QED
              BY <6>3, <6>4
          <5> QED
            BY <5>2, <5>3
        <4>3. i \in 1..n
          BY <1>1, <3>1
        <4> QED
          BY <2>4, <2>7, <4>1, <4>2, <4>3
      <3>2. Get(q)[n] = t[n]
        <4>1. At(q, n) = r.cur + 1 /\ n \in 1..n
          BY <1>1, <2>2, <2>3, <2>4 DEF At, Place
        <4> QED
          BY <1>2, <1>3, <2>2, <2>4, <2>7, <4>1
      <3>3. \A i \in 1..n : i \in 1..n - 1 \/ i = n
        BY <1>1
      <3> QED
        BY <3>1, <3>2, <3>3
    <2> QED
      BY <1>2, <1>3, <2>2, <2>6, <2>7, <2>8, SeqEqual DEF t, g
  <1> QED
    BY <1>1, <1>4, <1>5

(* replace changes the newest element.                                     *)
LEMMA ReplaceIs ==
    ASSUME NEW S, NEW r, RingInv(r, S), NEW x \in S, Get(r) # << >>
    PROVE  /\ RingInv(RingReplace(r, x), S)
           /\ Get(RingReplace(r, x)) = [Get(r) EXCEPT ![Len(Get(r))] = x]
  <1> DEFINE q == RingReplace(r, x)
             n == HistorySize
             g == Get(r)
             l == Len(r.data)
             k == IF r.cur = 0 THEN l ELSE r.cur
  <1>1. /\ r.data \in Seq(S) /\ l \in Nat /\ r.full \in BOOLEAN
        /\ r.cur \in 0..n - 1 /\ n \in Nat \ {0}
        /\ IF r.full THEN l = n ELSE r.cur = 0 /\ l < n
    BY HistorySizeAssumption, LenProperties DEF RingInv
  <1>2. /\ g \in Seq(S) /\ Len(g) = l
        /\ \A i \in 1..l : g[i] = r.data[At(r, i)]
    BY GetIs
  <1>3. l \in Nat \ {0}
    BY <1>2, EmptySeq
  <1>4. q = [r EXCEPT !.data[k] = x]
    <2>1. CASE ~r.full
      BY <1>1, <2>1 DEF RingReplace
    <2>2. CASE r.full
      <3>1. (r.cur + n - 1) % n = IF r.cur = 0 THEN n - 1 ELSE r.cur - 1
        BY <1>1, LastIndex
      <3>2. ((r.cur + n - 1) % n) + 1 = k
        <4> DEFINE m == (r.cur + n - 1) % n
        <4>1. m = IF r.cur = 0 THEN n - 1 ELSE r.cur - 1
          BY <3>1
        <4>2. l = n
          BY <1>1, <2>2
        <4> HIDE DEF m, l
        <4>3. m + 1 = k
          BY <1>1, <4>1, <4>2
        <4> QED
          BY <4>3 DEF m
      <3> QED
        BY <2>2, <3>2 DEF RingReplace
    <2> QED
      BY <1>1, <2>1, <2>2
  <1>5. k \in 1..l
    BY <1>1, <1>3
  <1> HIDE DEF k
  <1>6. /\ q.data = [r.data EXCEPT ![k] = x] /\ q.cur = r.cur /\ q.full = r.full
        /\ q = [data |-> q.data, cur |-> q.cur, full |-> q.full]
    BY <1>4 DEF RingInv
  <1>7. /\ q.data \in Seq(S) /\ Len(q.data) = l
        /\ \A i \in 1..l : q.data[i] = IF i = k THEN x ELSE r.data[i]
    BY <1>1, <1>5, <1>6, ExceptSeq
  <1>8. RingInv(q, S)
    BY <1>1, <1>6, <1>7 DEF RingInv
  <1>9. /\ Get(q) \in Seq(S) /\ Len(Get(q)) = l
        /\ \A i \in 1..l : Get(q)[i] = q.data[At(q, i)]
    BY <1>7, <1>8, GetIs
  <1>10. /\ [g EXCEPT ![l] = x] \in Seq(S) /\ Len([g EXCEPT ![l] = x]) = l
         /\ \A i \in 1..l : [g EXCEPT ![l] = x][i] = IF i = l THEN x ELSE g[i]
    <2>1. l \in 1..Len(g)
      BY <1>2, <1>3
    <2> HIDE DEF g
    <2> QED
      BY <1>2, <2>1, ExceptSeq
  <1>11. ASSUME NEW i \in 1..l
         PROVE  Get(q)[i] = [g EXCEPT ![l] = x][i]
    <2>1. At(q, i) = At(r, i) /\ At(r, i) \in 1..l /\ (At(r, i) = k <=> i = l)
      <3>1. At(q, i) = Place(l, r.cur, i) /\ At(r, i) = Place(l, r.cur, i)
        BY <1>6, <1>7 DEF At
      <3>2. l \in Nat /\ r.cur \in Nat /\ i \in Nat /\ r.cur < l /\ 1 <= i /\ i <= l
        BY <1>1, <1>3, <1>11
      <3>3. Place(l, r.cur, i) \in 1..l /\ (Place(l, r.cur, i) = k <=> i = l)
        BY <3>2, Places, Zenon DEF k
      <3> QED
        BY <3>1, <3>3
    <2> HIDE DEF g
    <2>2. g[i] = r.data[At(r, i)]
      BY <1>2, <1>11
    <2> QED
      BY <1>7, <1>9, <1>10, <1>11, <2>1, <2>2
  <1> QED
    <2> HIDE DEF q, g
    <2>1. Get(q) = [g EXCEPT ![l] = x]
      BY <1>9, <1>10, <1>11, SeqEqual
    <2> QED
      BY <1>2, <1>8, <2>1 DEF q, g

(* create_history records an event as RecentEvents does.                   *)
LEMMA RecordedIs ==
    ASSUME NEW S, NEW r, RingInv(r, S), NEW e \in S
    PROVE  /\ RingInv(Recorded(r, e), S)
           /\ Get(Recorded(r, e)) = Recent!With(Get(r), e)
  <1>1. CASE Duplicate(r, e)
    BY <1>1, ReplaceIs DEF Duplicate, Recorded, Recent!With
  <1>2. CASE ~Duplicate(r, e)
    BY <1>2, AppendIs DEF Duplicate, Recorded, Recent!With
  <1> QED
    BY <1>1, <1>2

-----------------------------------------------------------------------------
(* The messages: what is in the pipes and signals has the form the handler *)
(* at the other end expects.                                               *)
Event == [code : Codes, stamp : Nat]

Requested == [kind : {"requested"}, dev : Devices]
Replied == [kind : {"reply"}, dev : Devices, size : Nat \ {0}]
JobSignal == [kind : {"start", "rendered", "end"}, job : Jobs]

MessagesOK ==
    /\ session \in Seq(Requested \cup Replied) /\ system \in Seq(JobSignal)
    /\ w2 \in Seq(Devices) /\ r3 \in Seq(Replies) /\ data \in Seq(Replies)
    /\ dev \in Devices /\ dqs \in [Devices -> BOOLEAN] /\ queries \in Nat /\ left \in Nat
    /\ io = "write" => reply \in Replies
    /\ ssd = "send" => cur \in Requested
    /\ ssd = "reply" => cur \in Replied
    /\ ssd \in {"fifo", "fax"} => cur \in JobSignal

(* A reply has a length.                                                   *)
LEMMA RepliesAre ==
    ASSUME NEW r \in Replies
    PROVE  r.size \in Nat \ {0} /\ r.code \in Codes /\ r.dev \in Devices
  BY ConstantsAssumption DEF Replies

(* A write of hpdio is a number of units of one reply.                     *)
LEMMA CopiesIs ==
    ASSUME NEW S, NEW x \in S, NEW n \in Nat
    PROVE  [i \in 1..n |-> x] \in Seq(S)
  <1>1. [i \in 1..n |-> x] \in [1..n -> S]
    OBVIOUS
  <1> QED
    BY <1>1, SeqDef

LEMMA MessagesInit == Init => MessagesOK
  <1>1. FaxDevice \in Devices
    BY ConstantsAssumption
  <1> QED
    BY <1>1 DEF Init, MessagesOK, None

LEMMA MessagesNext ==
    ASSUME MessagesOK, io = "query" => queries < MaxRequests, [Next]_vars
    PROVE  MessagesOK'
  <1> USE DEF MessagesOK, ssdVars, known, dio, jobs
  <1>0. CASE UNCHANGED vars
    BY <1>0 DEF vars
  <1>1. CASE Ask
    <2>1. PICK d \in Devices : session' = Append(session, [kind |-> "requested", dev |-> d])
      BY <1>1 DEF Ask
    <2>2. [kind |-> "requested", dev |-> d] \in Requested \cup Replied
      BY DEF Requested
    <2>3. session' \in Seq(Requested \cup Replied)
      BY <2>1, <2>2, AppendProperties
    <2> QED
      BY <1>1, <2>3 DEF Ask
  <1>2. CASE HandleRequest
    <2>1. /\ Head(session) \in Requested \cup Replied
          /\ session' \in Seq(Requested \cup Replied)
      BY <1>2, HeadTailProperties DEF HandleRequest
    <2>2. cur' \in Requested
      BY <1>2, <2>1 DEF HandleRequest, Requested, Replied
    <2> QED
      BY <1>2, <2>1, <2>2 DEF HandleRequest
  <1>3. CASE SendEventToHpdio
    <2>1. w2' \in Seq(Devices)
      BY <1>3, AppendProperties DEF SendEventToHpdio, Requested
    <2> QED
      BY <1>3, <2>1 DEF SendEventToHpdio
  <1>4. CASE HandleReply
    <2>1. /\ Head(session) \in Requested \cup Replied
          /\ session' \in Seq(Requested \cup Replied)
      BY <1>4, HeadTailProperties DEF HandleReply
    <2>2. cur' \in Replied
      BY <1>4, <2>1 DEF HandleReply, Requested, Replied
    <2> QED
      BY <1>4, <2>1, <2>2 DEF HandleReply
  <1>5. CASE ReadReply
    <2> DEFINE n == Least(PipeBuf, Len(r3))
    <2>1. n \in 0..Len(r3)
      BY ConstantsAssumption, LenProperties DEF Least
    <2>2. data' = data \o SubSeq(r3, 1, n) /\ r3' = SubSeq(r3, n + 1, Len(r3))
      BY <1>5 DEF ReadReply
    <2> HIDE DEF n
    <2>3. SubSeq(r3, 1, n) \in Seq(Replies)
      BY <2>1, SubSeqProperties, ElementOfSeq
    <2>4. SubSeq(r3, n + 1, Len(r3)) \in Seq(Replies)
      BY <2>1, SubSeqProperties, ElementOfSeq
    <2>5. data' \in Seq(Replies)
      BY <2>2, <2>3, ConcatProperties
    <2> QED
      BY <1>5, <2>2, <2>4, <2>5 DEF ReadReply
  <1>6. CASE EndReply
    BY <1>6 DEF EndReply
  <1>7. CASE TakeEvent
    <2>1. dev' \in Devices /\ w2' \in Seq(Devices)
      BY <1>7, HeadTailProperties DEF TakeEvent
    <2> QED
      BY <1>7, <2>1 DEF TakeEvent
  <1>8. CASE QueryDevice
    <2>1. PICK code \in Statuses \cup {"ioerror"} : reply' = Response(code) /\ left' = reply'.size
      BY <1>8 DEF QueryDevice
    <2>2. Response(code) \in Replies
      BY <1>8, ConstantsAssumption DEF QueryDevice, Response, Replies, Codes
    <2>3. left' \in Nat
      BY <2>1, <2>2, RepliesAre
    <2> QED
      BY <1>8, <2>1, <2>2, <2>3 DEF QueryDevice
  <1>9. CASE WriteReply
    <2> DEFINE n == Least(PipeBuf, left)
               m == [i \in 1..n |-> reply]
    <2>1. n \in Nat /\ left - n \in Nat
      BY ConstantsAssumption DEF Least
    <2>2. r3' = r3 \o m /\ left' = left - n /\ reply \in Replies
      BY <1>9 DEF WriteReply
    <2> HIDE DEF n
    <2>3. m \in Seq(Replies)
      BY <2>1, <2>2, CopiesIs
    <2> HIDE DEF m
    <2>4. r3' \in Seq(Replies)
      BY <2>2, <2>3, ConcatProperties
    <2> QED
      BY <1>9, <2>1, <2>2, <2>4 DEF WriteReply
  <1>10. CASE SendReply
    <2> DEFINE e == [kind |-> "reply", dev |-> dev, size |-> reply.size]
    <2>1. e \in Requested \cup Replied /\ session' = Append(session, e)
      BY <1>10, RepliesAre DEF SendReply, Replied
    <2>2. session' \in Seq(Requested \cup Replied)
      BY <2>1, AppendProperties
    <2> QED
      BY <1>10, <2>2 DEF SendReply
  <1>11. ASSUME NEW j \in Jobs, StartJob(j) PROVE MessagesOK'
    BY <1>11 DEF StartJob
  <1>12. ASSUME NEW j \in Jobs, GiveUp(j) PROVE MessagesOK'
    BY <1>12 DEF GiveUp
  <1>13. ASSUME NEW j \in Jobs, CancelJob(j) PROVE MessagesOK'
    BY <1>13 DEF CancelJob
  <1>14. ASSUME NEW j \in Jobs, HpfaxBegin(j) PROVE MessagesOK'
    <2> DEFINE e == <<[kind |-> "start", job |-> j], [kind |-> "rendered", job |-> j]>>
    <2>1. e \in Seq(JobSignal)
      BY DEF JobSignal
    <2>2. system' = system \o e
      BY <1>14 DEF HpfaxBegin
    <2> HIDE DEF e
    <2>3. system' \in Seq(JobSignal)
      BY <2>1, <2>2, ConcatProperties
    <2> QED
      BY <1>14, <2>3 DEF HpfaxBegin
  <1>15. CASE HandleJobEvent
    <2>1. system' \in Seq(JobSignal)
      BY <1>15, HeadTailProperties DEF HandleJobEvent
    <2> QED
      BY <1>15, <2>1 DEF HandleJobEvent
  <1>16. CASE HandleRendered
    <2>1. cur' \in JobSignal /\ system' \in Seq(JobSignal)
      BY <1>16, HeadTailProperties DEF HandleRendered
    <2> QED
      BY <1>16, <2>1 DEF HandleRendered
  <1>17. CASE OpenFifo
    BY <1>17 DEF OpenFifo
  <1>18. ASSUME NEW j \in Jobs, HpfaxEnd(j) PROVE MessagesOK'
    <2>1. [kind |-> "end", job |-> j] \in JobSignal
      BY DEF JobSignal
    <2>2. system' \in Seq(JobSignal)
      BY <1>18, <2>1, AppendProperties DEF HpfaxEnd, SystemEvent
    <2> QED
      BY <1>18, <2>2 DEF HpfaxEnd
  <1>19. CASE SaveFax
    BY <1>19 DEF SaveFax
  <1>20. ASSUME NEW j \in Jobs, CheckForWaitingFax(j) PROVE MessagesOK'
    BY <1>20 DEF CheckForWaitingFax
  <1> QED
    BY <1>0, <1>1, <1>2, <1>3, <1>4, <1>5, <1>6, <1>7, <1>8, <1>9, <1>10, <1>11, <1>12, <1>13,
       <1>14, <1>15, <1>16, <1>17, <1>18, <1>19, <1>20
       DEF Next, Hpssd, Hpdio, Hpfax

-----------------------------------------------------------------------------
(* The requests: each that was asked for is on its way to hpdio or was     *)
(* queried.                                                                *)
One(m) == IF m.kind = "requested" THEN 1 ELSE 0
Ones(s) == [i \in 1..Len(s) |-> One(s[i])]
Requests(s) == SumOf(0, Ones(s))

Count(held) == IF held THEN 1 ELSE 0

LedgerInv ==
    /\ asked \in 0..MaxRequests /\ queries \in Nat
    /\ Count(io = "query") + Count(ssd = "send") + queries + Len(w2) + Requests(session) = asked

(* A signal more, a signal less.                                           *)
LEMMA RequestsAre ==
    ASSUME NEW S, NEW s \in Seq(S)
    PROVE  /\ Requests(s) \in Nat
           /\ \A m \in S : Requests(Append(s, m)) = Requests(s) + One(m)
           /\ s # <<>> => Requests(Tail(s)) \in Nat /\ Requests(s) = One(Head(s)) + Requests(Tail(s))
  <1>1. ASSUME NEW t \in Seq(S) PROVE Ones(t) \in Seq(Nat)
    <2>1. Len(t) \in Nat /\ \A i \in 1..Len(t) : One(t[i]) \in Nat
      BY DEF One
    <2> QED
      BY <2>1 DEF Ones
  <1>2. Requests(s) \in Nat
    BY <1>1, SumOfNats DEF Requests
  <1>3. ASSUME NEW m \in S PROVE Requests(Append(s, m)) = Requests(s) + One(m)
    <2>1. Ones(Append(s, m)) = Append(Ones(s), One(m))
      BY DEF Ones
    <2>2. Ones(s) \in Seq(Nat) /\ One(m) \in Nat
      BY <1>1 DEF One
    <2> QED
      BY <2>1, <2>2, SumAppend DEF Requests
  <1>4. ASSUME s # <<>>
        PROVE  Requests(Tail(s)) \in Nat /\ Requests(s) = One(Head(s)) + Requests(Tail(s))
    <2>1. /\ Ones(Tail(s)) = Tail(Ones(s)) /\ Ones(s) # <<>>
          /\ Ones(s)[1] = One(Head(s)) /\ Tail(s) \in Seq(S)
      BY <1>4 DEF Ones
    <2>2. Ones(s) \in Seq(Nat) /\ Ones(Tail(s)) \in Seq(Nat)
      BY <1>1, <2>1
    <2> QED
      BY <2>1, <2>2, SumTail, SumOfNats DEF Requests
  <1> QED
    BY <1>2, <1>3, <1>4

(* The requests are counted from the start.                                *)
LEMMA LedgerInit == Init => MessagesOK /\ LedgerInv
  <1> SUFFICES ASSUME Init PROVE LedgerInv
    BY MessagesInit
  <1>1. Ones(<<>>) = <<>>
    BY DEF Ones
  <1>2. Requests(<<>>) = 0
    BY <1>1, SumEmpty DEF Requests
  <1> QED
    BY <1>2, ConstantsAssumption DEF Init, LedgerInv, Count

(* No step loses a request or queries without one.                         *)
LEMMA LedgerNext ==
    ASSUME MessagesOK, LedgerInv, [Next]_vars
    PROVE  MessagesOK' /\ LedgerInv'
  <1>1. /\ session \in Seq(Requested \cup Replied) /\ w2 \in Seq(Devices)
        /\ Len(w2) \in Nat /\ Requests(session) \in Nat /\ MaxRequests \in Nat
    BY RequestsAre, ConstantsAssumption DEF MessagesOK
  <1> DEFINE q == Count(io = "query")
             s == Count(ssd = "send")
  <1>2. /\ q \in Nat /\ q = (IF io = "query" THEN 1 ELSE 0) /\ q' = (IF io' = "query" THEN 1 ELSE 0)
        /\ s \in Nat /\ s = (IF ssd = "send" THEN 1 ELSE 0) /\ s' = (IF ssd' = "send" THEN 1 ELSE 0)
    BY DEF Count
  <1>3. /\ asked \in Nat /\ asked <= MaxRequests /\ queries \in Nat
        /\ q + s + queries + Len(w2) + Requests(session) = asked
    BY <1>1 DEF LedgerInv
  (* It is enough that the count is right again.                           *)
  <1>4. ASSUME asked' \in 0..MaxRequests, queries' \in Nat,
               q' + s' + queries' + Len(w2)' + Requests(session)' = asked'
        PROVE  LedgerInv'
    BY <1>4 DEF LedgerInv
  <1> HIDE DEF q, s
  <1>5. MessagesOK'
    <2>1. io = "query" => queries < MaxRequests
      BY <1>1, <1>2, <1>3
    <2> QED
      BY <2>1, MessagesNext
  <1> SUFFICES LedgerInv'
    BY <1>5
  <1>6. ASSUME UNCHANGED <<session, w2, queries, asked, (io = "query"), (ssd = "send")>>
        PROVE  LedgerInv'
    BY <1>6 DEF LedgerInv
  <1>7. CASE Ask
    <2>1. PICK d \in Devices : session' = Append(session, [kind |-> "requested", dev |-> d])
      BY <1>7 DEF Ask
    <2> DEFINE m == [kind |-> "requested", dev |-> d]
    <2>2. m \in Requested \cup Replied /\ One(m) = 1
      BY DEF Requested, One
    <2>3. Requests(session)' = Requests(session) + 1
      BY <1>1, <2>1, <2>2, RequestsAre
    <2>4. UNCHANGED <<io, ssd, w2, queries>> /\ asked < MaxRequests /\ asked' = asked + 1
      BY <1>7 DEF Ask, ssdVars, dio
    <2>5. q' = q /\ s' = s /\ Len(w2)' = Len(w2)
      BY <1>2, <2>4
    <2> QED
      BY <1>1, <1>2, <1>3, <1>4, <2>3, <2>4, <2>5
  <1>8. ASSUME ssd = "loop", session # <<>>, session' = Tail(session)
        PROVE  /\ Requests(session) = One(Head(session)) + Requests(session)'
               /\ Requests(session)' \in Nat
    BY <1>1, <1>8, RequestsAre
  <1>9. CASE HandleRequest
    <2>1. One(Head(session)) = 1 /\ ssd = "loop" /\ ssd' = "send" /\ session # <<>>
          /\ session' = Tail(session) /\ w2' = w2 /\ UNCHANGED <<io, queries, asked>>
      BY <1>9 DEF HandleRequest, One, dio
    <2>2. Requests(session) = 1 + Requests(session)' /\ Requests(session)' \in Nat
      BY <1>8, <2>1
    <2>3. q' = q /\ s = 0 /\ s' = 1 /\ Len(w2)' = Len(w2)
      BY <1>2, <2>1
    <2>4. queries' = queries /\ asked' = asked
      BY <2>1
    <2>5. q' + s' + queries' + Len(w2)' + Requests(session)' = asked'
      <3> DEFINE n == Requests(session)'
                 l == Len(w2)
      <3>1. n \in Nat /\ l \in Nat /\ q \in Nat /\ queries \in Nat
        BY <1>1, <1>2, <1>3, <2>2
      <3>2. q + 0 + queries + l + (1 + n) = asked
        BY <1>3, <2>2, <2>3
      <3>3. q' + s' + queries' + Len(w2)' + Requests(session)' = q + 1 + queries + l + n
        BY <2>3, <2>4
      <3> HIDE DEF n, l
      <3> QED
        BY <2>4, <3>1, <3>2, <3>3
    <2> QED
      BY <1>1, <1>3, <1>4, <2>4, <2>5
  <1>10. CASE HandleReply
    <2>1. One(Head(session)) = 0 /\ ssd = "loop" /\ ssd' = "reply" /\ session # <<>>
          /\ session' = Tail(session) /\ UNCHANGED <<io, w2, queries, asked>>
      BY <1>10 DEF HandleReply, One, dio
    <2>2. Requests(session) = 0 + Requests(session)' /\ Requests(session)' \in Nat
      BY <1>8, <2>1
    <2>3. q' = q /\ s = 0 /\ s' = 0 /\ Len(w2)' = Len(w2)
      BY <1>2, <2>1
    <2>4. queries' = queries /\ asked' = asked
      BY <2>1
    <2>5. q' + s' + queries' + Len(w2)' + Requests(session)' = asked'
      BY <1>1, <1>2, <1>3, <2>2, <2>3, <2>4
    <2> QED
      BY <1>1, <1>3, <1>4, <2>4, <2>5
  <1>11. CASE SendEventToHpdio
    <2>1. /\ ssd = "send" /\ ssd' = "loop" /\ UNCHANGED <<session, io, queries, asked>>
          /\ w2' = Append(w2, cur.dev) /\ cur.dev \in Devices
      BY <1>11 DEF SendEventToHpdio, dio, MessagesOK, Requested
    <2>2. Len(w2)' = Len(w2) + 1 /\ Requests(session)' = Requests(session)
      BY <1>1, <2>1
    <2>3. q' = q /\ s = 1 /\ s' = 0
      BY <1>2, <2>1
    <2>4. queries' = queries /\ asked' = asked
      BY <2>1
    <2>5. q' + s' + queries' + Len(w2)' + Requests(session)' = asked'
      BY <1>1, <1>2, <1>3, <2>2, <2>3, <2>4
    <2> QED
      BY <1>1, <1>3, <1>4, <2>4, <2>5
  <1>12. CASE TakeEvent
    <2>1. /\ io = "select" /\ io' = "query" /\ UNCHANGED <<session, ssd, queries, asked>>
          /\ w2' = Tail(w2) /\ w2 # <<>>
      BY <1>12 DEF TakeEvent, ssdVars
    <2>2. Len(w2) = Len(w2)' + 1 /\ Len(w2)' \in Nat /\ Requests(session)' = Requests(session)
      BY <1>1, <2>1
    <2>3. q = 0 /\ q' = 1 /\ s' = s
      BY <1>2, <2>1
    <2>4. queries' = queries /\ asked' = asked
      BY <2>1
    <2>5. q' + s' + queries' + Len(w2)' + Requests(session)' = asked'
      BY <1>1, <1>2, <1>3, <2>2, <2>3, <2>4
    <2> QED
      BY <1>1, <1>3, <1>4, <2>4, <2>5
  <1>13. CASE QueryDevice
    <2>1. /\ io = "query" /\ io' = "write" /\ UNCHANGED <<session, ssd, w2, asked>>
          /\ queries' = queries + 1
      BY <1>13 DEF QueryDevice, ssdVars
    <2>2. q = 1 /\ q' = 0 /\ s' = s /\ Len(w2)' = Len(w2) /\ Requests(session)' = Requests(session)
      BY <1>2, <2>1
    <2> QED
      BY <1>1, <1>2, <1>3, <1>4, <2>1, <2>2
  <1>14. CASE SendReply
    <2>1. /\ io = "write" /\ io' = "select" /\ UNCHANGED <<ssd, w2, asked, queries>>
          /\ session' = Append(session, [kind |-> "reply", dev |-> dev, size |-> reply.size])
      BY <1>14 DEF SendReply, ssdVars
    <2> DEFINE m == [kind |-> "reply", dev |-> dev, size |-> reply.size]
    <2>2. m \in Requested \cup Replied /\ One(m) = 0
      BY <2>1, RepliesAre DEF Replied, One, MessagesOK
    <2>3. Requests(session)' = Requests(session)
      BY <1>1, <2>1, <2>2, RequestsAre
    <2>4. q' = q /\ s' = s /\ Len(w2)' = Len(w2)
      BY <1>2, <2>1
    <2> QED
      BY <1>1, <1>2, <1>3, <1>4, <2>1, <2>3, <2>4
  <1>15. CASE ReadReply \/ EndReply \/ HandleJobEvent \/ HandleRendered \/ OpenFifo \/ SaveFax
              \/ WriteReply
    BY <1>6, <1>15 DEF ReadReply, EndReply, HandleJobEvent, HandleRendered, OpenFifo, SaveFax,
       WriteReply, dio, ssdVars
  <1>16. ASSUME NEW j \in Jobs, \/ StartJob(j) \/ GiveUp(j) \/ CancelJob(j) \/ Hpfax(j)
                                 \/ CheckForWaitingFax(j)
         PROVE  LedgerInv'
    BY <1>6, <1>16 DEF StartJob, GiveUp, CancelJob, Hpfax, HpfaxBegin, HpfaxEnd, CheckForWaitingFax,
       dio, ssdVars
  <1>17. CASE UNCHANGED vars
    BY <1>6, <1>17 DEF vars, dio, ssdVars
  <1> QED
    BY <1>7, <1>9, <1>10, <1>11, <1>12, <1>13, <1>14, <1>15, <1>16, <1>17 DEF Next, Hpssd, Hpdio

-----------------------------------------------------------------------------
(* The histories.                                                          *)
HistInv ==
    /\ history = [d \in Devices |-> history[d]]
    /\ \A d \in Devices : RingInv(history[d], Event)
    /\ clock \in Nat

LEMMA HistInit ==
    ASSUME Init
    PROVE  HistInv /\ Recent!Init
  <1>1. RingInv(EmptyRing, Event) /\ Get(EmptyRing) = <<>>
    BY HistorySizeAssumption DEF RingInv, EmptyRing, Get
  <1>2. history = [d \in Devices |-> EmptyRing] /\ clock = 0
    BY DEF Init
  <1>3. HistInv
    BY <1>1, <1>2 DEF HistInv
  <1>4. [d \in Devices |-> Get(history[d])] = [d \in Devices |-> <<>>]
    BY <1>1, <1>2
  <1> QED
    BY <1>2, <1>3, <1>4 DEF Recent!Init

(* An event that is handled happens.                                       *)
LEMMA HandledHappens ==
    ASSUME HistInv, NEW d \in Devices, NEW c \in Codes, HandleEvent(d, c)
    PROVE  HistInv' /\ Recent!Next
  <1> DEFINE e == [code |-> c, stamp |-> clock]
  <1>1. e \in Event /\ RingInv(history[d], Event)
    BY DEF HistInv, Event
  <1>2. /\ RingInv(Recorded(history[d], e), Event)
        /\ Get(Recorded(history[d], e)) = Recent!With(Get(history[d]), e)
    BY <1>1, RecordedIs
  <1>3. /\ history' = [history EXCEPT ![d] = Recorded(history[d], e)]
        /\ clock' = clock + 1
    BY DEF HandleEvent
  <1>4. history' = [f \in Devices |-> IF f = d THEN Recorded(history[d], e) ELSE history[f]]
    BY <1>3 DEF HistInv
  <1> HIDE DEF e
  <1>5. HistInv'
    BY <1>2, <1>3, <1>4 DEF HistInv
  <1>6. Recent!Happens(d, c)
    <2> DEFINE g == [f \in Devices |-> Get(history[f])]
    <2>1. [f \in Devices |-> Get(history'[f])] = [g EXCEPT ![d] = Recent!With(g[d], e)]
      BY <1>2, <1>4
    <2> QED
      BY <1>3, <2>1 DEF Recent!Happens, e
  <1> QED
    BY <1>5, <1>6 DEF Recent!Next

LEMMA HistNext ==
    ASSUME MessagesOK, HistInv, [Next]_vars
    PROVE  HistInv' /\ [Recent!Next]_<<[d \in Devices |-> Get(history[d])], clock>>
  <1> DEFINE Goal == HistInv' /\ [Recent!Next]_<<[d \in Devices |-> Get(history[d])], clock>>
  <1>1. ASSUME UNCHANGED <<history, clock>>
        PROVE  Goal
    BY <1>1 DEF HistInv
  <1>2. CASE EndReply
    <2>1. CASE Len(data) = cur.size /\ Loads
      <3>1. cur.dev \in Devices /\ Len(data) >= 1
        BY <1>2, <2>1 DEF EndReply, MessagesOK, Replied
      <3>2. data[1] \in Replies
        BY <3>1, ElementOfSeq, LenProperties DEF MessagesOK
      <3>3. data[1].code \in Codes
        BY <3>2, RepliesAre
      <3>4. HandleEvent(cur.dev, data[1].code)
        BY <1>2, <2>1 DEF EndReply
      <3> QED
        BY <3>1, <3>3, <3>4, HandledHappens
    <2>2. CASE ~(Len(data) = cur.size /\ Loads)
      BY <1>1, <1>2, <2>2 DEF EndReply, known
    <2> QED
      BY <2>1, <2>2
  <1>3. CASE HandleJobEvent
    <2>1. Head(system).kind \in Codes /\ HandleEvent(FaxDevice, Head(system).kind)
      BY <1>3 DEF HandleJobEvent, Codes
    <2> QED
      BY <2>1, HandledHappens, ConstantsAssumption
  <1>4. CASE UNCHANGED vars
    BY <1>1, <1>4 DEF vars, known
  <1>5. CASE Next /\ ~EndReply /\ ~HandleJobEvent
    <2>1. UNCHANGED <<history, clock>>
      BY <1>5 DEF Next, Hpssd, Hpdio, Hpfax, known,
         Ask, HandleRequest, SendEventToHpdio, HandleReply, ReadReply, HandleRendered, OpenFifo,
         SaveFax, TakeEvent, QueryDevice, WriteReply, SendReply, StartJob, GiveUp, CancelJob,
         HpfaxBegin, HpfaxEnd, CheckForWaitingFax
    <2> QED
      BY <1>1, <2>1
  <1> QED
    BY <1>2, <1>3, <1>4, <1>5

(* The history of each device is its last events (create_history on the    *)
(* ring buffers of base/utils.py), for every HistorySize and every schedule *)
(* of hpssd, hpdio, the backends and the clients.                          *)
THEOREM HistoryRefines == Spec => HistoryIsRecent
  <1>1. Init => MessagesOK /\ LedgerInv /\ HistInv /\ Recent!Init
    BY LedgerInit, HistInit
  <1>2. MessagesOK /\ LedgerInv /\ HistInv /\ [Next]_vars
            => MessagesOK' /\ LedgerInv' /\ HistInv' /\ [Recent!Next]_<<[d \in Devices |-> Get(history[d])], clock>>
    BY LedgerNext, HistNext
  <1> QED
    BY <1>1, <1>2, PTL DEF Spec, HistoryIsRecent, Recent!Spec

-----------------------------------------------------------------------------
(* The faxes.                                                              *)

(* What hpssd keeps of a job is whole unless the job's backend was killed; *)
(* a backend killed by its client's end has no client any more.            *)
FaxInv ==
    /\ fax = [j \in Jobs |-> fax[j]] /\ sendfax = [j \in Jobs |-> sendfax[j]]
    /\ cache = [d \in Devices |-> cache[d]]
    /\ cache[FaxDevice] = [dq |-> cache[FaxDevice].dq, faxes |-> cache[FaxDevice].faxes]
    /\ \A f \in cache[FaxDevice].faxes :
          f.job \in Jobs /\ (~f.whole => fax[f.job] \in {"short", "cut"})
    /\ \A j \in Jobs : /\ fax[j] = "short" => sendfax[j] = "ended"
                       /\ sendfax[j] = "torn" => fax[j] = "cut"

LEMMA FaxInit ==
    ASSUME Init
    PROVE  FaxInv
  <1>1. FaxDevice \in Devices
    BY ConstantsAssumption
  <1> QED
    BY <1>1 DEF Init, FaxInv

(* What an update of the dq leaves alone.                                  *)
LEMMA FaxDqUpdate ==
    ASSUME FaxInv, UNCHANGED <<fax, sendfax>>, NEW d \in Devices, NEW q,
           cache' = [cache EXCEPT ![d].dq = q]
    PROVE  FaxInv'
  <1>1. FaxDevice \in Devices
    BY ConstantsAssumption
  <1>2. cache' = [f \in Devices |-> IF f = d THEN [cache[d] EXCEPT !.dq = q] ELSE cache[f]]
    BY DEF FaxInv
  <1>3. /\ cache' = [f \in Devices |-> cache'[f]]
        /\ cache'[FaxDevice] = [dq |-> cache'[FaxDevice].dq, faxes |-> cache'[FaxDevice].faxes]
        /\ cache'[FaxDevice].faxes = cache[FaxDevice].faxes
    <2>1. cache' = [f \in Devices |-> cache'[f]]
      BY <1>2, Zenon
    <2>2. CASE d = FaxDevice
      <3>1. cache'[FaxDevice] = [[dq |-> cache[FaxDevice].dq, faxes |-> cache[FaxDevice].faxes]
                                    EXCEPT !.dq = q]
        BY <1>1, <1>2, <2>2 DEF FaxInv
      <3> QED
        BY <2>1, <3>1
    <2>3. CASE d # FaxDevice
      <3>1. cache'[FaxDevice] = cache[FaxDevice]
        BY <1>1, <1>2, <2>3
      <3> QED
        BY <2>1, <3>1 DEF FaxInv
    <2> QED
      BY <2>2, <2>3
  <1> QED
    BY <1>3 DEF FaxInv

(* What an update of the faxes must keep.                                  *)
LEMMA FaxesUpdate ==
    ASSUME FaxInv, NEW F, cache' = [cache EXCEPT ![FaxDevice].faxes = F]
    PROVE  /\ cache' = [f \in Devices |-> cache'[f]]
           /\ cache'[FaxDevice] = [dq |-> cache'[FaxDevice].dq, faxes |-> cache'[FaxDevice].faxes]
           /\ cache'[FaxDevice].faxes = F
  <1>1. FaxDevice \in Devices
    BY ConstantsAssumption
  <1>2. cache' = [f \in Devices |->
                    IF f = FaxDevice THEN [cache[FaxDevice] EXCEPT !.faxes = F] ELSE cache[f]]
    BY DEF FaxInv
  <1>3. cache'[FaxDevice] = [[dq |-> cache[FaxDevice].dq, faxes |-> cache[FaxDevice].faxes]
                                EXCEPT !.faxes = F]
    BY <1>1, <1>2 DEF FaxInv
  <1> QED
    BY <1>2, <1>3

(* A step of the backend of job j.                                         *)
LEMMA FaxStep ==
    ASSUME FaxInv, UNCHANGED cache, NEW j \in Jobs, NEW x, NEW y,
           fax' = [fax EXCEPT ![j] = x], sendfax' = [sendfax EXCEPT ![j] = y],
           fax[j] \in {"short", "cut"} => x = fax[j],
           x = "short" => y = "ended", y = "torn" => x = "cut"
    PROVE  FaxInv'
  <1>1. /\ fax' = [k \in Jobs |-> IF k = j THEN x ELSE fax[k]]
        /\ sendfax' = [k \in Jobs |-> IF k = j THEN y ELSE sendfax[k]]
    BY DEF FaxInv
  <1> QED
    BY <1>1 DEF FaxInv

LEMMA FaxNext ==
    ASSUME MessagesOK, FaxInv, [Next]_vars
    PROVE  FaxInv'
  <1>1. ASSUME UNCHANGED <<fax, sendfax, cache>>
        PROVE  FaxInv'
    BY <1>1 DEF FaxInv
  <1>2. CASE EndReply
    <2>1. CASE Len(data) = cur.size /\ Loads
      <3>1. cur.dev \in Devices
        BY <1>2 DEF EndReply, MessagesOK, Replied
      <3>2. cache' = [cache EXCEPT ![cur.dev].dq = data[1]] /\ UNCHANGED <<fax, sendfax>>
        BY <1>2, <2>1 DEF EndReply, jobs
      <3> QED
        BY <3>1, <3>2, FaxDqUpdate
    <2>2. CASE ~(Len(data) = cur.size /\ Loads)
      BY <1>1, <1>2, <2>2 DEF EndReply, known, jobs
    <2> QED
      BY <2>1, <2>2
  <1>3. ASSUME NEW j \in Jobs, StartJob(j) PROVE FaxInv'
    <2>1. /\ fax' = [fax EXCEPT ![j] = "begin"] /\ sendfax' = [sendfax EXCEPT ![j] = "polling"]
          /\ fax[j] = "none" /\ UNCHANGED cache
      BY <1>3 DEF StartJob, known
    <2> QED
      BY <2>1, FaxStep
  <1>4. ASSUME NEW j \in Jobs, GiveUp(j) PROVE FaxInv'
    <2> DEFINE x == CASE fax[j] \in {"begin", "fifo"} -> "dead"
                      [] fax[j] = "writing" -> "short"
                      [] OTHER -> fax[j]
    <2>1. /\ fax' = [fax EXCEPT ![j] = x] /\ sendfax' = [sendfax EXCEPT ![j] = "ended"]
          /\ UNCHANGED cache
      BY <1>4 DEF GiveUp, Killed, known
    <2>2. fax[j] \in {"short", "cut"} => x = fax[j]
      OBVIOUS
    <2> HIDE DEF x
    <2> QED
      BY <2>1, <2>2, FaxStep
  <1>5. ASSUME NEW j \in Jobs, CancelJob(j) PROVE FaxInv'
    <2> DEFINE x == CASE fax[j] \in {"begin", "fifo"} -> "dead"
                      [] fax[j] = "writing" -> "cut"
                      [] OTHER -> fax[j]
    <2>1. /\ fax' = [fax EXCEPT ![j] = x] /\ UNCHANGED <<sendfax, cache>>
          /\ fax[j] \in {"begin", "fifo", "writing"}
      BY <1>5 DEF CancelJob, Killed, known
    <2>2. x \in {"dead", "cut"} /\ sendfax[j] # "torn"
      BY <2>1 DEF FaxInv
    <2>3. sendfax' = [sendfax EXCEPT ![j] = sendfax[j]]
      BY <2>1 DEF FaxInv
    <2> HIDE DEF x
    <2> QED
      BY <2>1, <2>2, <2>3, FaxStep
  <1>6. ASSUME NEW j \in Jobs, NEW x, fax' = [fax EXCEPT ![j] = x], UNCHANGED <<sendfax, cache>>,
               fax[j] \in {"begin", "fifo", "writing"}, x \in {"fifo", "writing", "done"}
        PROVE  FaxInv'
    <2>1. sendfax' = [sendfax EXCEPT ![j] = sendfax[j]] /\ sendfax[j] # "torn"
      BY <1>6 DEF FaxInv
    <2> QED
      BY <1>6, <2>1, FaxStep
  <1>7. ASSUME NEW j \in Jobs, HpfaxBegin(j) PROVE FaxInv'
    BY <1>6, <1>7 DEF HpfaxBegin, known
  <1>8. CASE OpenFifo
    <2>1. cur.job \in Jobs
      BY <1>8 DEF OpenFifo, MessagesOK, JobSignal
    <2> QED
      BY <1>6, <1>8, <2>1 DEF OpenFifo, known
  <1>9. ASSUME NEW j \in Jobs, HpfaxEnd(j) PROVE FaxInv'
    BY <1>6, <1>9 DEF HpfaxEnd, known
  <1>10. CASE SaveFax
    <2> DEFINE f == [job |-> cur.job, whole |-> fax[cur.job] = "done"]
    <2>1. /\ fax[cur.job] \in {"done", "short", "cut"} /\ UNCHANGED <<fax, sendfax>>
          /\ cache' = [cache EXCEPT ![FaxDevice].faxes = cache[FaxDevice].faxes \cup {f}]
      BY <1>10 DEF SaveFax, jobs
    <2>2. /\ cache' = [d \in Devices |-> cache'[d]]
          /\ cache'[FaxDevice] = [dq |-> cache'[FaxDevice].dq, faxes |-> cache'[FaxDevice].faxes]
          /\ cache'[FaxDevice].faxes = cache[FaxDevice].faxes \cup {f}
      BY <2>1, FaxesUpdate
    <2>3. f.job \in Jobs /\ (~f.whole => fax[f.job] \in {"short", "cut"})
      <3>1. cur.job \in Jobs
        BY <1>10 DEF SaveFax, MessagesOK, JobSignal
      <3> QED
        BY <2>1, <3>1
    <2> QED
      BY <2>1, <2>2, <2>3 DEF FaxInv
  <1>11. ASSUME NEW j \in Jobs, CheckForWaitingFax(j) PROVE FaxInv'
    <2>1. PICK f \in cache[FaxDevice].faxes :
             /\ f.job = j
             /\ cache' = [cache EXCEPT ![FaxDevice].faxes = cache[FaxDevice].faxes \ {f}]
             /\ sendfax' = [sendfax EXCEPT ![j] = IF f.whole THEN "got" ELSE "torn"]
      BY <1>11 DEF CheckForWaitingFax
    <2>2. sendfax[j] = "polling" /\ UNCHANGED fax
      BY <1>11 DEF CheckForWaitingFax
    <2>3. /\ cache' = [d \in Devices |-> cache'[d]]
          /\ cache'[FaxDevice] = [dq |-> cache'[FaxDevice].dq, faxes |-> cache'[FaxDevice].faxes]
          /\ cache'[FaxDevice].faxes = cache[FaxDevice].faxes \ {f}
      BY <2>1, FaxesUpdate
    <2>4. fax[j] # "short" /\ (~f.whole => fax[j] = "cut")
      BY <2>1, <2>2 DEF FaxInv
    <2>5. sendfax' = [k \in Jobs |-> IF k = j THEN IF f.whole THEN "got" ELSE "torn" ELSE sendfax[k]]
      BY <2>1 DEF FaxInv
    <2> QED
      BY <2>2, <2>3, <2>4, <2>5 DEF FaxInv
  <1>12. CASE UNCHANGED vars
    BY <1>1, <1>12 DEF vars, known, jobs
  <1>13. CASE Ask \/ HandleRequest \/ SendEventToHpdio \/ HandleReply \/ ReadReply \/ Hpdio
              \/ HandleJobEvent \/ HandleRendered
    <2>1. UNCHANGED <<fax, sendfax, cache>>
      BY <1>13 DEF Hpdio, known, jobs, Ask, HandleRequest, SendEventToHpdio, HandleReply,
         ReadReply, HandleJobEvent, HandleRendered, TakeEvent, QueryDevice, WriteReply, SendReply
    <2> QED
      BY <1>1, <2>1
  <1> QED
    BY <1>2, <1>3, <1>4, <1>5, <1>7, <1>8, <1>9, <1>10, <1>11, <1>12, <1>13
       DEF Next, Hpssd, Hpfax

(* A client that is handed less than the fax it had rendered lost the rest *)
(* to a kill of the backend by CUPS: neither its own end nor the order in  *)
(* which hpssd, the backends and the clients run tears a fax.              *)
THEOREM FaxesWhole == Spec => []FaxWhole
  <1>1. Init => MessagesOK /\ LedgerInv /\ FaxInv
    BY LedgerInit, FaxInit
  <1>2. MessagesOK /\ LedgerInv /\ FaxInv /\ [Next]_vars => MessagesOK' /\ LedgerInv' /\ FaxInv'
    BY LedgerNext, FaxNext
  <1>3. FaxInv => FaxWhole
    BY DEF FaxInv, FaxWhole
  <1> QED
    BY <1>1, <1>2, <1>3, PTL DEF Spec

-----------------------------------------------------------------------------
(* The types.                                                              *)

(* A ring holds as many elements as it may, of any larger set too.         *)
LEMMA RingIs ==
    ASSUME NEW S, NEW T, S \subseteq T, NEW r, RingInv(r, S)
    PROVE  RingInv(r, T) /\ r \in Ring(T)
  <1>1. /\ r.data \in Seq(S) /\ r.cur \in 0..HistorySize - 1 /\ r.full \in BOOLEAN
        /\ r = [data |-> r.data, cur |-> r.cur, full |-> r.full]
    BY DEF RingInv
  <1>2. Len(r.data) \in 0..HistorySize
    BY <1>1, LenProperties, HistorySizeAssumption DEF RingInv
  <1>3. r.data \in [1..Len(r.data) -> T] /\ r.data \in Seq(T)
    BY <1>1, LenProperties, ElementOfSeq, SeqDef
  <1>4. r.data \in UNION {[1..n -> T] : n \in 0..HistorySize}
    BY <1>2, <1>3
  <1>5. r \in [data : Seq(T), cur : 0..HistorySize - 1, full : BOOLEAN]
    BY <1>1, <1>3, Zenon
  <1>6. r \in Ring(T)
    <2> HIDE DEF RingInv
    <2> QED
      BY <1>1, <1>4, Zenon DEF Ring
  <1> QED
    BY <1>5, <1>6 DEF RingInv

Stamped(t) == [code : Codes, stamp : 0..t]
Fax == [job : Jobs, whole : BOOLEAN]

CacheInv == cache \in [Devices -> [dq : Replies \cup {None}, faxes : SUBSET Fax]]
StampInv ==
    /\ clock \in Nat /\ history = [d \in Devices |-> history[d]]
    /\ \A d \in Devices : RingInv(history[d], Stamped(clock))
PlaceInv ==
    /\ ssd \in {"loop", "send", "reply", "fifo", "fax"} /\ io \in {"select", "query", "write"}
    /\ io # "write" => reply = None
    /\ io = "write" => left <= reply.size
    /\ Len(w2) <= RequestCap /\ Len(r3) <= ReplyCap
JobsInv ==
    /\ fax \in [Jobs -> {"none", "begin", "fifo", "writing", "short", "cut", "done", "dead"}]
    /\ sendfax \in [Jobs -> {"none", "polling", "got", "torn", "ended"}]

(* The types hold when the daemons start.                                  *)
LEMMA TypesInit ==
    ASSUME Init
    PROVE  CacheInv /\ StampInv /\ PlaceInv /\ JobsInv
  <1> USE DEF Init
  <1>1. CacheInv
    BY DEF CacheInv
  <1>2. StampInv
    <2>1. RingInv(EmptyRing, Stamped(0))
      BY HistorySizeAssumption DEF RingInv, EmptyRing
    <2> QED
      BY <2>1 DEF StampInv
  <1>3. PlaceInv
    BY ConstantsAssumption DEF PlaceInv
  <1>4. JobsInv
    BY DEF JobsInv
  <1> QED
    BY <1>1, <1>2, <1>3, <1>4

(* What hpssd caches and records.                                          *)
LEMMA HandledTyped ==
    ASSUME StampInv, NEW d \in Devices, NEW c \in Codes, HandleEvent(d, c)
    PROVE  StampInv'
  <1> DEFINE e == [code |-> c, stamp |-> clock]
  <1>1. e \in Stamped(clock) /\ Stamped(clock) \subseteq Stamped(clock + 1)
    BY DEF Stamped, StampInv
  <1>2. \A f \in Devices : RingInv(history[f], Stamped(clock))
    BY DEF StampInv
  <1>3. RingInv(Recorded(history[d], e), Stamped(clock))
    BY <1>1, <1>2, RecordedIs
  <1>4. history' = [f \in Devices |-> IF f = d THEN Recorded(history[d], e) ELSE history[f]]
    BY DEF HandleEvent, StampInv
  <1> HIDE DEF e
  <1>5. \A f \in Devices : RingInv(history'[f], Stamped(clock))
    BY <1>2, <1>3, <1>4
  <1>6. \A f \in Devices : RingInv(history'[f], Stamped(clock + 1))
    BY <1>1, <1>5, RingIs
  <1>7. clock' = clock + 1 /\ clock' \in Nat
    BY DEF HandleEvent, StampInv
  <1>8. history' = [f \in Devices |-> history'[f]]
    BY <1>4, Zenon
  <1> QED
    BY <1>6, <1>7, <1>8 DEF StampInv

(* Only what hpssd handles happens, and the histories record it.           *)
LEMMA StampNext ==
    ASSUME MessagesOK, StampInv, [Next]_vars
    PROVE  StampInv'
  <1>1. ASSUME UNCHANGED <<history, clock>> PROVE StampInv'
    BY <1>1 DEF StampInv
  <1>2. CASE EndReply
    <2>1. CASE Len(data) = cur.size /\ Loads
      <3>1. cur.dev \in Devices /\ Len(data) >= 1
        BY <1>2, <2>1 DEF EndReply, MessagesOK, Replied
      <3>2. data[1] \in Replies
        BY <3>1, ElementOfSeq, LenProperties DEF MessagesOK
      <3>3. data[1].code \in Codes
        BY <3>2, RepliesAre
      <3>4. HandleEvent(cur.dev, data[1].code)
        BY <1>2, <2>1 DEF EndReply
      <3> QED
        BY <3>1, <3>3, <3>4, HandledTyped
    <2>2. CASE ~(Len(data) = cur.size /\ Loads)
      BY <1>1, <1>2, <2>2 DEF EndReply, known
    <2> QED
      BY <2>1, <2>2
  <1>3. CASE HandleJobEvent
    <2>1. Head(system).kind \in Codes /\ HandleEvent(FaxDevice, Head(system).kind)
      BY <1>3 DEF HandleJobEvent, Codes
    <2> QED
      BY <2>1, HandledTyped, ConstantsAssumption
  <1>4. CASE UNCHANGED vars
    BY <1>1, <1>4 DEF vars, known
  <1>5. CASE Next /\ ~EndReply /\ ~HandleJobEvent
    <2>1. UNCHANGED <<history, clock>>
      BY <1>5 DEF Next, Hpssd, Hpdio, Hpfax, known,
         Ask, HandleRequest, SendEventToHpdio, HandleReply, ReadReply, HandleRendered, OpenFifo,
         SaveFax, TakeEvent, QueryDevice, WriteReply, SendReply, StartJob, GiveUp, CancelJob,
         HpfaxBegin, HpfaxEnd, CheckForWaitingFax
    <2> QED
      BY <1>1, <2>1
  <1> QED
    BY <1>2, <1>3, <1>4, <1>5

(* hpssd caches replies, and the faxes the backends wrote.                 *)
LEMMA CacheNext ==
    ASSUME MessagesOK, JobsInv, CacheInv, [Next]_vars
    PROVE  CacheInv'
  <1> USE DEF CacheInv
  <1>0. FaxDevice \in Devices
    BY ConstantsAssumption
  <1>1. ASSUME UNCHANGED cache PROVE CacheInv'
    BY <1>1
  <1>2. CASE EndReply
    <2>1. CASE Len(data) = cur.size /\ Loads
      <3>1. cur.dev \in Devices /\ Len(data) >= 1
        BY <1>2, <2>1 DEF EndReply, MessagesOK, Replied
      <3>2. data[1] \in Replies
        BY <3>1, ElementOfSeq, LenProperties DEF MessagesOK
      <3>3. cache' = [cache EXCEPT ![cur.dev].dq = data[1]]
        BY <1>2, <2>1 DEF EndReply
      <3> QED
        BY <3>1, <3>2, <3>3
    <2>2. CASE ~(Len(data) = cur.size /\ Loads)
      BY <1>1, <1>2, <2>2 DEF EndReply, known
    <2> QED
      BY <2>1, <2>2
  <1>3. CASE SaveFax
    <2> DEFINE f == [job |-> cur.job, whole |-> fax[cur.job] = "done"]
               F == cache[FaxDevice].faxes \cup {f}
    <2>1. f \in Fax
      BY <1>3 DEF SaveFax, MessagesOK, JobSignal, Fax
    <2>2. F \in SUBSET Fax
      BY <1>0, <2>1
    <2>3. cache' = [cache EXCEPT ![FaxDevice].faxes = F]
      BY <1>3 DEF SaveFax
    <2> HIDE DEF F
    <2> QED
      BY <1>0, <2>2, <2>3
  <1>4. ASSUME NEW j \in Jobs, CheckForWaitingFax(j) PROVE CacheInv'
    <2>1. PICK f : cache' = [cache EXCEPT ![FaxDevice].faxes = @ \ {f}]
      BY <1>4 DEF CheckForWaitingFax
    <2> DEFINE F == cache[FaxDevice].faxes \ {f}
    <2>2. F \in SUBSET Fax
      BY <1>0
    <2>3. cache' = [cache EXCEPT ![FaxDevice].faxes = F]
      BY <2>1
    <2> HIDE DEF F
    <2> QED
      BY <1>0, <2>2, <2>3
  <1>5. CASE UNCHANGED vars
    BY <1>1, <1>5 DEF vars, known
  <1>6. CASE Next /\ ~EndReply /\ ~SaveFax /\ ~\E j \in Jobs : CheckForWaitingFax(j)
    <2>1. UNCHANGED cache
      BY <1>6 DEF Next, Hpssd, Hpdio, Hpfax, known,
         Ask, HandleRequest, SendEventToHpdio, HandleReply, ReadReply, HandleRendered, OpenFifo,
         HandleJobEvent, TakeEvent, QueryDevice, WriteReply, SendReply, StartJob, GiveUp, CancelJob,
         HpfaxBegin, HpfaxEnd
    <2> QED
      BY <1>1, <2>1
  <1> QED
    BY <1>2, <1>3, <1>4, <1>5, <1>6

(* The pipes hold what they have room for.                                 *)
LEMMA PlaceNext ==
    ASSUME MessagesOK, PlaceInv, [Next]_vars
    PROVE  PlaceInv'
  <1> USE DEF PlaceInv
  <1>0. /\ w2 \in Seq(Devices) /\ r3 \in Seq(Replies) /\ Len(w2) \in Nat /\ Len(r3) \in Nat
        /\ PipeBuf \in Nat \ {0} /\ RequestCap \in Nat /\ ReplyCap \in Nat
        /\ left \in Nat
    BY ConstantsAssumption DEF MessagesOK
  <1>1. ASSUME UNCHANGED <<w2, r3, io, reply, left>>,
               ssd' \in {"loop", "send", "reply", "fifo", "fax"}
        PROVE  PlaceInv'
    BY <1>1
  <1>2. CASE SendEventToHpdio
    <2>1. w2' = Append(w2, cur.dev) /\ cur.dev \in Devices /\ Len(w2) < RequestCap
      BY <1>2 DEF SendEventToHpdio, MessagesOK, Requested
    <2>2. Len(w2') <= RequestCap
      BY <1>0, <2>1
    <2> QED
      BY <1>2, <2>2 DEF SendEventToHpdio, dio
  <1>3. CASE TakeEvent
    <2>1. Len(w2') <= RequestCap
      BY <1>0, <1>3 DEF TakeEvent
    <2> QED
      BY <1>3, <2>1 DEF TakeEvent, ssdVars
  <1>4. CASE QueryDevice
    <2>1. PICK code \in Statuses \cup {"ioerror"} : reply' = Response(code) /\ left' = reply'.size
      BY <1>4 DEF QueryDevice
    <2>2. left' \in Nat
      BY <1>4, <2>1, ConstantsAssumption DEF Response, MessagesOK
    <2> QED
      BY <1>4, <2>1, <2>2 DEF QueryDevice, ssdVars
  <1>5. CASE WriteReply
    <2> DEFINE k == Least(PipeBuf, left)
    <2>1. k \in Nat /\ k <= left
      BY <1>0 DEF Least
    <2>2. /\ Len(r3) + k <= ReplyCap /\ r3' = r3 \o [i \in 1..k |-> reply] /\ left' = left - k
          /\ UNCHANGED <<io, reply, w2, ssd>> /\ reply \in Replies
      BY <1>5 DEF WriteReply, ssdVars, MessagesOK
    <2> HIDE DEF k
    <2>3. [i \in 1..k |-> reply] \in Seq(Replies) /\ Len([i \in 1..k |-> reply]) = k
      BY <2>1, <2>2, CopiesIs
    <2>4. Len(r3') <= ReplyCap
      BY <1>0, <2>1, <2>2, <2>3, ConcatProperties
    <2>5. left' <= reply.size
      <3>1. reply.size \in Nat
        BY <2>2, RepliesAre
      <3> QED
        BY <1>0, <1>5, <2>1, <2>2, <3>1 DEF WriteReply
    <2> QED
      BY <2>2, <2>4, <2>5
  <1>6. CASE SendReply
    BY <1>6 DEF SendReply, ssdVars
  <1>7. CASE ReadReply
    <2> DEFINE k == Least(PipeBuf, Len(r3))
    <2>1. k \in 0..Len(r3)
      BY <1>0 DEF Least
    <2>2. r3' = SubSeq(r3, k + 1, Len(r3))
      BY <1>7 DEF ReadReply
    <2> HIDE DEF k
    <2>3. Len(r3') <= Len(r3) /\ Len(r3') \in Nat
      BY <1>0, <2>1, <2>2
    <2>4. UNCHANGED <<w2, io, reply, left, ssd>>
      BY <1>7 DEF ReadReply, dio
    <2> QED
      BY <1>0, <2>3, <2>4
  <1>8. CASE HandleRequest \/ HandleReply \/ EndReply \/ HandleJobEvent \/ HandleRendered \/ OpenFifo
              \/ SaveFax
    BY <1>1, <1>8 DEF HandleRequest, HandleReply, EndReply, HandleJobEvent, HandleRendered, OpenFifo,
       SaveFax, dio, ssdVars
  <1>9. CASE Ask
    BY <1>1, <1>9 DEF Ask, dio, ssdVars
  <1>10. ASSUME NEW j \in Jobs, \/ StartJob(j) \/ GiveUp(j) \/ CancelJob(j) \/ Hpfax(j)
                                 \/ CheckForWaitingFax(j)
         PROVE  PlaceInv'
    BY <1>1, <1>10 DEF StartJob, GiveUp, CancelJob, Hpfax, HpfaxBegin, HpfaxEnd, CheckForWaitingFax,
       dio, ssdVars
  <1>11. CASE UNCHANGED vars
    BY <1>1, <1>11 DEF vars, dio, ssdVars
  <1> QED
    BY <1>2, <1>3, <1>4, <1>5, <1>6, <1>7, <1>8, <1>9, <1>10, <1>11 DEF Next, Hpssd, Hpdio

(* A backend and its client go through the stages of a fax.                *)
LEMMA JobsNext ==
    ASSUME JobsInv, [Next]_vars
    PROVE  JobsInv'
  <1> USE DEF JobsInv
  <1>1. ASSUME UNCHANGED jobs PROVE JobsInv'
    BY <1>1 DEF jobs
  <1>2. ASSUME NEW j \in Jobs, StartJob(j) PROVE JobsInv'
    BY <1>2 DEF StartJob
  <1>3. ASSUME NEW j \in Jobs, NEW torn \in {"short", "cut"}, fax' = Killed(j, torn)
        PROVE  fax' \in [Jobs -> {"none", "begin", "fifo", "writing", "short", "cut", "done", "dead"}]
    BY <1>3 DEF Killed
  <1>4. ASSUME NEW j \in Jobs, GiveUp(j) PROVE JobsInv'
    BY <1>3, <1>4 DEF GiveUp
  <1>5. ASSUME NEW j \in Jobs, CancelJob(j) PROVE JobsInv'
    BY <1>3, <1>5 DEF CancelJob
  <1>6. ASSUME NEW j \in Jobs, HpfaxBegin(j) PROVE JobsInv'
    BY <1>6 DEF HpfaxBegin
  <1>7. ASSUME NEW j \in Jobs, HpfaxEnd(j) PROVE JobsInv'
    BY <1>7 DEF HpfaxEnd
  <1>8. CASE OpenFifo
    BY <1>8 DEF OpenFifo
  <1>9. ASSUME NEW j \in Jobs, CheckForWaitingFax(j) PROVE JobsInv'
    BY <1>9 DEF CheckForWaitingFax
  <1>10. CASE Ask \/ HandleRequest \/ SendEventToHpdio \/ HandleReply \/ ReadReply \/ EndReply
              \/ HandleJobEvent \/ HandleRendered \/ SaveFax \/ Hpdio
    BY <1>1, <1>10 DEF Ask, HandleRequest, SendEventToHpdio, HandleReply, ReadReply, EndReply,
       HandleJobEvent, HandleRendered, SaveFax, Hpdio, TakeEvent, QueryDevice, WriteReply, SendReply, jobs
  <1>11. CASE UNCHANGED vars
    BY <1>1, <1>11 DEF vars
  <1> QED
    BY <1>2, <1>4, <1>5, <1>6, <1>7, <1>8, <1>9, <1>10, <1>11 DEF Next, Hpssd, Hpfax

(* Whatever comes over the pipes and signals, and however long the replies *)
(* are, every variable of the daemons keeps its type: no pipe holds more   *)
(* than it has room for, the histories are rings of events that happened,  *)
(* and each query answers one request.                                     *)
THEOREM TypeCorrect == Spec => []TypeOK
  <1> DEFINE I == /\ MessagesOK /\ LedgerInv /\ CacheInv /\ StampInv /\ PlaceInv /\ JobsInv
  <1>1. Init => I
    BY LedgerInit, TypesInit
  <1>2. I /\ [Next]_vars => I'
    BY LedgerNext, CacheNext, StampNext, PlaceNext, JobsNext
  <1>3. I => TypeOK
    <2> SUFFICES ASSUME I PROVE TypeOK
      OBVIOUS
    <2>1. \A d \in Devices :
              /\ cache[d].dq \in Replies \cup {None}
              /\ cache[d].faxes \subseteq [job : Jobs, whole : BOOLEAN]
      BY DEF CacheInv, Fax
    <2>2. \A d \in Devices : history[d] \in Ring([code : Codes, stamp : 0..clock])
      BY RingIs DEF StampInv, Stamped
    <2>3. asked \in 0..MaxRequests /\ queries \in 0..MaxRequests
      <3>1. Requests(session) \in Nat /\ Len(w2) \in Nat /\ MaxRequests \in Nat
        BY RequestsAre, ConstantsAssumption DEF MessagesOK
      <3>2. Count(io = "query") \in Nat /\ Count(ssd = "send") \in Nat
        BY DEF Count
      <3> QED
        BY <3>1, <3>2 DEF LedgerInv
    <2>4. reply \in Replies \cup {None}
      BY DEF PlaceInv, MessagesOK
    <2> QED
      BY <2>1, <2>2, <2>3, <2>4 DEF TypeOK, PlaceInv, JobsInv, MessagesOK
  <1> HIDE DEF I
  <1> QED
    BY <1>1, <1>2, <1>3, PTL DEF Spec

-----------------------------------------------------------------------------
(* The replies in the pipe.                                                *)

(* A pickle takes one write and less than a read.                          *)
RepliesShort == \A z \in Sizes : z < PipeBuf

(* Replies as hpdio makes them, whose length says of which device they     *)
(* are, and the signals that announce them.                                *)
Genuine == {r \in Replies : r.size = IF r.code = "ioerror" THEN ErrorSize ELSE DqSize[r.dev]}
Announced == {m \in Replied : m.size \in {ErrorSize, DqSize[m.dev]}}

(* Whole replies, one after the other: M has the places between them.      *)
Cut(s, M) ==
    /\ M \subseteq 0..Len(s) /\ 0 \in M /\ Len(s) \in M
    /\ \A m \in M : m < Len(s) =>
          /\ m + s[m + 1].size \in M
          /\ \A i \in m + 1 .. m + s[m + 1].size : s[i] = s[m + 1]
Whole(s) == \E M \in SUBSET Nat : Cut(s, M)

LEMMA GenuineAre ==
    ASSUME NEW r \in Genuine
    PROVE  r \in Replies /\ r.size \in Nat \ {0} /\ r.size \in Sizes
  BY RepliesAre DEF Genuine, Replies, Sizes

LEMMA WholeEmpty == Whole(<<>>)
  <1>1. Cut(<<>>, {0})
    BY DEF Cut
  <1> QED
    BY <1>1 DEF Whole

LEMMA WholeCopies ==
    ASSUME NEW r \in Genuine
    PROVE  /\ [i \in 1..r.size |-> r] \in Seq(Genuine) /\ Len([i \in 1..r.size |-> r]) = r.size
           /\ Whole([i \in 1..r.size |-> r])
  <1> DEFINE z == r.size
             s == [i \in 1..z |-> r]
  <1>1. z \in Nat \ {0}
    BY GenuineAre
  <1>2. s \in Seq(Genuine) /\ Len(s) = z /\ \A i \in 1..z : s[i] = r
    BY <1>1, CopiesIs
  <1>3. Cut(s, {0, z})
    <2> HIDE DEF s
    <2>1. s[0 + 1].size = z
      BY <1>1, <1>2
    <2>2. \A i \in 0 + 1 .. 0 + z : s[i] = s[0 + 1]
      BY <1>1, <1>2
    <2> HIDE DEF z
    <2> QED
      BY <1>1, <1>2, <2>1, <2>2 DEF Cut
  <1>4. {0, z} \in SUBSET Nat
    BY <1>1
  <1> QED
    BY <1>2, <1>3, <1>4 DEF Whole

LEMMA WholeJoin ==
    ASSUME NEW s \in Seq(Genuine), NEW t \in Seq(Genuine), Whole(s), Whole(t)
    PROVE  Whole(s \o t)
  <1>1. PICK M \in SUBSET Nat : Cut(s, M)
    BY DEF Whole
  <1>2. PICK N \in SUBSET Nat : Cut(t, N)
    BY DEF Whole
  <1> DEFINE w == s \o t
             l == Len(s)
             K == M \cup {l + m : m \in N}
  <1>3. /\ l \in Nat /\ Len(t) \in Nat /\ Len(w) = l + Len(t)
        /\ \A i \in 1..l : w[i] = s[i]
        /\ \A i \in 1..Len(t) : w[l + i] = t[i]
    <2>1. /\ Len(w) = Len(s) + Len(t)
          /\ \A i \in 1..Len(s) + Len(t) : w[i] = IF i <= Len(s) THEN s[i] ELSE t[i - Len(s)]
      BY ConcatProperties
    <2>2. Len(s) \in Nat /\ Len(t) \in Nat
      OBVIOUS
    <2> HIDE DEF w
    <2> QED
      BY <2>1, <2>2
  <1>4. /\ M \subseteq 0..l /\ 0 \in M /\ l \in M
        /\ N \subseteq 0..Len(t) /\ 0 \in N /\ Len(t) \in N
    BY <1>1, <1>2 DEF Cut
  <1>5. /\ \A m \in M : m < l => /\ m + s[m + 1].size \in M
                                 /\ \A i \in m + 1 .. m + s[m + 1].size : s[i] = s[m + 1]
        /\ \A m \in N : m < Len(t) => /\ m + t[m + 1].size \in N
                                      /\ \A i \in m + 1 .. m + t[m + 1].size : t[i] = t[m + 1]
    BY <1>1, <1>2 DEF Cut
  <1> HIDE DEF w, l
  <1>6. K \subseteq 0..Len(w) /\ 0 \in K /\ Len(w) \in K
    <2> DEFINE e == Len(w)
               k == Len(t)
    <2>1. \A m \in M : m \in 0..l
      BY <1>4
    <2>2. \A m \in N : m \in 0..k
      BY <1>4
    <2>3. l \in Nat /\ k \in Nat /\ e = l + k
      BY <1>3
    <2> HIDE DEF e, k
    <2>4. (\A m \in M : m \in 0..e) /\ \A m \in N : l + m \in 0..e
      BY <2>1, <2>2, <2>3
    <2>5. l + Len(t) \in K /\ 0 \in K
      BY <1>4
    <2>6. e \in K
      BY <2>3, <2>5 DEF k
    <2> QED
      BY <2>4, <2>5, <2>6 DEF e
  <1>7. ASSUME NEW m \in K, m < Len(w)
        PROVE  /\ m + w[m + 1].size \in K
               /\ \A i \in m + 1 .. m + w[m + 1].size : w[i] = w[m + 1]
    <2>1. CASE m \in M /\ m < l
      <3>1. m \in Nat /\ m + 1 \in 1..l /\ w[m + 1] = s[m + 1]
        BY <1>3, <1>4, <2>1
      <3>2. s[m + 1].size \in Nat
        BY <3>1, GenuineAre, ElementOfSeq DEF l
      <3>3. m + s[m + 1].size \in M /\ \A i \in m + 1 .. m + s[m + 1].size : s[i] = s[m + 1]
        BY <1>5, <2>1
      <3>4. m + s[m + 1].size <= l
        <4>1. m + s[m + 1].size \in 0..l
          BY <1>4, <3>3
        <4> QED
          BY <4>1
      <3>5. \A i \in m + 1 .. m + s[m + 1].size : w[i] = s[i]
        BY <1>3, <3>1, <3>2, <3>4
      <3> QED
        BY <3>1, <3>3, <3>5
    <2>2. CASE ~(m \in M /\ m < l)
      <3>1. PICK k \in N : m = l + k
        BY <1>3, <1>4, <2>2
      <3>2. k \in Nat /\ k < Len(t) /\ k + 1 \in 1..Len(t) /\ m + 1 = l + (k + 1)
        BY <1>3, <1>4, <1>7, <3>1
      <3>3. w[m + 1] = t[k + 1]
        BY <1>3, <3>2
      <3> DEFINE z == t[k + 1].size
      <3>4. z \in Nat
        BY <3>2, GenuineAre, ElementOfSeq
      <3>5. k + z \in N /\ \A i \in k + 1 .. k + z : t[i] = t[k + 1]
        BY <1>5, <3>2
      <3> HIDE DEF z
      <3>6. k + z <= Len(t) /\ m + z = l + (k + z)
        BY <1>3, <1>4, <3>1, <3>2, <3>4, <3>5
      <3>7. ASSUME NEW i \in m + 1 .. m + z PROVE w[i] = t[k + 1]
        <4>1. i - l \in k + 1 .. k + z /\ i - l \in 1..Len(t) /\ i = l + (i - l)
          BY <1>3, <3>1, <3>2, <3>4, <3>6
        <4>2. w[l + (i - l)] = t[i - l]
          BY <1>3, <4>1
        <4> QED
          BY <3>5, <4>1, <4>2
      <3>8. m + z \in K
        BY <3>5, <3>6
      <3> QED
        BY <3>3, <3>7, <3>8 DEF z
    <2> QED
      BY <2>1, <2>2
  <1>8. K \in SUBSET Nat
    <2>1. \A m \in N : m \in Nat
      OBVIOUS
    <2>2. \A m \in N : l + m \in Nat
      BY <1>3, <2>1
    <2> QED
      BY <2>2
  <1> HIDE DEF K
  <1>9. Cut(w, K)
    BY <1>6, <1>7 DEF Cut
  <1> QED
    BY <1>8, <1>9 DEF Whole, w

(* Whole replies, together as long as a reply for a device told apart,     *)
(* begin with a reply for that device, or for one that did not open.       *)
LEMMA WholeTold ==
    ASSUME NEW d \in ToldApart, NEW s \in Seq(Genuine), Whole(s), Len(s) > 0,
           Len(s) \in {ErrorSize, DqSize[d]}, Len(s) <= PipeBuf,
           s[1].code # "ioerror"
    PROVE  s[1].dev = d
  <1> DEFINE n == Len(s)
             z == s[1].size
             e == s[1].dev
  <1>1. n \in Nat /\ n > 0 /\ n \in {ErrorSize, DqSize[d]} /\ n <= PipeBuf /\ s[1] \in Genuine
    BY ElementOfSeq
  <1>2. PICK M \in SUBSET Nat : Cut(s, M)
    BY DEF Whole
  <1>3. /\ M \subseteq 0..n /\ 0 \in M /\ n \in M
        /\ \A m \in M : m < n => m + s[m + 1].size \in M
    BY <1>2 DEF Cut
  <1>4. z \in Nat \ {0} /\ z = DqSize[e] /\ e \in Devices
    BY <1>1, GenuineAre, RepliesAre DEF Genuine
  <1>5. z \in M
    <2>1. 0 + s[0 + 1].size \in M
      BY <1>1, <1>3
    <2>2. 0 + 1 = 1 /\ 0 + z = z
      BY <1>4
    <2> QED
      BY <2>1, <2>2
  <1>6. PICK mixed \in SUBSET (1..PipeBuf) :
            /\ \A c \in Devices \ {d} : DqSize[c] \in mixed
            /\ \A m \in mixed, x \in Sizes : m + x <= PipeBuf => m + x \in mixed
            /\ mixed \cap {ErrorSize, DqSize[d]} = {}
    BY DEF ToldApart
  <1>7. ASSUME NEW m \in M, m < n
        PROVE  s[m + 1].size \in Nat \ {0} /\ s[m + 1].size \in Sizes
    <2>1. m \in 0..n /\ n \in Nat
      BY <1>1, <1>3
    <2>2. m + 1 \in 1..n
      <3> HIDE DEF n
      <3> QED
        BY <1>7, <2>1
    <2>3. m + 1 \in 1..Len(s)
      BY <2>2
    <2> QED
      BY <2>3, GenuineAre, ElementOfSeq
  <1>8. n \notin mixed /\ PipeBuf \in Nat
    BY <1>1, <1>6, ConstantsAssumption
  <1> HIDE DEF z, n
  <1>9. CASE e # d
    <2> DEFINE Far(k) == \E m \in M : m < n /\ k <= m /\ m \in mixed
               T == {k \in 0..n : Far(k)}
    <2>1. 0 \in T
      <3>1. z \in mixed
        BY <1>4, <1>6, <1>9
      <3>2. z < n
        BY <1>1, <1>3, <1>4, <1>5, <1>8, <3>1
      <3> QED
        BY <1>1, <1>4, <1>5, <3>1, <3>2
    <2>2. ASSUME NEW k \in 0..n, k \in T, k < n PROVE k + 1 \in T
      <3>1. PICK m \in M : m < n /\ k <= m /\ m \in mixed
        BY <2>2
      <3> DEFINE x == s[m + 1].size
      <3>2. x \in Nat \ {0} /\ x \in Sizes /\ m + x \in M
        BY <1>3, <1>7, <3>1
      <3> HIDE DEF x
      <3>3. m + x \in mixed
        <4>1. m + x <= PipeBuf
          BY <1>1, <1>3, <1>8, <3>2
        <4> QED
          BY <1>6, <3>1, <3>2, <4>1
      <3>4. m + x # n
        BY <1>8, <3>3
      <3>5. m + x < n /\ k + 1 <= m + x
        BY <1>1, <1>3, <3>1, <3>2, <3>4
      <3>6. Far(k + 1)
        BY <3>2, <3>3, <3>5
      <3>7. k + 1 \in 0..n
        BY <1>1, <2>2
      <3> HIDE DEF Far
      <3> QED
        BY <3>6, <3>7
    <2>3. 0..n \subseteq T
      <3> HIDE DEF T
      <3> QED
        BY <1>1, <2>1, <2>2, Induction
    <2>4. n \in T
      BY <1>1, <2>3
    <2> QED
      BY <1>1, <1>3, <2>4
  <1> QED
    BY <1>9 DEF e

LEMMA ConcatRegroups ==
    ASSUME NEW S, NEW s \in Seq(S), NEW t \in Seq(S), NEW u \in Seq(S)
    PROVE  (s \o t) \o u = s \o (t \o u)
  <1> DEFINE p == s \o t
             q == t \o u
             x == p \o u
             y == s \o q
             k == Len(s)
             l == Len(t)
             m == Len(u)
  <1>1. p \in Seq(S) /\ Len(p) = k + l /\ \A i \in 1..k + l : p[i] = IF i <= k THEN s[i] ELSE t[i - k]
    BY ConcatProperties
  <1>2. q \in Seq(S) /\ Len(q) = l + m /\ \A i \in 1..l + m : q[i] = IF i <= l THEN t[i] ELSE u[i - l]
    BY ConcatProperties
  <1> HIDE DEF p, q
  <1>3. /\ x \in Seq(S) /\ Len(x) = Len(p) + m
        /\ \A i \in 1..Len(p) + m : x[i] = IF i <= Len(p) THEN p[i] ELSE u[i - Len(p)]
    <2>1. p \in Seq(S)
      BY <1>1
    <2> QED
      BY <2>1, ConcatProperties
  <1>4. /\ y \in Seq(S) /\ Len(y) = k + Len(q)
        /\ \A i \in 1..k + Len(q) : y[i] = IF i <= k THEN s[i] ELSE q[i - k]
    <2>1. q \in Seq(S)
      BY <1>2
    <2> QED
      BY <2>1, ConcatProperties
  <1>5. k \in Nat /\ l \in Nat /\ m \in Nat
    OBVIOUS
  <1> DEFINE n == k + l + m
  <1> HIDE DEF x, y, k, l, m
  <1>6. n \in Nat /\ Len(x) = n /\ Len(y) = n
    BY <1>1, <1>2, <1>3, <1>4, <1>5
  <1>7. ASSUME NEW i \in 1..n PROVE x[i] = y[i]
    <2>1. x[i] = IF i <= k + l THEN p[i] ELSE u[i - (k + l)]
      BY <1>1, <1>3, <1>5
    <2>2. y[i] = IF i <= k THEN s[i] ELSE q[i - k]
      BY <1>2, <1>4, <1>5
    <2>3. CASE i <= k
      <3>1. i \in 1..k + l /\ i <= k + l
        BY <1>5, <2>3
      <3> QED
        BY <1>1, <2>1, <2>2, <2>3, <3>1
    <2>4. CASE ~(i <= k)
      <3> DEFINE j == i - k
      <3>1. j \in 1..l + m /\ (j <= l <=> i <= k + l) /\ j - l = i - (k + l)
        BY <1>5, <2>4
      <3>2. q[j] = IF j <= l THEN t[j] ELSE u[j - l]
        BY <1>2, <3>1
      <3>3. i <= k + l => p[i] = t[j]
        <4>1. ASSUME i <= k + l PROVE i \in 1..k + l
          BY <1>5, <4>1
        <4> QED
          BY <1>1, <2>4, <4>1
      <3> QED
        BY <2>1, <2>2, <2>4, <3>1, <3>2, <3>3
    <2> QED
      BY <2>3, <2>4
  <1>8. x = y
    <2> HIDE DEF n
    <2>1. \A i \in 1..Len(x) : x[i] = y[i]
      BY <1>6, <1>7
    <2> QED
      BY <1>3, <1>4, <1>6, <2>1, SeqEqual
  <1> QED
    BY <1>8 DEF x, y, p, q

LEMMA Rejoined ==
    ASSUME NEW S, NEW s \in Seq(S), NEW n \in 0..Len(s)
    PROVE  SubSeq(s, 1, n) \o SubSeq(s, n + 1, Len(s)) = s
  <1> DEFINE a == SubSeq(s, 1, n)
             b == SubSeq(s, n + 1, Len(s))
             k == Len(s)
             w == a \o b
  <1>1. k \in Nat /\ n \in Nat /\ n <= k
    OBVIOUS
  <1>2. /\ a \in Seq(S) /\ Len(a) = n /\ \A i \in 1..n : a[i] = s[i]
        /\ b \in Seq(S) /\ Len(b) = k - n /\ \A i \in 1..k - n : b[i] = s[n + i]
    OBVIOUS
  <1>3. /\ w \in Seq(S) /\ Len(w) = Len(a) + Len(b)
        /\ \A i \in 1..Len(a) + Len(b) : w[i] = IF i <= Len(a) THEN a[i] ELSE b[i - Len(a)]
    BY <1>2, ConcatProperties
  <1> HIDE DEF a, b, k, w
  <1>4. Len(w) = k
    BY <1>1, <1>2, <1>3
  <1>5. ASSUME NEW i \in 1..k PROVE w[i] = s[i]
    <2>1. CASE i <= n
      <3>1. i \in 1..n /\ i \in 1..Len(a) + Len(b) /\ i <= Len(a)
        BY <1>1, <1>2, <2>1
      <3> QED
        BY <1>2, <1>3, <3>1
    <2>2. CASE ~(i <= n)
      <3>1. i - n \in 1..k - n /\ n + (i - n) = i
        BY <1>1, <2>2
      <3>2. w[i] = b[i - n]
        <4>1. i \in 1..Len(a) + Len(b) /\ ~(i <= Len(a)) /\ Len(a) = n
          BY <1>1, <1>2, <2>2
        <4> QED
          BY <1>3, <4>1
      <3> QED
        BY <1>2, <3>1, <3>2
    <2> QED
      BY <2>1, <2>2
  <1>6. Len(w) = Len(s)
    BY <1>4 DEF k
  <1>7. w = s
    BY <1>3, <1>4, <1>5, <1>6, SeqEqual
  <1> QED
    BY <1>7 DEF w, a, b

(* The pipe holds whole replies, and so does what hpssd has read of it,    *)
(* unless it has read more than any reply has.                             *)
PipeInv ==
    /\ data \in Seq(Genuine) /\ r3 \in Seq(Genuine)
    /\ \/ Whole(data) /\ Whole(r3)
       \/ Len(data) >= PipeBuf /\ Whole(data \o r3)
    /\ ssd # "reply" => data = <<>>

(* What hpdio has in hand and has announced.                               *)
AnnounceInv ==
    /\ session \in Seq(Requested \cup Announced)
    /\ io = "write" => reply \in Genuine /\ reply.dev = dev /\ left \in {0, reply.size}
    /\ ssd = "reply" => cur \in Announced
DqInv ==
    /\ cache = [d \in Devices |-> cache[d]] /\ \A d \in Devices : cache[d] = [dq |-> cache[d].dq, faxes |-> cache[d].faxes]
    /\ DqOfDevice

LEMMA AnnounceNext ==
    ASSUME RepliesShort, MessagesOK, MessagesOK', AnnounceInv, [Next]_vars
    PROVE  AnnounceInv'
  <1> USE DEF AnnounceInv
  <1>1. CASE UNCHANGED <<session, io, reply, dev, left, ssd, cur>>
    BY <1>1
  <1>2. CASE Ask
    <2>1. PICK d \in Devices : session' = Append(session, [kind |-> "requested", dev |-> d])
      BY <1>2 DEF Ask
    <2>2. [kind |-> "requested", dev |-> d] \in Requested \cup Announced
      BY DEF Requested
    <2>3. session' \in Seq(Requested \cup Announced)
      BY <2>1, <2>2, AppendProperties
    <2> QED
      BY <1>2, <2>3 DEF Ask, ssdVars, dio
  <1>3. CASE HandleRequest \/ HandleReply
    <2>1. /\ Head(session) \in Requested \cup Announced
          /\ session' \in Seq(Requested \cup Announced) /\ cur' = Head(session)
      BY <1>3, HeadTailProperties DEF HandleRequest, HandleReply
    <2>2. ssd' = "reply" => cur' \in Announced
      BY <1>3, <2>1 DEF HandleRequest, HandleReply, Requested
    <2> QED
      BY <1>3, <2>1, <2>2 DEF HandleRequest, HandleReply, dio
  <1>4. CASE SendEventToHpdio \/ EndReply \/ HandleRendered \/ OpenFifo \/ SaveFax
    BY <1>4 DEF SendEventToHpdio, EndReply, HandleRendered, OpenFifo, SaveFax, dio
  <1>5. CASE TakeEvent
    BY <1>5 DEF TakeEvent, ssdVars
  <1>6. CASE QueryDevice
    <2>1. reply' \in Replies /\ dev \in Devices
      BY <1>6 DEF MessagesOK, QueryDevice
    <2>2. PICK code \in Statuses \cup {"ioerror"} : reply' = Response(code) /\ left' = reply'.size
      BY <1>6 DEF QueryDevice
    <2>3. /\ reply'.dev = dev /\ reply'.code = code
          /\ reply'.size = IF code = "ioerror" THEN ErrorSize ELSE DqSize[dev]
      BY <2>2 DEF Response
    <2>4. reply' \in Genuine
      BY <2>1, <2>3 DEF Genuine
    <2> QED
      BY <1>6, <2>2, <2>3, <2>4 DEF QueryDevice, ssdVars
  <1>7. CASE WriteReply
    <2>1. reply.size \in Sizes /\ reply.size \in Nat \ {0} /\ reply.size < PipeBuf
      BY <1>7, GenuineAre DEF WriteReply, RepliesShort
    <2>2. left = reply.size /\ Least(PipeBuf, left) = left
      BY <1>7, <2>1, ConstantsAssumption DEF WriteReply, Least
    <2>3. left' = 0
      BY <1>7, <2>1, <2>2 DEF WriteReply
    <2> QED
      BY <1>7, <2>3 DEF WriteReply, ssdVars
  <1>8. CASE SendReply
    <2> DEFINE m == [kind |-> "reply", dev |-> dev, size |-> reply.size]
    <2>1. reply \in Genuine /\ reply.dev = dev /\ dev \in Devices
      BY <1>8 DEF SendReply, MessagesOK
    <2>2. reply.size \in Nat \ {0} /\ reply.size \in {ErrorSize, DqSize[dev]}
      BY <2>1, GenuineAre DEF Genuine
    <2>3. m \in Announced
      BY <2>1, <2>2 DEF Announced, Replied
    <2>4. session' = Append(session, m)
      BY <1>8 DEF SendReply
    <2> HIDE DEF m
    <2>5. session' \in Seq(Requested \cup Announced)
      BY <2>3, <2>4, AppendProperties
    <2> QED
      BY <1>8, <2>5 DEF SendReply, ssdVars
  <1>9. CASE ReadReply \/ HandleJobEvent \/ UNCHANGED vars
    BY <1>1, <1>9 DEF ReadReply, HandleJobEvent, vars, ssdVars, dio
  <1>10. ASSUME NEW j \in Jobs, \/ StartJob(j) \/ GiveUp(j) \/ CancelJob(j) \/ Hpfax(j)
                                \/ CheckForWaitingFax(j)
         PROVE  AnnounceInv'
    BY <1>1, <1>10 DEF StartJob, GiveUp, CancelJob, Hpfax, HpfaxBegin, HpfaxEnd, CheckForWaitingFax,
       dio, ssdVars
  <1> HIDE DEF AnnounceInv
  <1> QED
    BY <1>2, <1>3, <1>4, <1>5, <1>6, <1>7, <1>8, <1>9, <1>10 DEF Next, Hpssd, Hpdio

LEMMA PipeNext ==
    ASSUME RepliesShort, AnnounceInv, PipeInv, PlaceInv, MessagesOK, [Next]_vars
    PROVE  PipeInv'
  <1> USE DEF PipeInv
  <1>1. ASSUME UNCHANGED <<data, r3>>, ssd' # "reply" => ssd # "reply"
        PROVE  PipeInv'
    BY <1>1
  <1>2. CASE ReadReply
    <2> DEFINE n == Least(PipeBuf, Len(r3))
               a == SubSeq(r3, 1, n)
               b == SubSeq(r3, n + 1, Len(r3))
    <2>1. data' = data \o a /\ r3' = b /\ ssd' = ssd /\ ssd = "reply" /\ r3 # <<>>
      BY <1>2 DEF ReadReply, ssdVars
    <2>2. Len(r3) \in Nat /\ PipeBuf \in Nat \ {0} /\ Len(data) \in Nat
      BY ConstantsAssumption
    <2>3. n \in 0..Len(r3) /\ n = IF PipeBuf < Len(r3) THEN PipeBuf ELSE Len(r3)
      BY <2>2 DEF Least
    <2>4. a \in Seq(Genuine) /\ b \in Seq(Genuine) /\ Len(a) = n
      BY <2>2, <2>3
    <2>5. a \o b = r3 /\ (data \o a) \o b = data \o r3
      <3>1. a \o b = r3
        BY <2>2, <2>3, Rejoined
      <3>2. (data \o a) \o b = data \o (a \o b)
        <4>1. data \in Seq(Genuine) /\ a \in Seq(Genuine) /\ b \in Seq(Genuine)
          BY <2>4
        <4> HIDE DEF a, b, PipeInv
        <4> QED
          BY <4>1, ConcatRegroups
      <3> HIDE DEF a, b
      <3> QED
        BY <3>1, <3>2, Zenon
    <2> HIDE DEF a, b
    <2>6. data' \in Seq(Genuine) /\ r3' \in Seq(Genuine) /\ Len(data') = Len(data) + n
      BY <2>1, <2>4, ConcatProperties
    <2>7. CASE Len(data) >= PipeBuf /\ Whole(data \o r3)
      <3>1. data' \o r3' = data \o r3
        BY <2>1, <2>5
      <3>2. Len(data') >= PipeBuf
        BY <2>2, <2>3, <2>6, <2>7
      <3> QED
        BY <2>1, <2>6, <2>7, <3>1, <3>2
    <2>8. CASE Whole(data) /\ Whole(r3) /\ Len(r3) > PipeBuf
      <3>1. data' \o r3' = data \o r3
        BY <2>1, <2>5
      <3>2. Whole(data \o r3)
        BY <2>8, WholeJoin
      <3>3. Len(data') >= PipeBuf
        BY <2>2, <2>3, <2>6, <2>8
      <3> QED
        BY <2>1, <2>6, <3>1, <3>2, <3>3
    <2>9. CASE Whole(data) /\ Whole(r3) /\ ~(Len(r3) > PipeBuf)
      <3>1. n = Len(r3)
        BY <2>2, <2>3, <2>9
      <3>2. a = r3 /\ b = <<>>
        BY <2>2, <3>1 DEF a, b
      <3>3. Whole(data') /\ Whole(r3')
        BY <2>1, <2>9, <3>2, WholeJoin, WholeEmpty
      <3> QED
        BY <2>1, <2>6, <3>3
    <2> QED
      BY <2>7, <2>8, <2>9
  <1>3. CASE EndReply
    <2>1. data' = <<>> /\ r3' = r3 /\ ssd' = "loop" /\ ssd = "reply" /\ (r3 = <<>> \/ Len(data) = cur.size)
      BY <1>3 DEF EndReply
    <2>2. cur.size \in Sizes /\ cur.size < PipeBuf
      BY <2>1 DEF AnnounceInv, Announced, Replied, Sizes, RepliesShort
    <2>3. Whole(r3)
      <3>1. CASE r3 = <<>>
        BY <3>1, WholeEmpty
      <3>2. CASE Len(data) = cur.size
        <4>1. cur.size \in Nat /\ PipeBuf \in Nat
          BY <2>1, ConstantsAssumption DEF AnnounceInv, Announced, Replied
        <4> QED
          BY <2>2, <3>2, <4>1
      <3> QED
        BY <2>1, <3>1, <3>2
    <2> QED
      BY <2>1, <2>3, WholeEmpty
  <1>4. CASE HandleReply
    <2>1. data = <<>> /\ data' = <<>> /\ r3' = r3
      BY <1>4 DEF HandleReply
    <2>2. Whole(r3)
      BY <2>1, ConstantsAssumption
    <2> QED
      BY <2>1, <2>2, WholeEmpty
  <1>5. CASE WriteReply
    <2> DEFINE u == [i \in 1..reply.size |-> reply]
    <2>1. reply \in Genuine /\ reply.size \in Sizes /\ reply.size \in Nat \ {0} /\ reply.size < PipeBuf
      BY <1>5, GenuineAre DEF WriteReply, RepliesShort, AnnounceInv
    <2>2. left = reply.size /\ Least(PipeBuf, left) = left
      BY <1>5, <2>1, ConstantsAssumption DEF WriteReply, Least, AnnounceInv
    <2>3. r3' = r3 \o u /\ UNCHANGED <<data, ssd>>
      BY <1>5, <2>2 DEF WriteReply, ssdVars
    <2>4. u \in Seq(Genuine) /\ Whole(u)
      BY <2>1, WholeCopies
    <2> HIDE DEF u
    <2>5. r3' \in Seq(Genuine)
      BY <2>3, <2>4, ConcatProperties
    <2>6. CASE Whole(data) /\ Whole(r3)
      BY <2>3, <2>4, <2>5, <2>6, WholeJoin
    <2>7. CASE Len(data) >= PipeBuf /\ Whole(data \o r3)
      <3>1. data \o r3 \in Seq(Genuine) /\ (data \o r3) \o u = data \o (r3 \o u)
        BY <2>4, ConcatProperties, ConcatRegroups
      <3>2. Whole((data \o r3) \o u)
        BY <2>4, <2>7, <3>1, WholeJoin
      <3> QED
        BY <2>3, <2>5, <2>7, <3>1, <3>2
    <2> QED
      BY <2>6, <2>7
  <1>6. CASE \/ Ask \/ HandleRequest \/ SendEventToHpdio \/ HandleJobEvent \/ HandleRendered \/ OpenFifo
             \/ SaveFax \/ TakeEvent \/ QueryDevice \/ SendReply \/ UNCHANGED vars
    BY <1>1, <1>6 DEF Ask, HandleRequest, SendEventToHpdio, HandleJobEvent, HandleRendered, OpenFifo,
       SaveFax, TakeEvent, QueryDevice, SendReply, vars, ssdVars
  <1>7. ASSUME NEW j \in Jobs, \/ StartJob(j) \/ GiveUp(j) \/ CancelJob(j) \/ Hpfax(j)
                               \/ CheckForWaitingFax(j)
        PROVE  PipeInv'
    BY <1>1, <1>7 DEF StartJob, GiveUp, CancelJob, Hpfax, HpfaxBegin, HpfaxEnd, CheckForWaitingFax,
       ssdVars
  <1> HIDE DEF PipeInv
  <1> QED
    BY <1>2, <1>3, <1>4, <1>5, <1>6, <1>7 DEF Next, Hpssd, Hpdio

LEMMA DqNext ==
    ASSUME RepliesShort, AnnounceInv, PipeInv, DqInv, [Next]_vars
    PROVE  DqInv'
  <1> USE DEF DqInv
  <1>1. ASSUME UNCHANGED cache
        PROVE  DqInv'
    BY <1>1 DEF DqOfDevice, OfDevice, ToldApart
  <1>2. CASE EndReply
    <2>1. CASE ~(Len(data) = cur.size /\ Loads)
      BY <1>1, <1>2, <2>1 DEF EndReply, known
    <2>2. CASE Len(data) = cur.size /\ Loads
      <3>1. cur \in Announced /\ cache' = [cache EXCEPT ![cur.dev].dq = data[1]]
        BY <1>2, <2>2 DEF EndReply, AnnounceInv
      <3>2. /\ cur.dev \in Devices /\ cur.size \in Nat \ {0} /\ cur.size \in Sizes /\ cur.size < PipeBuf
            /\ cur.size \in {ErrorSize, DqSize[cur.dev]}
        BY <3>1 DEF Announced, Replied, Sizes, RepliesShort
      <3>3. Whole(data)
        BY <2>2, <3>2, ConstantsAssumption DEF PipeInv
      <3>4. Len(data) > 0 /\ Len(data) <= PipeBuf /\ data \in Seq(Genuine)
        BY <2>2, <3>2, ConstantsAssumption DEF PipeInv
      <3>5. cur.dev \in ToldApart => data[1].code = "ioerror" \/ data[1].dev = cur.dev
        BY <2>2, <3>2, <3>3, <3>4, WholeTold
      <3>6. \A d \in Devices : d # cur.dev => cache'[d] = cache[d]
        BY <3>1
      <3>7. cache'[cur.dev] = [cache[cur.dev] EXCEPT !.dq = data[1]]
        BY <3>1, <3>2
      <3>8. cache'[cur.dev].dq = data[1] /\ cache'[cur.dev] = [dq |-> cache'[cur.dev].dq, faxes |-> cache'[cur.dev].faxes]
        BY <3>2, <3>7
      <3>9. cache' = [d \in Devices |-> cache'[d]]
        BY <3>1
      <3> QED
        BY <3>5, <3>6, <3>8, <3>9 DEF DqOfDevice, OfDevice, ToldApart
    <2> QED
      BY <2>1, <2>2
  <1>3. ASSUME NEW faxes, cache' = [cache EXCEPT ![FaxDevice].faxes = faxes]
        PROVE  DqInv'
    <2>1. \A d \in Devices : d # FaxDevice => cache'[d] = cache[d]
      BY <1>3
    <2>2. FaxDevice \in Devices
      BY ConstantsAssumption
    <2>3. cache'[FaxDevice] = [cache[FaxDevice] EXCEPT !.faxes = faxes]
      BY <1>3, <2>2
    <2>4. /\ cache'[FaxDevice].dq = cache[FaxDevice].dq
          /\ cache'[FaxDevice] = [dq |-> cache'[FaxDevice].dq, faxes |-> cache'[FaxDevice].faxes]
      BY <2>2, <2>3
    <2>5. cache' = [d \in Devices |-> cache'[d]]
      BY <1>3
    <2> QED
      BY <2>1, <2>2, <2>4, <2>5 DEF DqOfDevice, OfDevice, ToldApart
  <1>4. CASE SaveFax
    BY <1>3, <1>4 DEF SaveFax
  <1>5. ASSUME NEW j \in Jobs, CheckForWaitingFax(j)
        PROVE  DqInv'
    BY <1>3, <1>5 DEF CheckForWaitingFax
  <1>6. CASE \/ Ask \/ HandleRequest \/ SendEventToHpdio \/ HandleReply \/ ReadReply \/ HandleJobEvent
             \/ HandleRendered \/ OpenFifo \/ Hpdio \/ UNCHANGED vars
    BY <1>1, <1>6 DEF Ask, HandleRequest, SendEventToHpdio, HandleReply, ReadReply, HandleJobEvent,
       HandleRendered, OpenFifo, Hpdio, TakeEvent, QueryDevice, WriteReply, SendReply, vars, known
  <1>7. ASSUME NEW j \in Jobs, StartJob(j) \/ GiveUp(j) \/ CancelJob(j) \/ Hpfax(j)
        PROVE  DqInv'
    BY <1>1, <1>7 DEF StartJob, GiveUp, CancelJob, Hpfax, HpfaxBegin, HpfaxEnd, known
  <1> HIDE DEF DqInv
  <1> QED
    BY <1>2, <1>4, <1>5, <1>6, <1>7 DEF Next, Hpssd

(* What hpssd caches for a device told apart is the reply to a query of    *)
(* that device, however replies pile up in the pipe while hpssd serves a   *)
(* fax, if each takes less than one write: replies are written and read    *)
(* whole, so that what is as long as the announced reply begins with one   *)
(* of that device, whatever the lengths of the others.                     *)
THEOREM DqsOfDevices == Spec => [](RepliesShort => DqOfDevice)
  <1> DEFINE I == /\ MessagesOK /\ LedgerInv /\ PlaceInv
                  /\ RepliesShort => AnnounceInv /\ PipeInv /\ DqInv
  <1>1. Init => I
    <2> SUFFICES ASSUME Init PROVE I
      OBVIOUS
    <2>1. MessagesOK /\ LedgerInv /\ PlaceInv
      BY LedgerInit, TypesInit
    <2>2. AnnounceInv /\ PipeInv
      BY WholeEmpty DEF Init, AnnounceInv, PipeInv
    <2>3. DqInv
      BY DEF Init, DqInv, DqOfDevice, OfDevice, ToldApart
    <2> QED
      BY <2>1, <2>2, <2>3
  <1>2. I /\ [Next]_vars => I'
    BY LedgerNext, PlaceNext, AnnounceNext, PipeNext, DqNext
  <1>3. I => (RepliesShort => DqOfDevice)
    BY DEF DqInv
  <1> HIDE DEF I
  <1> QED
    BY <1>1, <1>2, <1>3, PTL DEF Spec
=============================================================================
