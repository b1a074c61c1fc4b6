---------------------------- MODULE SelectProofs ----------------------------
(***************************************************************************)
(* Theorems about the select statement of gs/builtin/channel.ts on top of  *)
(* the channels, for every number of goroutines, channels, statements and  *)
(* cases.                                                                  *)
(***************************************************************************)
EXTENDS Select, ChannelProofs, FiniteSetTheorems

-----------------------------------------------------------------------------
(* What the abort of a select leaves of a queue.                           *)

\* f[n] is what remains of the first n entries.
Keeps(f, n, q, gone) ==
  f = [m \in 0..n |-> IF m = 0 THEN <<>>
                      ELSE IF q[m] \in gone THEN f[m - 1] ELSE Append(f[m - 1], q[m])]

LEMMA KeepsExists ==
  ASSUME NEW n \in Nat, NEW q, NEW gone
  PROVE  \E f : Keeps(f, n, q, gone)
<1> DEFINE T == {m \in Nat : ~ \E f : Keeps(f, m, q, gone)}
<1>1. ASSUME T # {} PROVE FALSE
  <2>1. PICK m \in T : \A k \in T : m <= k
    <3>1. T \subseteq Nat
      OBVIOUS
    <3> HIDE DEF T
    <3> QED BY <3>1, <1>1, NatMin
  <2>2. m \in Nat /\ ~ \E f : Keeps(f, m, q, gone)
    BY <2>1
  <2>3. \E f : m > 0 => Keeps(f, m - 1, q, gone)
    <3>1. CASE m = 0
      BY <3>1
    <3>2. CASE m > 0
      <4>1. m - 1 \in Nat /\ m - 1 \notin T
        BY <2>1, <2>2, <3>2
      <4> QED BY <4>1
    <3> QED BY <2>2, <3>1, <3>2
  <2>4. PICK f : m > 0 => Keeps(f, m - 1, q, gone)
    BY <2>3
  <2> DEFINE last == IF m = 0 THEN <<>>
                     ELSE IF q[m] \in gone THEN f[m - 1] ELSE Append(f[m - 1], q[m])
             h == [x \in 0..m |-> IF x < m THEN f[x] ELSE last]
             k == [x \in 0..m |-> IF x = 0 THEN <<>>
                      ELSE IF q[x] \in gone THEN h[x - 1] ELSE Append(h[x - 1], q[x])]
  <2>5. \A x \in 0..m : h[x] = k[x]
    <3> TAKE x \in 0..m
    <3>1. CASE x = m
      <4>1. m > 0 => h[m - 1] = f[m - 1]
        BY <2>2
      <4> HIDE DEF last
      <4>2. h[x] = last
        BY <2>2, <3>1
      <4> QED BY <2>2, <3>1, <4>1, <4>2 DEF last
    <3>2. CASE x < m
      <4>1. x \in 0..(m - 1) /\ m > 0
        BY <2>2, <3>2
      <4>2. f[x] = IF x = 0 THEN <<>>
                   ELSE IF q[x] \in gone THEN f[x - 1] ELSE Append(f[x - 1], q[x])
        BY <2>4, <4>1 DEF Keeps
      <4>3. h[x] = f[x] /\ (x > 0 => h[x - 1] = f[x - 1])
        <5> HIDE DEF last
        <5> QED BY <2>2, <3>2
      <4> QED BY <4>1, <4>2, <4>3
    <3> QED BY <2>2, <3>1, <3>2
  <2>6. Keeps(h, m, q, gone)
    <3>1. h = [x \in 0..m |-> h[x]] /\ k = [x \in 0..m |-> k[x]]
      <4> HIDE DEF last
      <4> QED OBVIOUS
    <3> HIDE DEF h
    <3>2. k = h
      <4> HIDE DEF k
      <4> QED BY <2>5, <3>1
    <3> QED BY <3>2 DEF Keeps
  <2> QED BY <2>2, <2>6
<1> QED BY <1>1

LEMMA RemainingKeeps ==
  ASSUME NEW R, NEW q \in Seq(R), NEW gone
  PROVE  \E f : Keeps(f, Len(q), q, gone) /\ Remaining(q, gone) = f[Len(q)]
<1> DEFINE C == CHOOSE f : Keeps(f, Len(q), q, gone)
<1>1. Keeps(C, Len(q), q, gone)
  <2>1. Len(q) \in Nat
    OBVIOUS
  <2> QED BY <2>1, KeepsExists
<1>2. Remaining(q, gone) = C[Len(q)]
  BY DEF Remaining, Keeps
<1> HIDE DEF C
<1> QED BY <1>1, <1>2

\* r lists the first n entries of q that are not gone, in their order.
Thinned(r, R, q, n, gone) ==
  /\ r \in Seq(R)
  /\ \E e \in [1..Len(r) -> 1..n] :
       /\ \A j, k \in 1..Len(r) : j < k => e[j] < e[k]
       /\ \A k \in 1..Len(r) : r[k] = q[e[k]] /\ r[k] \notin gone
       /\ \A i \in 1..n : q[i] \notin gone => \E k \in 1..Len(r) : e[k] = i

LEMMA ThinnedSteps ==
  ASSUME NEW R, NEW q \in Seq(R), NEW gone, NEW n \in Nat, n + 1 \in 1..Len(q),
         NEW r, Thinned(r, R, q, n, gone)
  PROVE  /\ q[n + 1] \in gone => Thinned(r, R, q, n + 1, gone)
         /\ q[n + 1] \notin gone => Thinned(Append(r, q[n + 1]), R, q, n + 1, gone)
<1>1. r \in Seq(R) /\ Len(r) \in Nat
  BY DEF Thinned
<1>2. PICK e \in [1..Len(r) -> 1..n] :
        /\ \A j, k \in 1..Len(r) : j < k => e[j] < e[k]
        /\ \A k \in 1..Len(r) : r[k] = q[e[k]] /\ r[k] \notin gone
        /\ \A i \in 1..n : q[i] \notin gone => \E k \in 1..Len(r) : e[k] = i
  BY DEF Thinned
<1>3. ASSUME q[n + 1] \in gone PROVE Thinned(r, R, q, n + 1, gone)
  <2>1. e \in [1..Len(r) -> 1..(n + 1)]
    BY <1>2
  <2>2. \A i \in 1..(n + 1) : q[i] \notin gone => i \in 1..n
    BY <1>3
  <2>3. \A i \in 1..(n + 1) : q[i] \notin gone => \E k \in 1..Len(r) : e[k] = i
    BY <1>2, <2>2
  <2>4. /\ \A j, k \in 1..Len(r) : j < k => e[j] < e[k]
        /\ \A k \in 1..Len(r) : r[k] = q[e[k]] /\ r[k] \notin gone
    BY <1>2
  <2> HIDE <1>2
  <2> QED BY <1>1, <2>1, <2>3, <2>4, Zenon DEF Thinned
<1>4. ASSUME q[n + 1] \notin gone
      PROVE  Thinned(Append(r, q[n + 1]), R, q, n + 1, gone)
  <2>1. PICK x \in R : x = q[n + 1]
    OBVIOUS
  <2>2. PICK l \in Nat : l = Len(r)
    BY <1>1
  <2>3. PICK s : s = Append(r, x)
    OBVIOUS
  <2>4. /\ s \in Seq(R) /\ Len(s) = l + 1 /\ s[l + 1] = x
        /\ \A k \in 1..l : s[k] = r[k]
    BY <1>1, <2>2, <2>3
  <2>5. PICK d : d = [k \in 1..(l + 1) |-> IF k \in 1..l THEN e[k] ELSE n + 1]
    OBVIOUS
  <2>6. /\ d \in [1..(l + 1) -> 1..(n + 1)] /\ d[l + 1] = n + 1
        /\ \A k \in 1..l : d[k] = e[k] /\ e[k] \in 1..n
    <3>1. \A k \in 1..l : e[k] \in 1..n
      BY <1>2, <2>2
    <3>2. \A k \in 1..(l + 1) :
            /\ d[k] = IF k \in 1..l THEN e[k] ELSE n + 1
            /\ d[k] \in 1..(n + 1)
      BY <2>5, <3>1
    <3>3. l + 1 \in 1..(l + 1) /\ l + 1 \notin 1..l /\ \A k \in 1..l : k \in 1..(l + 1)
      OBVIOUS
    <3>4. d \in [1..(l + 1) -> 1..(n + 1)]
      BY <2>5, <3>2
    <3> QED BY <3>1, <3>2, <3>3, <3>4
  <2>k. \A k \in 1..(l + 1) : k \in 1..l \/ k = l + 1
    OBVIOUS
  <2>7. \A j, k \in 1..(l + 1) : j < k => d[j] < d[k]
    <3> TAKE j, k \in 1..(l + 1)
    <3> HAVE j < k
    <3>1. j \in 1..l
      OBVIOUS
    <3>2. CASE k \in 1..l
      BY <1>2, <2>2, <2>6, <3>1, <3>2
    <3>3. CASE k = l + 1
      BY <2>6, <3>1, <3>3
    <3> QED BY <2>k, <3>2, <3>3
  <2>8. \A k \in 1..(l + 1) : s[k] = q[d[k]] /\ s[k] \notin gone
    <3> TAKE k \in 1..(l + 1)
    <3>1. CASE k \in 1..l
      BY <1>2, <2>2, <2>4, <2>6, <3>1
    <3>2. CASE k = l + 1
      BY <1>4, <2>1, <2>4, <2>6, <3>2
    <3> QED BY <2>k, <3>1, <3>2
  <2>9. \A i \in 1..(n + 1) : q[i] \notin gone => \E k \in 1..(l + 1) : d[k] = i
    <3> TAKE i \in 1..(n + 1)
    <3> HAVE q[i] \notin gone
    <3>1. CASE i \in 1..n
      <4>1. PICK k \in 1..l : e[k] = i
        BY <1>2, <2>2, <3>1
      <4>2. k \in 1..(l + 1) /\ d[k] = i
        BY <2>6, <4>1
      <4> QED BY <4>2
    <3>2. CASE i = n + 1
      <4>1. l + 1 \in 1..(l + 1)
        OBVIOUS
      <4> QED BY <2>6, <3>2, <4>1
    <3> QED BY <3>1, <3>2
  <2>10. Thinned(s, R, q, n + 1, gone)
    <3>1. 1..Len(s) = 1..(l + 1)
      BY <2>4
    <3>2. d \in [1..Len(s) -> 1..(n + 1)]
      BY <2>6, <3>1
    <3>3. \A j, k \in 1..Len(s) : j < k => d[j] < d[k]
      BY <2>7, <3>1
    <3>4. \A k \in 1..Len(s) : s[k] = q[d[k]] /\ s[k] \notin gone
      BY <2>8, <3>1
    <3>5. \A i \in 1..(n + 1) : q[i] \notin gone => \E k \in 1..Len(s) : d[k] = i
      BY <2>9, <3>1
    <3> SUFFICES \E c \in [1..Len(s) -> 1..(n + 1)] :
                   /\ \A j, k \in 1..Len(s) : j < k => c[j] < c[k]
                   /\ \A k \in 1..Len(s) : s[k] = q[c[k]] /\ s[k] \notin gone
                   /\ \A i \in 1..(n + 1) : q[i] \notin gone => \E k \in 1..Len(s) : c[k] = i
      BY <2>4 DEF Thinned
    <3> QED BY <3>2, <3>3, <3>4, <3>5, Zenon
  <2> QED BY <2>1, <2>3, <2>10
<1> QED BY <1>3, <1>4

LEMMA RemainingThinned ==
  ASSUME NEW R, NEW q \in Seq(R), NEW gone
  PROVE  Thinned(Remaining(q, gone), R, q, Len(q), gone)
<1>0. PICK f : Keeps(f, Len(q), q, gone) /\ Remaining(q, gone) = f[Len(q)]
  BY RemainingKeeps
<1>l. PICK l \in Nat : l = Len(q)
  OBVIOUS
<1>f. \A m \in 0..l : f[m] = IF m = 0 THEN <<>>
                             ELSE IF q[m] \in gone THEN f[m - 1] ELSE Append(f[m - 1], q[m])
  BY <1>0, <1>l DEF Keeps
<1> DEFINE T == {m \in 0..l : ~ Thinned(f[m], R, q, m, gone)}
<1>1. ASSUME T # {} PROVE FALSE
  <2>1. PICK m \in T : \A k \in T : m <= k
    <3>1. T \subseteq Nat
      OBVIOUS
    <3> HIDE DEF T
    <3> QED BY <3>1, <1>1, NatMin
  <2>2. m \in 0..l /\ ~ Thinned(f[m], R, q, m, gone)
    BY <2>1
  <2>3. CASE m = 0
    <3>1. f[m] = <<>>
      BY <1>f, <2>2, <2>3
    <3>2. PICK e : e = [k \in 1..0 |-> 0]
      OBVIOUS
    <3>3. <<>> \in Seq(R) /\ Len(<<>>) = 0 /\ e \in [1..0 -> 1..0]
      BY <3>2
    <3>4. Thinned(<<>>, R, q, 0, gone)
      <4>1. PICK r : r = <<>>
        OBVIOUS
      <4>2. r \in Seq(R) /\ Len(r) = 0 /\ e \in [1..Len(r) -> 1..0]
        BY <3>3, <4>1
      <4>3. \A k : k \notin 1..0
        OBVIOUS
      <4>4. Thinned(r, R, q, 0, gone)
        BY <4>2, <4>3, Zenon DEF Thinned
      <4> QED BY <4>1, <4>4
    <3> QED BY <2>2, <2>3, <3>1, <3>4
  <2>4. CASE m > 0
    <3>1. PICK n \in Nat : m = n + 1
      <4>1. m - 1 \in Nat /\ m = (m - 1) + 1
        BY <2>2, <2>4
      <4> QED BY <4>1
    <3>2. n \in 0..l /\ n \notin T /\ n + 1 \in 1..l
      BY <2>1, <2>2, <3>1
    <3>3. Thinned(f[n], R, q, n, gone)
      BY <3>2
    <3>4. f[m] = IF q[m] \in gone THEN f[n] ELSE Append(f[n], q[m])
      <4>1. m # 0 /\ m - 1 = n
        BY <3>1
      <4> QED BY <1>f, <2>2, <4>1
    <3> HIDE DEF T
    <3> QED BY <1>l, <2>2, <3>1, <3>2, <3>3, <3>4, ThinnedSteps
  <2> QED BY <2>2, <2>3, <2>4
<1>2. l \in 0..l
  OBVIOUS
<1> QED BY <1>0, <1>1, <1>2, <1>l

\* The abort keeps the entries of the others, in their order.
LEMMA RemainingOf ==
  ASSUME NEW R, NEW q \in Seq(R), NEW gone, NEW r, r = Remaining(q, gone)
  PROVE  /\ r \in Seq(R) /\ Len(r) \in Nat
         /\ ToSet(r) = ToSet(q) \ gone
         /\ Go!Subsequence(r, q)
<1>1. Thinned(r, R, q, Len(q), gone)
  BY RemainingThinned
<1>2. r \in Seq(R) /\ Len(r) \in Nat
  BY <1>1 DEF Thinned
<1>3. PICK e \in [1..Len(r) -> 1..Len(q)] :
        /\ \A j, k \in 1..Len(r) : j < k => e[j] < e[k]
        /\ \A k \in 1..Len(r) : r[k] = q[e[k]] /\ r[k] \notin gone
        /\ \A i \in 1..Len(q) : q[i] \notin gone => \E k \in 1..Len(r) : e[k] = i
  BY <1>1 DEF Thinned
<1>4. \A x : x \in ToSet(r) <=> x \in ToSet(q) /\ x \notin gone
  <2>1. /\ \A x : x \in ToSet(r) <=> \E k \in 1..Len(r) : r[k] = x
        /\ \A x : x \in ToSet(q) <=> \E k \in 1..Len(q) : q[k] = x
    BY <1>2, SetOfSeq
  <2>2. ASSUME NEW x, x \in ToSet(r) PROVE x \in ToSet(q) /\ x \notin gone
    <3>1. PICK k \in 1..Len(r) : r[k] = x
      BY <2>1, <2>2
    <3>2. e[k] \in 1..Len(q) /\ q[e[k]] = x /\ x \notin gone
      BY <1>3, <3>1
    <3> QED BY <2>1, <3>2
  <2>3. ASSUME NEW x, x \in ToSet(q), x \notin gone PROVE x \in ToSet(r)
    <3>1. PICK i \in 1..Len(q) : q[i] = x
      BY <2>1, <2>3
    <3>2. PICK k \in 1..Len(r) : e[k] = i
      BY <1>3, <2>3, <3>1
    <3> QED BY <1>3, <2>1, <3>1, <3>2
  <2> QED BY <2>2, <2>3
<1>5. Go!Subsequence(r, q)
  BY <1>3, Zenon DEF Go!Subsequence
<1> QED BY <1>2, <1>4, <1>5

\* What remains of a sequence is in the same order.
LEMMA SubsequenceFacts ==
  ASSUME NEW R, NEW s \in Seq(R), NEW t \in Seq(R), Go!Subsequence(s, t)
  PROVE  /\ ToSet(s) \subseteq ToSet(t)
         /\ Increasing(t) => Increasing(s)
         /\ \A b \in Seq(R) : Go!Subsequence(b \o s, b \o t)
<1>1. PICK e \in [1..Len(s) -> 1..Len(t)] :
        /\ \A j, k \in 1..Len(s) : j < k => e[j] < e[k]
        /\ \A k \in 1..Len(s) : s[k] = t[e[k]]
  BY DEF Go!Subsequence
<1>2. ToSet(s) \subseteq ToSet(t)
  <2>1. /\ \A x : x \in ToSet(s) <=> \E k \in 1..Len(s) : s[k] = x
        /\ \A x : x \in ToSet(t) <=> \E k \in 1..Len(t) : t[k] = x
    BY SetOfSeq
  <2> QED BY <1>1, <2>1
<1>3. Increasing(t) => Increasing(s)
  <2>1. \A k \in 1..Len(s) : e[k] \in 1..Len(t)
    BY <1>1
  <2> QED BY <1>1, <2>1, Zenon DEF Increasing
<1>4. ASSUME NEW b \in Seq(R) PROVE Go!Subsequence(b \o s, b \o t)
  <2>1. PICK u, v : u = b \o s /\ v = b \o t
    OBVIOUS
  <2>2. PICK n \in Nat, l \in Nat, m \in Nat : n = Len(b) /\ l = Len(s) /\ m = Len(t)
    OBVIOUS
  <2>3. /\ Len(u) = n + l
        /\ \A k \in 1..n : u[k] = b[k]
        /\ \A k \in (n + 1)..(n + l) : u[k] = s[k - n]
    BY <2>1, <2>2, ConcatParts
  <2>4. /\ Len(v) = n + m
        /\ \A k \in 1..n : v[k] = b[k]
        /\ \A k \in (n + 1)..(n + m) : v[k] = t[k - n]
    BY <2>1, <2>2, ConcatParts
  <2>5. \A k \in 1..l : e[k] \in 1..m /\ s[k] = t[e[k]]
    BY <1>1, <2>2
  <2>6. \A j, k \in 1..l : j < k => e[j] < e[k]
    BY <1>1, <2>2
  <2>7. PICK d : d = [k \in 1..(n + l) |-> IF k \in 1..n THEN k ELSE n + e[k - n]]
    OBVIOUS
  <2>8. \A k \in 1..(n + l) : \/ k \in 1..n /\ d[k] = k
                              \/ k \notin 1..n /\ k - n \in 1..l /\ d[k] = n + e[k - n]
    BY <2>7
  <2>9. d \in [1..(n + l) -> 1..(n + m)]
    <3>1. ASSUME NEW k \in 1..(n + l) PROVE d[k] \in 1..(n + m)
      <4>1. CASE k \in 1..n
        <5>1. d[k] = k
          BY <2>8, <4>1
        <5> QED BY <4>1, <5>1
      <4>2. CASE k \notin 1..n
        <5>1. PICK i \in 1..l : d[k] = n + e[i]
          BY <2>8, <4>2
        <5>2. e[i] \in 1..m
          BY <2>5
        <5> QED BY <5>1, <5>2
      <4> QED BY <4>1, <4>2
    <3> QED BY <2>7, <3>1
  <2>10. \A j, k \in 1..(n + l) : j < k => d[j] < d[k]
    <3> TAKE j, k \in 1..(n + l)
    <3> HAVE j < k
    <3>1. CASE k \in 1..n
      <4>1. j \in 1..n
        BY <3>1
      <4> QED BY <2>8, <3>1, <4>1
    <3>2. CASE k \notin 1..n /\ j \in 1..n
      <4>1. d[j] = j /\ d[k] = n + e[k - n] /\ e[k - n] \in 1..m
        BY <2>5, <2>8, <3>2
      <4> QED BY <3>2, <4>1
    <3>3. CASE k \notin 1..n /\ j \notin 1..n
      <4>1. /\ d[j] = n + e[j - n] /\ d[k] = n + e[k - n]
            /\ j - n \in 1..l /\ k - n \in 1..l /\ j - n < k - n
        BY <2>8, <3>3
      <4>2. e[j - n] < e[k - n] /\ e[j - n] \in 1..m /\ e[k - n] \in 1..m
        BY <2>5, <2>6, <4>1
      <4> QED BY <4>1, <4>2
    <3> QED BY <3>1, <3>2, <3>3
  <2>11. \A k \in 1..(n + l) : u[k] = v[d[k]]
    <3> TAKE k \in 1..(n + l)
    <3>1. CASE k \in 1..n
      BY <2>3, <2>4, <2>8, <3>1
    <3>2. CASE k \notin 1..n
      <4>1. PICK i \in 1..l : i = k - n
        BY <2>8, <3>2
      <4>2. d[k] = n + e[i] /\ e[i] \in 1..m /\ s[i] = t[e[i]]
        BY <2>5, <2>8, <3>2, <4>1
      <4>3. d[k] \in (n + 1)..(n + m) /\ d[k] - n = e[i] /\ k \in (n + 1)..(n + l)
        BY <3>2, <4>2
      <4>4. v[d[k]] = t[e[i]]
        BY <2>4, <4>3
      <4> QED BY <2>3, <4>1, <4>2, <4>3, <4>4
    <3> QED BY <3>1, <3>2
  <2>12. Go!Subsequence(u, v)
    <3>1. 1..Len(u) = 1..(n + l) /\ 1..Len(v) = 1..(n + m)
      BY <2>3, <2>4
    <3>2. d \in [1..Len(u) -> 1..Len(v)]
      BY <2>9, <3>1
    <3>3. \A j, k \in 1..Len(u) : j < k => d[j] < d[k]
      BY <2>10, <3>1
    <3>4. \A k \in 1..Len(u) : u[k] = v[d[k]]
      BY <2>11, <3>1
    <3> QED BY <3>2, <3>3, <3>4, Zenon DEF Go!Subsequence
  <2> QED BY <2>1, <2>12
<1> QED BY <1>2, <1>3, <1>4

\* The values offered by what remains of a queue of senders.
LEMMA SubsequenceOffered ==
  ASSUME NEW r \in Seq(SenderTask), NEW q \in Seq(SenderTask), Go!Subsequence(r, q)
  PROVE  Go!Subsequence(Offered(r), Offered(q))
<1>1. PICK e \in [1..Len(r) -> 1..Len(q)] :
        /\ \A j, k \in 1..Len(r) : j < k => e[j] < e[k]
        /\ \A k \in 1..Len(r) : r[k] = q[e[k]]
  BY DEF Go!Subsequence
<1>2. Len(Offered(r)) = Len(r) /\ Len(Offered(q)) = Len(q)
  BY OfferedSteps
<1>3. /\ \A k \in 1..Len(r) : Offered(r)[k] = r[k].v
      /\ \A k \in 1..Len(q) : Offered(q)[k] = q[k].v
  BY DEF Offered
<1>4. \A k \in 1..Len(r) : Offered(r)[k] = Offered(q)[e[k]]
  <2>1. \A k \in 1..Len(r) : e[k] \in 1..Len(q)
    BY <1>1
  <2> QED BY <1>1, <1>3, <2>1
<1>5. e \in [1..Len(Offered(r)) -> 1..Len(Offered(q))]
  BY <1>2
<1>6. /\ \A j, k \in 1..Len(Offered(r)) : j < k => e[j] < e[k]
      /\ \A k \in 1..Len(Offered(r)) : Offered(r)[k] = Offered(q)[e[k]]
  BY <1>1, <1>2, <1>4
<1> QED BY <1>5, <1>6, Zenon DEF Go!Subsequence

\* The abort takes the tasks of one select out of two queues.
LEMMA AbortOf ==
  ASSUME NEW g, NEW c \in Chans, NEW ch \in ChannelState, NEW x, x = AbortCases(g, ch)
  PROVE  /\ x \in ChannelState
         /\ x.buffer = ch.buffer /\ x.closed = ch.closed /\ x.receivers = ch.receivers
         /\ \A s : s \in ToSet(x.senders) <=> s \in ToSet(ch.senders) /\ ~OfSelect(s.t, g)
         /\ \A t : t \in ToSet(x.receiversWithOk)
                     <=> t \in ToSet(ch.receiversWithOk) /\ ~OfSelect(t, g)
         /\ Disciplined(c, ch) => Disciplined(c, x)
         /\ Go!Subsequence(LineOf(x), LineOf(ch))
<1> DEFINE goneS == {s \in ToSet(ch.senders) : OfSelect(s.t, g)}
           goneR == {t \in ToSet(ch.receiversWithOk) : OfSelect(t, g)}
<1>1. PICK q, r : q = Remaining(ch.senders, goneS) /\ r = Remaining(ch.receiversWithOk, goneR)
  OBVIOUS
<1>2. x = [ch EXCEPT !.senders = q, !.receiversWithOk = r]
  BY <1>1 DEF AbortCases
<1>3. /\ ch.senders \in Seq(SenderTask) /\ ch.receiversWithOk \in Seq(Task)
      /\ ch.receivers \in Seq(Task) /\ ch.buffer \in Seq(Value)
  BY ChannelFields
<1>4. /\ q \in Seq(SenderTask) /\ ToSet(q) = ToSet(ch.senders) \ goneS
      /\ Go!Subsequence(q, ch.senders)
  <2> HIDE DEF goneS
  <2> QED BY <1>1, <1>3, RemainingOf
<1>5. r \in Seq(Task) /\ ToSet(r) = ToSet(ch.receiversWithOk) \ goneR
  <2> HIDE DEF goneR
  <2> QED BY <1>1, <1>3, RemainingOf
<1>6. /\ x.senders = q /\ x.receiversWithOk = r /\ x.receivers = ch.receivers
      /\ x.buffer = ch.buffer /\ x.closed = ch.closed
  BY <1>2 DEF ChannelState
<1>7. x \in ChannelState
  BY <1>2, <1>4, <1>5 DEF ChannelState
<1>8. Disciplined(c, ch) => Disciplined(c, x)
  <2>1. /\ q # <<>> => ch.senders # <<>>
        /\ r # <<>> => ch.receiversWithOk # <<>>
    BY <1>3, <1>4, <1>5, SetOfSeq
  <2> QED BY <1>6, <2>1 DEF Disciplined, HasReceiver
<1>9. Go!Subsequence(LineOf(x), LineOf(ch))
  <2>1. PICK b, u, v : b = ch.buffer /\ u = Offered(q) /\ v = Offered(ch.senders)
    OBVIOUS
  <2>2. b \in Seq(Value) /\ u \in Seq(Value) /\ v \in Seq(Value) /\ Go!Subsequence(u, v)
    BY <1>3, <1>4, <2>1, OfferedSteps, SubsequenceOffered
  <2>3. Go!Subsequence(b \o u, b \o v)
    BY <2>2, SubsequenceFacts
  <2> QED BY <1>6, <2>1, <2>3 DEF LineOf, Offered
<1> QED BY <1>4, <1>5, <1>6, <1>7, <1>8, <1>9

-----------------------------------------------------------------------------
(* Types.                                                                  *)

\* A goroutine in a select has started an operation.
Selecting == \A g \in G : pc[g] = "selecting" => op[g] \in 1..MaxOps

SelectTypes == SelectTypeOK /\ Selecting

LEMMA StatementType ==
  ASSUME SelectTypeOK, NEW g \in G
  PROVE  /\ stmt[g] \in Statement
         /\ \A i \in DOMAIN stmt[g].cases : i \in Nat /\ stmt[g].cases[i] \in Case
<1>1. stmt[g] \in Stmts \cup {NoStmt}
  BY DEF SelectTypeOK
<1>2. NoStmt \in Statement
  BY DEF NoStmt, Statement
<1>3. stmt[g] \in Statement
  BY <1>1, <1>2, StmtsAssumption
<1>4. stmt[g].cases \in Seq(Case)
  BY <1>3 DEF Statement
<1> QED BY <1>3, <1>4

LEMMA SeqFirst ==
  ASSUME NEW R, NEW s \in Seq(R), s # <<>>
  PROVE  s[1] \in R
OBVIOUS

\* The case whose turn it is while a select registers its cases.
LEMMA RegisteringType ==
  ASSUME SelectTypes, registering # <<>>
  PROVE  /\ registering[1].g \in G /\ registering[1].i \in Nat
         /\ pc[registering[1].g] = "selecting"
         /\ registering[1].i \in DOMAIN stmt[registering[1].g].cases
         /\ stmt[registering[1].g].cases[registering[1].i] \in Case
         /\ \A c \in Chans : CaseTask(registering[1].g, c, registering[1].i) \in Task
<1>1. registering \in Seq([g : G, i : Nat]) /\ Len(registering) <= 1
  BY DEF SelectTypes, SelectTypeOK
<1>2. registering[1] \in [g : G, i : Nat]
  <2>1. PICK r \in Seq([g : G, i : Nat]) : r = registering
    BY <1>1
  <2>2. r \in Seq([g : G, i : Nat]) /\ r # <<>>
    BY <1>1, <2>1
  <2>3. r[1] \in [g : G, i : Nat]
    BY <2>2, SeqFirst
  <2> QED BY <2>1, <2>3
<1>3. /\ registering[1].g \in G /\ registering[1].i \in Nat
      /\ pc[registering[1].g] = "selecting"
      /\ registering[1].i \in DOMAIN stmt[registering[1].g].cases
  BY <1>2 DEF SelectTypes, SelectTypeOK
<1>4. op[registering[1].g] \in 1..MaxOps
  BY <1>3 DEF SelectTypes, Selecting
<1>5. \A c \in Chans : CaseTask(registering[1].g, c, registering[1].i) \in Task
  BY <1>3, <1>4 DEF CaseTask, Task
<1> QED BY <1>3, <1>5, StatementType DEF SelectTypes

\* A queue that one more entry joins.
LEMMA Joining ==
  ASSUME NEW R, NEW s \in Seq(R), NEW x \in R
  PROVE  \E q \in Seq(R) : q = Append(s, x)
<1>1. Append(s, x) \in Seq(R)
  OBVIOUS
<1> QED BY <1>1, Zenon

\* What a receive finds in a channel, and what taking it changes.
LEMMA TakeType ==
  ASSUME TypeOK, NEW c \in Chans
  PROVE  /\ ReceivableValue(chan[c]) \in Nat
         /\ TakeFromChannel(c) => /\ chan' \in [Chans -> ChannelState]
                                  /\ micro' \in Seq(Job)
                                  /\ taken' \in [Chans -> Seq(Value)]
<1>1. chan[c] \in ChannelState /\ micro \in Seq(Job) /\ taken \in [Chans -> Seq(Value)]
  BY DEF TypeOK
<1>2. PICK v : v = ReceivableValue(chan[c])
  OBVIOUS
<1>3. /\ chan[c].buffer # <<>> => v \in Value
      /\ chan[c].buffer = <<>> /\ chan[c].senders # <<>> => v \in Value
      /\ v \in Nat
  BY <1>1, <1>2, ChannelSteps DEF ReceivableValue, SenderTask, Value, Zero
<1>4. ASSUME TakeFromChannel(c)
      PROVE  /\ chan' \in [Chans -> ChannelState]
             /\ micro' \in Seq(Job)
             /\ taken' \in [Chans -> Seq(Value)]
  <2>1. micro' \in Seq(Job)
    <3>1. UnblockSender(chan[c]) \in Seq(Job) /\ micro' = micro \o UnblockSender(chan[c])
      BY <1>1, <1>4, JobTypes DEF TakeFromChannel
    <3> QED BY <1>1, <3>1
  <2>2. CASE chan[c].buffer # <<>>
    <3>1. chan' = [chan EXCEPT ![c] = ShiftBuffer(chan[c])] /\ Take(c, v)
      BY <1>2, <1>4, <2>2 DEF TakeFromChannel
    <3> QED BY <1>1, <1>3, <2>1, <2>2, <3>1, ChannelSteps, ChanUpdate, HistoryType
  <2>3. CASE chan[c].buffer = <<>> /\ chan[c].senders # <<>>
    <3>1. chan' = [chan EXCEPT ![c] = ShiftSender(chan[c])] /\ Take(c, v)
      BY <1>2, <1>4, <2>3 DEF TakeFromChannel
    <3> QED BY <1>1, <1>3, <2>1, <2>3, <3>1, ChannelSteps, ChanUpdate, HistoryType
  <2>4. CASE chan[c].buffer = <<>> /\ chan[c].senders = <<>>
    <3>1. UNCHANGED <<chan, taken>>
      BY <1>4, <2>4 DEF TakeFromChannel
    <3> QED BY <2>1, <3>1 DEF TypeOK
  <2> QED BY <2>2, <2>3, <2>4
<1> QED BY <1>2, <1>3, <1>4

\* A case that meets its partner.
LEMMA PassType ==
  ASSUME TypeOK, NEW c \in Chans, HasReceiver(chan[c]), NEW t \in Task,
         chan' = [chan EXCEPT ![c] = ShiftReceiver(chan[c])],
         micro' = Append(micro, HandoffJob(NextReceiver(chan[c]), NextValue, t))
  PROVE  chan' \in [Chans -> ChannelState] /\ micro' \in Seq(Job)
<1>1. chan[c] \in ChannelState /\ micro \in Seq(Job) /\ NextValue \in Nat
  BY HistoryType DEF TypeOK, Value
<1>2. PICK j \in Job : j = HandoffJob(NextReceiver(chan[c]), NextValue, t)
  BY <1>1, ChannelSteps, JobTypes
<1> QED BY <1>1, <1>2, ChannelSteps, ChanUpdate

\* Every case of a select keeps the state typed.
LEMMA CaseTypes ==
  ASSUME TypeOK, NEW c \in Chans, NEW t \in Task
  PROVE  (SelectSend(t, c) \/ SelectReceive(t, c)) /\ UNCHANGED <<pc, op>> => TypeOK'
<1>1. /\ chan[c] \in ChannelState /\ micro \in Seq(Job)
      /\ done \in [G -> SUBSET Outcome]
  BY DEF TypeOK
<1>2. NextValue \in Value /\ NextValue \in Nat
  BY HistoryType DEF Value
<1>3. ASSUME NEW kind \in {"sent", "received", "panic"}, NEW v \in Nat,
             SettleNow(t.g, t, kind, v)
      PROVE  done' \in [G -> SUBSET Outcome]
  <2>1. [kind |-> kind, t |-> t, v |-> v] \in Outcome
    BY <1>3 DEF Outcome
  <2> QED BY <1>1, <1>3, <2>1 DEF SettleNow
<1>4. ASSUME SelectSend(t, c), UNCHANGED <<pc, op>> PROVE TypeOK'
  <2>1. sent' \in Seq(SendRecord) /\ UNCHANGED <<timers, got, pc, op>>
    <3>1. RecordSend(c, "pending")
      BY <1>4 DEF SelectSend
    <3> QED BY <1>4, <3>1, HistoryType DEF SelectSend
  <2>2. CASE chan[c].closed
    <3>1. SettleNow(t.g, t, "panic", NextValue) /\ UNCHANGED <<chan, micro, taken>>
      BY <1>4, <2>2 DEF SelectSend
    <3>2. done' \in [G -> SUBSET Outcome]
      BY <1>2, <1>3, <3>1
    <3> QED BY <2>1, <3>1, <3>2 DEF TypeOK
  <2>3. CASE ~chan[c].closed /\ HasReceiver(chan[c])
    <3>1. /\ chan' = [chan EXCEPT ![c] = ShiftReceiver(chan[c])]
          /\ micro' = Append(micro, HandoffJob(NextReceiver(chan[c]), NextValue, t))
          /\ Take(c, NextValue) /\ UNCHANGED done
      BY <1>4, <2>3 DEF SelectSend
    <3>2. taken' \in [Chans -> Seq(Value)]
      BY <1>2, <3>1, HistoryType
    <3>3. chan' \in [Chans -> ChannelState] /\ micro' \in Seq(Job)
      BY <2>3, <3>1, PassType
    <3> QED BY <2>1, <3>1, <3>2, <3>3 DEF TypeOK
  <2>4. CASE ~chan[c].closed /\ ~HasReceiver(chan[c]) /\ HasRoom(c, chan[c])
    <3>1. /\ chan' = [chan EXCEPT ![c].buffer = Append(@, NextValue)]
          /\ SettleNow(t.g, t, "sent", NextValue) /\ UNCHANGED <<micro, taken>>
      BY <1>4, <2>4 DEF SelectSend
    <3>2. done' \in [G -> SUBSET Outcome]
      BY <1>2, <1>3, <3>1
    <3>3. PICK b \in Seq(Value) : b = Append(chan[c].buffer, NextValue)
      <4>1. chan[c].buffer \in Seq(Value)
        BY <1>1, ChannelFields
      <4> QED BY <1>2, <4>1, Joining
    <3>4. chan' = [chan EXCEPT ![c] = [chan[c] EXCEPT !.buffer = b]]
      BY <3>1, <3>3
    <3>5. chan' \in [Chans -> ChannelState]
      BY <1>1, <3>3, <3>4, ChannelFields, ChanUpdate
    <3> QED BY <2>1, <3>1, <3>2, <3>5 DEF TypeOK
  <2>5. CASE ~chan[c].closed /\ ~HasReceiver(chan[c]) /\ ~HasRoom(c, chan[c])
    <3>1. /\ chan' = [chan EXCEPT ![c].senders = Append(@, [t |-> t, v |-> NextValue])]
          /\ UNCHANGED <<micro, done, taken>>
      BY <1>4, <2>5 DEF SelectSend
    <3>2. PICK q \in Seq(SenderTask) : q = Append(chan[c].senders, [t |-> t, v |-> NextValue])
      <4>1. [t |-> t, v |-> NextValue] \in SenderTask
        BY <1>2 DEF SenderTask
      <4>2. chan[c].senders \in Seq(SenderTask)
        BY <1>1, ChannelFields
      <4> QED BY <4>1, <4>2, Joining
    <3>3. chan' = [chan EXCEPT ![c] = [chan[c] EXCEPT !.senders = q]]
      BY <3>1, <3>2
    <3>4. chan' \in [Chans -> ChannelState]
      BY <1>1, <3>2, <3>3, ChannelFields, ChanUpdate
    <3> QED BY <2>1, <3>1, <3>4 DEF TypeOK
  <2> QED BY <2>2, <2>3, <2>4, <2>5
<1>5. ASSUME SelectReceive(t, c), UNCHANGED <<pc, op>> PROVE TypeOK'
  <2>1. UNCHANGED <<timers, sent, got, pc, op>>
    BY <1>5 DEF SelectReceive
  <2>2. CASE CanReceiveNonBlocking(chan[c])
    <3>1. TakeFromChannel(c) /\ SettleNow(t.g, t, "received", ReceivableValue(chan[c]))
      BY <1>5, <2>2 DEF SelectReceive
    <3>2. done' \in [G -> SUBSET Outcome]
      BY <1>3, <3>1, TakeType
    <3> QED BY <2>1, <3>1, <3>2, TakeType DEF TypeOK
  <2>3. CASE ~CanReceiveNonBlocking(chan[c])
    <3>1. /\ chan' = [chan EXCEPT ![c].receiversWithOk = Append(@, t)]
          /\ UNCHANGED <<micro, done, taken>>
      BY <1>5, <2>3 DEF SelectReceive
    <3>2. PICK q \in Seq(Task) : q = Append(chan[c].receiversWithOk, t)
      <4>1. chan[c].receiversWithOk \in Seq(Task)
        BY <1>1, ChannelFields
      <4> QED BY <4>1, Joining
    <3>3. chan' = [chan EXCEPT ![c] = [chan[c] EXCEPT !.receiversWithOk = q]]
      BY <3>1, <3>2
    <3>4. chan' \in [Chans -> ChannelState]
      BY <1>1, <3>2, <3>3, ChannelFields, ChanUpdate
    <3> QED BY <2>1, <3>1, <3>4 DEF TypeOK
  <2> QED BY <2>2, <2>3
<1> QED BY <1>4, <1>5

\* The fast path keeps the state typed.
LEMMA ReadyTypes ==
  ASSUME TypeOK, NEW g \in G, CanStart(g), Start(g, "ready"), NEW c \in Chans
  PROVE  TrySelectSend(g, c) \/ TrySelectReceive(g, c) => TypeOK'
<1>1. /\ chan[c] \in ChannelState /\ micro \in Seq(Job)
      /\ NextValue \in Value /\ NextValue \in Nat
  BY HistoryType DEF TypeOK, Value
<1>2. op' \in [G -> 0..MaxOps] /\ pc' \in [G -> {"ready", "waiting", "selecting", "forever"}]
  BY StartType
<1>3. ASSUME TrySelectSend(g, c) PROVE TypeOK'
  <2>1. UNCHANGED <<timers, done, got>>
    BY <1>3 DEF TrySelectSend
  <2>2. CASE chan[c].closed
    <3>1. RecordSend(c, "panicked") /\ UNCHANGED <<chan, micro, taken>>
      BY <1>3, <2>2 DEF TrySelectSend
    <3> QED BY <1>2, <2>1, <3>1, HistoryType DEF TypeOK
  <2>3. CASE ~chan[c].closed /\ HasReceiver(chan[c])
    <3>1. /\ chan' = [chan EXCEPT ![c] = ShiftReceiver(chan[c])]
          /\ micro' = Append(micro, HandoffJob(NextReceiver(chan[c]), NextValue,
                                               TaskOf(g, c, 0)))
          /\ RecordSend(c, "returned") /\ Take(c, NextValue)
      BY <1>3, <2>3 DEF TrySelectSend
    <3>2. chan' \in [Chans -> ChannelState] /\ micro' \in Seq(Job)
      BY <2>3, <3>1, StartType, PassType
    <3>3. sent' \in Seq(SendRecord) /\ taken' \in [Chans -> Seq(Value)]
      BY <1>1, <3>1, HistoryType
    <3> QED BY <1>2, <2>1, <3>2, <3>3 DEF TypeOK
  <2>4. CASE ~chan[c].closed /\ ~HasReceiver(chan[c])
    <3>1. /\ chan' = [chan EXCEPT ![c].buffer = Append(@, NextValue)]
          /\ RecordSend(c, "returned") /\ UNCHANGED <<micro, taken>>
      BY <1>3, <2>4 DEF TrySelectSend
    <3>2. PICK b \in Seq(Value) : b = Append(chan[c].buffer, NextValue)
      <4>1. chan[c].buffer \in Seq(Value)
        BY <1>1, ChannelFields
      <4> QED BY <1>1, <4>1, Joining
    <3>3. chan' = [chan EXCEPT ![c] = [chan[c] EXCEPT !.buffer = b]]
      BY <3>1, <3>2
    <3>4. chan' \in [Chans -> ChannelState]
      BY <1>1, <3>2, <3>3, ChannelFields, ChanUpdate
    <3> QED BY <1>2, <2>1, <3>1, <3>4, HistoryType DEF TypeOK
  <2> QED BY <2>2, <2>3, <2>4
<1>4. ASSUME TrySelectReceive(g, c) PROVE TypeOK'
  <2>1. /\ TakeFromChannel(c) /\ Return(g, c, ReceivableValue(chan[c]))
        /\ UNCHANGED <<timers, done, sent>>
    BY <1>4 DEF TrySelectReceive
  <2>2. got' \in [G -> Seq(Receipt)]
    BY <2>1, TakeType, HistoryType
  <2> QED BY <1>2, <2>1, <2>2, TakeType DEF TypeOK
<1> QED BY <1>3, <1>4

\* What the end of a select writes.
LEMMA EndTypes ==
  ASSUME SelectTypes, NEW g \in G, NEW o \in Outcome, EndSelect(g, o)
  PROVE  /\ chan' \in [Chans -> ChannelState]
         /\ sent' \in Seq(SendRecord)
         /\ got' \in [G -> Seq(Receipt)]
         /\ pc' \in [G -> {"ready", "waiting", "selecting", "forever"}]
         /\ stmt' \in [G -> Stmts \cup {NoStmt}]
         /\ UNCHANGED <<micro, op, taken, registering>>
<1>1. /\ chan \in [Chans -> ChannelState] /\ sent \in Seq(SendRecord)
      /\ got \in [G -> Seq(Receipt)]
      /\ pc \in [G -> {"ready", "waiting", "selecting", "forever"}]
      /\ stmt \in [G -> Stmts \cup {NoStmt}]
  BY DEF SelectTypes, SelectTypeOK, TypeOK
<1>2. /\ UNCHANGED <<micro, op, taken, registering>>
      /\ pc' \in [G -> {"ready", "waiting", "selecting", "forever"}]
      /\ stmt' \in [G -> Stmts \cup {NoStmt}]
  BY <1>1 DEF EndSelect
<1>3. CASE o.kind = "panic"
  <2>1. RaceRejected(o) /\ o.v \in Nat
    BY <1>3 DEF EndSelect, Outcome
  <2> QED BY <1>1, <1>2, <2>1, SentUpdate DEF RaceRejected
<1>4. CASE o.kind # "panic"
  <2>1. RaceFulfilled(g, o)
    BY <1>4 DEF EndSelect
  <2>2. got' \in [G -> Seq(Receipt)]
    <3>1. [c |-> o.t.c, v |-> o.v] \in Receipt
      BY DEF Outcome, Task, Receipt
    <3>2. PICK e \in Receipt : e = [c |-> o.t.c, v |-> o.v]
      BY <3>1
    <3>3. Append(got[g], e) \in Seq(Receipt)
      BY <1>1
    <3>4. got' = IF o.kind = "received" THEN [got EXCEPT ![g] = Append(@, e)] ELSE got
      BY <2>1, <3>2 DEF RaceFulfilled
    <3> QED BY <1>1, <3>3, <3>4
  <2>3. sent' \in Seq(SendRecord)
    <3>1. DOMAIN sent = 1..Len(sent) /\ Len(sent) \in Nat
          /\ \A v \in 1..Len(sent) : sent[v] \in SendRecord
      BY <1>1
    <3>2. \A v \in 1..Len(sent) :
            /\ [sent[v] EXCEPT !.st = "returned"] \in SendRecord
            /\ [sent[v] EXCEPT !.st = "withdrawn"] \in SendRecord
      BY <3>1 DEF SendRecord
    <3>3. sent' \in [1..Len(sent) -> SendRecord]
      BY <2>1, <3>1, <3>2 DEF RaceFulfilled
    <3> QED BY <3>1, <3>3, FunctionIsSeq
  <2>4. chan' \in [Chans -> ChannelState]
    <3>1. \A c \in Chans : AbortCases(g, chan[c]) \in ChannelState
      BY <1>1, AbortOf
    <3> QED BY <2>1, <3>1 DEF RaceFulfilled
  <2> QED BY <1>2, <2>2, <2>3, <2>4
<1> QED BY <1>2, <1>3, <1>4

\* Channel operations leave the goroutines that are in a select alone.
LEMMA NextSelecting ==
  ASSUME TypeOK, Next, NEW h \in G
  PROVE  /\ pc[h] = "selecting" => pc'[h] = "selecting" /\ op'[h] = op[h] /\ got'[h] = got[h]
         /\ pc'[h] = "selecting" => pc[h] = "selecting"
<1>1. /\ pc \in [G -> {"ready", "waiting", "selecting", "forever"}]
      /\ op \in [G -> 0..MaxOps] /\ got \in [G -> Seq(Receipt)]
  BY DEF TypeOK
<1>2. ASSUME NEW g \in G, NEW st \in {"ready", "waiting", "forever"},
             CanStart(g), Start(g, st),
             got' = got \/ \E c, v : Return(g, c, v)
      PROVE  /\ pc[h] = "selecting" =>
                  pc'[h] = "selecting" /\ op'[h] = op[h] /\ got'[h] = got[h]
             /\ pc'[h] = "selecting" => pc[h] = "selecting"
  <2>1. pc' = [pc EXCEPT ![g] = st] /\ op' = [op EXCEPT ![g] = op[g] + 1] /\ pc[g] = "ready"
    BY <1>2 DEF CanStart, Start
  <2>2. h # g => got'[h] = got[h]
    BY <1>1, <1>2 DEF Return
  <2> QED BY <1>1, <1>2, <2>1, <2>2
<1>3. ASSUME NEW g \in G, Operation(g)
      PROVE  /\ pc[h] = "selecting" =>
                  pc'[h] = "selecting" /\ op'[h] = op[h] /\ got'[h] = got[h]
             /\ pc'[h] = "selecting" => pc[h] = "selecting"
  <2>1. CASE NilOperation(g)
    BY <1>2, <2>1 DEF NilOperation
  <2>2. ASSUME NEW c \in SendChans, Send(g, c)
        PROVE  \E st \in {"ready", "waiting", "forever"} :
                 CanStart(g) /\ Start(g, st) /\ got' = got
    BY <2>2 DEF Send, SendPanics, SendHandsOff, SendBuffers, SendBlocks
  <2>3. ASSUME NEW c \in Chans, Close(g, c) \/ ClosePanics(g, c)
        PROVE  CanStart(g) /\ Start(g, "ready") /\ got' = got
    BY <2>3 DEF Close, ClosePanics
  <2>4. ASSUME NEW c \in Chans, NEW withOk \in BOOLEAN, Receive(g, c, withOk)
        PROVE  \E st \in {"ready", "waiting", "forever"} :
                 /\ CanStart(g) /\ Start(g, st)
                 /\ got' = got \/ \E d, v : Return(g, d, v)
    BY <2>4 DEF Receive, ReceiveBuffered, ReceiveClosed, ReceiveFromSender, ReceiveBlocks
  <2> QED BY <1>2, <1>3, <2>1, <2>2, <2>3, <2>4 DEF Operation
<1>4. ASSUME NEW g \in G, NEW o, pc[g] = "waiting", Continue(g, o), op' = op
      PROVE  /\ pc[h] = "selecting" =>
                  pc'[h] = "selecting" /\ op'[h] = op[h] /\ got'[h] = got[h]
             /\ pc'[h] = "selecting" => pc[h] = "selecting"
  <2>1. /\ pc' = [pc EXCEPT ![g] = "ready"]
        /\ got' = got \/ \E e : got' = [got EXCEPT ![g] = e]
    BY <1>4 DEF Continue
  <2> QED BY <1>1, <1>4, <2>1
<1>5. ASSUME NEW g \in G, Resume(g)
      PROVE  \E o : pc[g] = "waiting" /\ Continue(g, o) /\ op' = op
  BY <1>5 DEF Resume
<1>6. ASSUME RunTimer
      PROVE  \E g \in G : \E o : pc[g] = "waiting" /\ Continue(g, o) /\ op' = op
  <2>1. Head(timers) \in Job
    BY <1>6 DEF RunTimer, TimerTurn, TypeOK
  <2>2. Head(timers).to.g \in G
    BY <2>1 DEF Job, Task
  <2> QED BY <1>6, <2>2 DEF RunTimer
<1>7. ASSUME RunMicrotask PROVE UNCHANGED <<pc, op, got>>
  BY <1>7 DEF RunMicrotask, RunHandoff, RunSent
<1> QED BY <1>3, <1>4, <1>5, <1>6, <1>7 DEF Next

LEMMA SelectTypeStep == SelectTypes /\ [SelectNext]_allVars => SelectTypes'
<1> SUFFICES ASSUME SelectTypes, [SelectNext]_allVars PROVE SelectTypes'
  OBVIOUS
<1> DEFINE States == {"ready", "waiting", "selecting", "forever"}
<1>0. /\ TypeOK /\ Selecting
      /\ stmt \in [G -> Stmts \cup {NoStmt}]
      /\ pc \in [G -> States] /\ op \in [G -> 0..MaxOps]
  BY DEF SelectTypes, SelectTypeOK, TypeOK
<1>1. ASSUME Idle, Next, UNCHANGED selectVars PROVE SelectTypes'
  <2>1. TypeOK'
    BY <1>0, <1>1, TypeStep
  <2>2. registering' = <<>> /\ stmt' = stmt
    BY <1>1 DEF Idle, selectVars
  <2>3. Selecting'
    BY <1>0, <1>1, NextSelecting DEF Selecting
  <2> QED BY <1>0, <2>1, <2>2, <2>3 DEF SelectTypes, SelectTypeOK
<1>2. ASSUME NEW g \in G, NEW st \in States, CanStart(g), Start(g, st)
      PROVE  /\ op' \in [G -> 0..MaxOps] /\ pc' \in [G -> States]
             /\ Selecting'
  <2>1. op' \in [G -> 0..MaxOps] /\ pc' \in [G -> States]
    BY <1>0, <1>2, StartType
  <2>2. op'[g] \in 1..MaxOps
    <3>1. PICK n : n = op[g]
      OBVIOUS
    <3>2. op'[g] = n + 1 /\ n \in 0..MaxOps /\ n < MaxOps
      BY <1>0, <1>2, <3>1 DEF CanStart, Start
    <3> QED BY <3>2, MaxOpsAssumption
  <2>3. \A h \in G : h # g => op'[h] = op[h] /\ pc'[h] = pc[h]
    BY <1>0, <1>2 DEF Start
  <2> QED BY <1>0, <2>1, <2>2, <2>3 DEF Selecting
<1>3. ASSUME Idle, NEW g \in G, SelectStatement(g) PROVE SelectTypes'
  <2>1. PICK s \in Stmts : SelectReady(g, s) \/ SelectDefault(g, s)
                             \/ SelectForever(g, s) \/ SelectBlocks(g, s)
    BY <1>3 DEF SelectStatement
  <2>2. s \in Statement
    BY StmtsAssumption
  <2>3. CASE SelectReady(g, s)
    <3>1. /\ CanStart(g) /\ Start(g, "ready")
          /\ registering' = <<>> /\ stmt' = stmt
      BY <1>3, <2>3 DEF SelectReady, selectVars, Idle
    <3>2. PICK i \in ReadyCases(s) :
            IF s.cases[i].isSend THEN TrySelectSend(g, s.cases[i].c)
                                 ELSE TrySelectReceive(g, s.cases[i].c)
      BY <2>3 DEF SelectReady
    <3>3. s.cases[i].c \in Chans
      <4>1. i \in DOMAIN s.cases /\ s.cases[i].c # Nil
        BY DEF ReadyCases, CaseReady
      <4>2. s.cases \in Seq(Case)
        BY <2>2 DEF Statement
      <4>3. s.cases[i] \in Case
        BY <4>1, <4>2
      <4> QED BY <4>1, <4>3 DEF Case
    <3>4. TypeOK'
      BY <1>0, <3>1, <3>2, <3>3, ReadyTypes
    <3>5. Selecting'
      BY <1>2, <3>1
    <3> QED BY <1>0, <3>1, <3>4, <3>5 DEF SelectTypes, SelectTypeOK
  <2>4. CASE SelectDefault(g, s) \/ SelectForever(g, s)
    <3>1. PICK st \in {"ready", "forever"} : CanStart(g) /\ Start(g, st)
      BY <2>4 DEF SelectDefault, SelectForever
    <3>2. /\ UNCHANGED <<chan, micro, timers, done, sent, taken, got, stmt>>
          /\ registering' = <<>>
      BY <1>3, <2>4 DEF SelectDefault, SelectForever, Idle
    <3>3. op' \in [G -> 0..MaxOps] /\ pc' \in [G -> States] /\ Selecting'
      BY <1>2, <3>1
    <3> QED BY <1>0, <3>2, <3>3 DEF SelectTypes, SelectTypeOK, TypeOK
  <2>5. CASE SelectBlocks(g, s)
    <3>1. /\ CanStart(g) /\ Start(g, "selecting")
          /\ UNCHANGED <<chan, micro, timers, done, sent, taken, got>>
          /\ stmt' = [stmt EXCEPT ![g] = s]
          /\ registering' = <<[g |-> g, i |-> 1]>>
          /\ LiveCases(s) # {}
      BY <2>5 DEF SelectBlocks
    <3>2. op' \in [G -> 0..MaxOps] /\ pc' \in [G -> States] /\ Selecting'
      BY <1>2, <3>1
    <3>3. TypeOK'
      BY <1>0, <3>1, <3>2 DEF TypeOK
    <3>4. stmt' \in [G -> Stmts \cup {NoStmt}] /\ stmt'[g] = s
      BY <1>0, <3>1
    <3>5. pc'[g] = "selecting"
      BY <1>0, <3>1 DEF Start
    <3>6. 1 \in DOMAIN s.cases
      <4>1. s.cases \in Seq(Case)
        BY <2>2 DEF Statement
      <4>2. PICK i \in DOMAIN s.cases : TRUE
        BY <3>1 DEF LiveCases
      <4> QED BY <4>1, <4>2
    <3>7. PICK r \in [g : G, i : Nat] : r = [g |-> g, i |-> 1]
      OBVIOUS
    <3>8. /\ registering' \in Seq([g : G, i : Nat]) /\ Len(registering') = 1
          /\ registering'[1] = r
      BY <3>1, <3>7
    <3> QED BY <3>2, <3>3, <3>4, <3>5, <3>6, <3>7, <3>8 DEF SelectTypes, SelectTypeOK
  <2> QED BY <2>1, <2>3, <2>4, <2>5
<1>4. ASSUME Idle, NEW g \in G, NEW o \in Outcome, EndSelect(g, o),
             timers' \in Seq(Job), done' \in [G -> SUBSET Outcome]
      PROVE  SelectTypes'
  <2>1. TypeOK'
    BY <1>0, <1>4, EndTypes DEF TypeOK
  <2>2. registering' = <<>> /\ op' = op /\ pc' = [pc EXCEPT ![g] = "ready"]
    BY <1>4 DEF EndSelect, Idle
  <2>3. Selecting'
    BY <1>0, <2>2 DEF Selecting
  <2>4. stmt' \in [G -> Stmts \cup {NoStmt}]
    BY <1>4, EndTypes
  <2> QED BY <2>1, <2>2, <2>3, <2>4 DEF SelectTypes, SelectTypeOK
<1>5. ASSUME Idle, NEW g \in G, SelectResumes(g) PROVE SelectTypes'
  <2>1. PICK o \in done[g] : EndSelect(g, o)
    BY <1>5 DEF SelectResumes
  <2>2. done \in [G -> SUBSET Outcome] /\ timers \in Seq(Job)
    BY <1>0 DEF TypeOK
  <2>3. /\ o \in Outcome /\ timers' \in Seq(Job) /\ done' \in [G -> SUBSET Outcome]
    BY <1>5, <2>1, <2>2 DEF SelectResumes
  <2> QED BY <1>4, <1>5, <2>1, <2>3
<1>6. ASSUME Idle, SelectTimer \/ StaleTimer PROVE SelectTypes'
  <2>1. timers \in Seq(Job) /\ timers # <<>> /\ done \in [G -> SUBSET Outcome]
    BY <1>0, <1>6 DEF SelectTimer, StaleTimer, TimerTurn, TypeOK
  <2>2. PICK j \in Job : j = Head(timers)
    BY <2>1
  <2>3. timers' \in Seq(Job) /\ done' = done
    BY <1>6, <2>1 DEF SelectTimer, StaleTimer
  <2>4. CASE SelectTimer
    <3>1. j.to.g \in G /\ TimerOutcome(j) \in Outcome
      BY <2>2 DEF Job, Task, TimerOutcome, Outcome
    <3>2. EndSelect(j.to.g, TimerOutcome(j))
      BY <2>2, <2>4 DEF SelectTimer
    <3> QED BY <1>4, <1>6, <2>1, <2>3, <3>1, <3>2
  <2>5. CASE StaleTimer
    <3>1. UNCHANGED <<chan, micro, pc, op, done, sent, taken, got, stmt, registering>>
      BY <2>5 DEF StaleTimer
    <3> QED BY <1>0, <1>6, <2>3, <3>1 DEF SelectTypes, SelectTypeOK, TypeOK, Selecting, Idle
  <2> QED BY <1>6, <2>4, <2>5
<1>7. ASSUME RegisterCase PROVE SelectTypes'
  <2>1. PICK g, i : g = registering[1].g /\ i = registering[1].i
    OBVIOUS
  <2>2. /\ registering # <<>> /\ UNCHANGED <<pc, op, stmt>>
        /\ registering' = IF i = Len(stmt[g].cases) THEN <<>> ELSE <<[g |-> g, i |-> i + 1]>>
    BY <1>7, <2>1 DEF RegisterCase
  <2>3. /\ g \in G /\ i \in Nat /\ pc[g] = "selecting" /\ i \in DOMAIN stmt[g].cases
        /\ stmt[g].cases[i] \in Case /\ \A c \in Chans : CaseTask(g, c, i) \in Task
    BY <2>1, <2>2, RegisteringType
  <2>4. TypeOK'
    <3>1. CASE UNCHANGED <<chan, micro, timers, done, sent, taken, got>>
      BY <1>0, <2>2, <3>1 DEF TypeOK
    <3>2. ASSUME NEW c \in Chans,
                 SelectSend(CaseTask(g, c, i), c) \/ SelectReceive(CaseTask(g, c, i), c)
          PROVE  TypeOK'
      BY <1>0, <2>2, <2>3, <3>2, CaseTypes
    <3>3. stmt[g].cases[i].c \in Chans \cup {Nil}
      BY <2>3 DEF Case
    <3> QED BY <1>7, <2>1, <3>1, <3>2, <3>3 DEF RegisterCase
  <2>5. /\ registering' \in Seq([g : G, i : Nat]) /\ Len(registering') <= 1
        /\ registering' # <<>> => /\ registering'[1].g = g
                                  /\ registering'[1].i \in DOMAIN stmt[g].cases
    <3>1. stmt[g].cases \in Seq(Case)
      BY <1>0, <2>3, StatementType DEF SelectTypes, Statement
    <3>2. CASE i = Len(stmt[g].cases)
      BY <2>2, <3>2
    <3>3. CASE i # Len(stmt[g].cases)
      <4>1. PICK r \in [g : G, i : Nat] : r = [g |-> g, i |-> i + 1]
        <5>1. [g |-> g, i |-> i + 1] \in [g : G, i : Nat]
          BY <2>3
        <5> QED BY <5>1
      <4>2. registering' = <<r>>
        BY <2>2, <3>3, <4>1
      <4>3. i + 1 \in DOMAIN stmt[g].cases
        BY <2>3, <3>1, <3>3
      <4> QED BY <4>1, <4>2, <4>3
    <3> QED BY <3>2, <3>3
  <2>6. Selecting'
    BY <1>0, <2>2 DEF Selecting
  <2> QED BY <1>0, <2>2, <2>3, <2>4, <2>5, <2>6 DEF SelectTypes, SelectTypeOK
<1>8. ASSUME UNCHANGED allVars PROVE SelectTypes'
  BY <1>0, <1>8 DEF allVars, vars, SelectTypes, SelectTypeOK, TypeOK, Selecting
<1> QED BY <1>1, <1>3, <1>5, <1>6, <1>7, <1>8 DEF SelectNext

LEMMA SelectTypeInit == SelectInit => SelectTypes
<1> SUFFICES ASSUME SelectInit PROVE SelectTypes
  OBVIOUS
<1>1. TypeOK
  BY TypeInit DEF SelectInit
<1>2. stmt \in [G -> Stmts \cup {NoStmt}] /\ registering = <<>>
  BY DEF SelectInit
<1>3. Selecting
  BY DEF SelectInit, Init, Selecting
<1> QED BY <1>1, <1>2, <1>3 DEF SelectTypes, SelectTypeOK

\* Goroutines that run select statements keep every part of the state typed,
\* and a select is registered case by case by one goroutine at a time.
THEOREM SelectTypeCorrect == SelectSpec => []SelectTypeOK
<1>1. SelectSpec => []SelectTypes
  BY SelectTypeInit, SelectTypeStep, PTL DEF SelectSpec
<1>2. SelectTypes => SelectTypeOK
  BY DEF SelectTypes
<1> QED BY <1>1, <1>2, PTL

-----------------------------------------------------------------------------
(* What a select statement does to the channels.                           *)

\* The send side of a case, with the task t that learns its outcome.
CaseRefused(c) == chan[c].closed /\ UNCHANGED <<chan, micro, taken>>

CasePasses(t, c) ==
  /\ ~chan[c].closed /\ HasReceiver(chan[c])
  /\ chan' = [chan EXCEPT ![c] = ShiftReceiver(chan[c])]
  /\ micro' = Append(micro, HandoffJob(NextReceiver(chan[c]), NextValue, t))
  /\ Take(c, NextValue)

CaseBuffers(c) ==
  /\ ~chan[c].closed /\ ~HasReceiver(chan[c]) /\ HasRoom(c, chan[c])
  /\ chan' = [chan EXCEPT ![c] = [chan[c] EXCEPT !.buffer = Append(chan[c].buffer, NextValue)]]
  /\ UNCHANGED <<micro, taken>>

CaseOffers(t, c) ==
  /\ ~chan[c].closed /\ ~HasReceiver(chan[c]) /\ ~HasRoom(c, chan[c])
  /\ chan' = [chan EXCEPT ![c] = [chan[c] EXCEPT !.senders =
                                    Append(chan[c].senders, [t |-> t, v |-> NextValue])]]
  /\ UNCHANGED <<micro, taken>>

\* The receive side: a value (or the end) of the channel, or a place in line.
CaseTakesBuffered(c) ==
  /\ chan[c].buffer # <<>>
  /\ chan' = [chan EXCEPT ![c] = ShiftBuffer(chan[c])]
  /\ micro' = micro \o UnblockSender(chan[c])
  /\ Take(c, Head(chan[c].buffer))

CaseTakesOffered(c) ==
  /\ chan[c].buffer = <<>> /\ chan[c].senders # <<>>
  /\ chan' = [chan EXCEPT ![c] = ShiftSender(chan[c])]
  /\ micro' = micro \o UnblockSender(chan[c])
  /\ Take(c, Head(chan[c].senders).v)

CaseFindsClosed(c) ==
  /\ chan[c].buffer = <<>> /\ chan[c].senders = <<>> /\ chan[c].closed
  /\ UNCHANGED <<chan, micro, taken>>

CaseWaits(t, c) ==
  /\ ~CanReceiveNonBlocking(chan[c])
  /\ chan' = [chan EXCEPT ![c] = [chan[c] EXCEPT !.receiversWithOk =
                                    Append(chan[c].receiversWithOk, t)]]
  /\ UNCHANGED <<micro, taken>>

CaseSends(t, c) ==
  /\ \E st \in {"pending", "returned", "panicked"} : RecordSend(c, st)
  /\ CaseRefused(c) \/ CasePasses(t, c) \/ CaseBuffers(c) \/ CaseOffers(t, c)

CaseTakes(c) == CaseTakesBuffered(c) \/ CaseTakesOffered(c) \/ CaseFindsClosed(c)

CaseReceives(t, c) == sent' = sent /\ (CaseTakes(c) \/ CaseWaits(t, c))

CasesAborted(g) ==
  /\ chan' = [c \in Chans |-> AbortCases(g, chan[c])]
  /\ Len(sent') = Len(sent) /\ UNCHANGED <<micro, taken>>

ChannelsStay == UNCHANGED <<chan, micro, taken>> /\ Len(sent') = Len(sent)

\* A receive case that finds something.
LEMMA TakeKinds ==
  ASSUME TypeOK, NEW c \in Chans, TakeFromChannel(c)
  PROVE  CaseTakes(c) /\ (CaseTakesBuffered(c) => ReceivableValue(chan[c]) = Head(chan[c].buffer))
                  /\ (CaseTakesOffered(c) => ReceivableValue(chan[c]) = Head(chan[c].senders).v)
                  /\ (CaseFindsClosed(c) => ReceivableValue(chan[c]) = Zero)
<1>1. micro \in Seq(Job)
  BY DEF TypeOK
<1>2. CASE chan[c].buffer # <<>>
  BY <1>2
     DEF TakeFromChannel, CaseTakes, CaseTakesBuffered, CaseTakesOffered, CaseFindsClosed,
         ReceivableValue
<1>3. CASE chan[c].buffer = <<>> /\ chan[c].senders # <<>>
  BY <1>3
     DEF TakeFromChannel, CaseTakes, CaseTakesBuffered, CaseTakesOffered, CaseFindsClosed,
         ReceivableValue
<1>4. CASE chan[c].buffer = <<>> /\ chan[c].senders = <<>>
  <2>1. UnblockSender(chan[c]) = <<>>
    BY <1>4 DEF UnblockSender
  <2>2. micro' = micro
    BY <1>1, <2>1 DEF TakeFromChannel
  <2> QED BY <1>4, <2>2
     DEF TakeFromChannel, CaseTakes, CaseTakesBuffered, CaseTakesOffered, CaseFindsClosed,
         ReceivableValue
<1> QED BY <1>2, <1>3, <1>4

\* A case on its channel.
LEMMA CaseKinds ==
  ASSUME TypeOK, NEW c \in Chans, NEW t
  PROVE  /\ SelectSend(t, c) => CaseSends(t, c)
         /\ SelectReceive(t, c) => CaseReceives(t, c)
<1>1. ASSUME SelectSend(t, c) PROVE CaseSends(t, c)
  <2>1. \E st \in {"pending", "returned", "panicked"} : RecordSend(c, st)
    BY <1>1 DEF SelectSend
  <2>2. CaseRefused(c) \/ CasePasses(t, c) \/ CaseBuffers(c) \/ CaseOffers(t, c)
    BY <1>1 DEF SelectSend, CaseRefused, CasePasses, CaseBuffers, CaseOffers
  <2> QED BY <2>1, <2>2 DEF CaseSends
<1>2. ASSUME SelectReceive(t, c) PROVE CaseReceives(t, c)
  <2>1. CASE CanReceiveNonBlocking(chan[c])
    BY <1>2, <2>1, TakeKinds DEF SelectReceive, CaseReceives
  <2>2. CASE ~CanReceiveNonBlocking(chan[c])
    BY <1>2, <2>2 DEF SelectReceive, CaseReceives, CaseWaits
  <2> QED BY <1>2, <2>1, <2>2
<1> QED BY <1>1, <1>2

LEMMA ReadyKinds ==
  ASSUME TypeOK, NEW g \in G, NEW c \in Chans
  PROVE  /\ TrySelectSend(g, c) => CaseSends(TaskOf(g, c, 0), c)
         /\ TrySelectReceive(g, c) => sent' = sent /\ CaseTakes(c)
<1>1. ASSUME TrySelectSend(g, c) PROVE CaseSends(TaskOf(g, c, 0), c)
  <2>1. \E st \in {"pending", "returned", "panicked"} : RecordSend(c, st)
    BY <1>1 DEF TrySelectSend
  <2>2. PICK t : t = TaskOf(g, c, 0)
    OBVIOUS
  <2>3. CaseRefused(c) \/ CasePasses(t, c) \/ CaseBuffers(c)
    BY <1>1, <2>2 DEF TrySelectSend, CaseRefused, CasePasses, CaseBuffers
  <2> QED BY <2>1, <2>2, <2>3 DEF CaseSends
<1>2. ASSUME TrySelectReceive(g, c) PROVE sent' = sent /\ CaseTakes(c)
  BY <1>2, TakeKinds DEF TrySelectReceive
<1> QED BY <1>1, <1>2

LEMMA EndKinds ==
  ASSUME SelectTypes, NEW g \in G, NEW o \in Outcome, EndSelect(g, o)
  PROVE  CasesAborted(g) \/ ChannelsStay
<1>1. sent \in Seq(SendRecord)
  BY DEF SelectTypes, SelectTypeOK, TypeOK
<1>2. CASE o.kind = "panic"
  <2>1. RaceRejected(o)
    BY <1>2 DEF EndSelect
  <2>2. Len(sent') = Len(sent)
    <3>1. DOMAIN sent = 1..Len(sent) /\ Len(sent) \in Nat
      BY <1>1
    <3>2. sent' \in Seq(SendRecord) /\ DOMAIN sent' = DOMAIN sent
      BY <2>1, EndTypes DEF RaceRejected
    <3>3. DOMAIN sent' = 1..Len(sent') /\ Len(sent') \in Nat
      BY <3>2
    <3> QED BY <3>1, <3>2, <3>3
  <2> QED BY <2>1, <2>2 DEF EndSelect, RaceRejected, ChannelsStay
<1>3. CASE o.kind # "panic"
  <2>1. RaceFulfilled(g, o)
    BY <1>3 DEF EndSelect
  <2>2. Len(sent') = Len(sent)
    <3>1. DOMAIN sent = 1..Len(sent) /\ Len(sent) \in Nat
      BY <1>1
    <3>2. sent' \in Seq(SendRecord) /\ DOMAIN sent' = DOMAIN sent
      BY <2>1, EndTypes DEF RaceFulfilled
    <3>3. DOMAIN sent' = 1..Len(sent') /\ Len(sent') \in Nat
      BY <3>2
    <3> QED BY <3>1, <3>2, <3>3
  <2> QED BY <2>1, <2>2 DEF EndSelect, RaceFulfilled, CasesAborted
<1> QED BY <1>2, <1>3

\* A step of a select statement does one of five things to the channels.
LEMMA SelectKinds ==
  ASSUME SelectTypes, SelectNext
  PROVE  \/ Next
         \/ \E c \in Chans, t \in Task : CaseSends(t, c) \/ CaseReceives(t, c)
         \/ \E g \in G : CasesAborted(g)
         \/ ChannelsStay
<1>0. TypeOK /\ timers \in Seq(Job) /\ done \in [G -> SUBSET Outcome]
  BY DEF SelectTypes, SelectTypeOK, TypeOK
<1> DEFINE Kinds == \/ \E c \in Chans, t \in Task : CaseSends(t, c) \/ CaseReceives(t, c)
                    \/ \E g \in G : CasesAborted(g)
                    \/ ChannelsStay
<1>1. ASSUME NEW g \in G, SelectStatement(g) PROVE Kinds
  <2>1. PICK s \in Stmts : SelectReady(g, s) \/ SelectDefault(g, s)
                             \/ SelectForever(g, s) \/ SelectBlocks(g, s)
    BY <1>1 DEF SelectStatement
  <2>2. CASE SelectReady(g, s)
    <3>1. PICK i \in ReadyCases(s) :
            IF s.cases[i].isSend THEN TrySelectSend(g, s.cases[i].c)
                                 ELSE TrySelectReceive(g, s.cases[i].c)
      BY <2>2 DEF SelectReady
    <3>2. PICK c : c = s.cases[i].c
      OBVIOUS
    <3>3. c \in Chans
      <4>1. i \in DOMAIN s.cases /\ c # Nil
        BY <3>2 DEF ReadyCases, CaseReady
      <4>2. s.cases \in Seq(Case)
        BY StmtsAssumption DEF Statement
      <4>3. s.cases[i] \in Case
        BY <4>1, <4>2
      <4> QED BY <3>2, <4>1, <4>3 DEF Case
    <3>4. TaskOf(g, c, 0) \in Task
      BY <1>0, <2>2, <3>3, StartType DEF SelectReady
    <3> QED BY <1>0, <3>1, <3>2, <3>3, <3>4, ReadyKinds DEF CaseReceives
  <2>3. CASE SelectDefault(g, s) \/ SelectForever(g, s) \/ SelectBlocks(g, s)
    BY <2>3 DEF SelectDefault, SelectForever, SelectBlocks, ChannelsStay
  <2> QED BY <2>1, <2>2, <2>3
<1>2. ASSUME NEW g \in G, SelectResumes(g) PROVE Kinds
  <2>1. PICK o \in done[g] : EndSelect(g, o)
    BY <1>2 DEF SelectResumes
  <2>2. o \in Outcome
    BY <1>0, <2>1
  <2> QED BY <2>1, <2>2, EndKinds
<1>3. ASSUME SelectTimer PROVE Kinds
  <2>1. PICK j \in Job : j = Head(timers)
    BY <1>0, <1>3 DEF SelectTimer, TimerTurn
  <2>2. j.to.g \in G /\ TimerOutcome(j) \in Outcome
    BY <2>1 DEF Job, Task, TimerOutcome, Outcome
  <2>3. EndSelect(j.to.g, TimerOutcome(j))
    BY <1>3, <2>1 DEF SelectTimer
  <2> QED BY <2>2, <2>3, EndKinds
<1>4. ASSUME StaleTimer PROVE Kinds
  BY <1>4 DEF StaleTimer, ChannelsStay
<1>5. ASSUME RegisterCase PROVE Kinds
  <2>1. PICK g, i : g = registering[1].g /\ i = registering[1].i
    OBVIOUS
  <2>2. /\ stmt[g].cases[i] \in Case /\ \A c \in Chans : CaseTask(g, c, i) \in Task
    BY <1>5, <2>1, RegisteringType DEF RegisterCase
  <2>3. CASE UNCHANGED <<chan, micro, timers, done, sent, taken, got>>
    BY <2>3 DEF ChannelsStay
  <2>4. ASSUME NEW c \in Chans,
               SelectSend(CaseTask(g, c, i), c) \/ SelectReceive(CaseTask(g, c, i), c)
        PROVE  Kinds
    BY <1>0, <2>2, <2>4, CaseKinds
  <2>5. stmt[g].cases[i].c \in Chans \cup {Nil}
    BY <2>2 DEF Case
  <2> HIDE DEF Kinds
  <2> QED BY <1>5, <2>1, <2>3, <2>4, <2>5 DEF RegisterCase
<1> QED BY <1>1, <1>2, <1>3, <1>4, <1>5 DEF SelectNext

-----------------------------------------------------------------------------
(* The waiting lists in order, and the Go channel.                         *)

\* Some call of a select changes one channel.
CaseChange(t, c, x) ==
  \/ ~chan[c].closed /\ HasReceiver(chan[c]) /\ x = ShiftReceiver(chan[c])
  \/ /\ ~chan[c].closed /\ ~HasReceiver(chan[c]) /\ HasRoom(c, chan[c])
     /\ x = [chan[c] EXCEPT !.buffer = Append(chan[c].buffer, NextValue)]
  \/ /\ ~chan[c].closed /\ ~HasReceiver(chan[c]) /\ ~HasRoom(c, chan[c])
     /\ x = [chan[c] EXCEPT !.senders =
               Append(chan[c].senders, [t |-> t, v |-> NextValue])]
  \/ chan[c].buffer # <<>> /\ x = ShiftBuffer(chan[c])
  \/ chan[c].buffer = <<>> /\ chan[c].senders # <<>> /\ x = ShiftSender(chan[c])
  \/ /\ ~CanReceiveNonBlocking(chan[c])
     /\ x = [chan[c] EXCEPT !.receiversWithOk = Append(chan[c].receiversWithOk, t)]

LEMMA CaseChanges ==
  ASSUME NEW c \in Chans, NEW t, CaseSends(t, c) \/ CaseReceives(t, c)
  PROVE  \/ chan' = chan
         \/ \E x : chan' = [chan EXCEPT ![c] = x] /\ CaseChange(t, c, x)
BY DEF CaseSends, CaseReceives, CaseRefused, CasePasses, CaseBuffers, CaseOffers, CaseTakes,
       CaseTakesBuffered, CaseTakesOffered, CaseFindsClosed, CaseWaits, CaseChange

LEMMA CaseChangeDisciplined ==
  ASSUME TypeOK, QueueDiscipline, NEW c \in Chans, NEW t \in Task, NEW x, CaseChange(t, c, x)
  PROVE  Disciplined(c, x)
<1>1. chan[c] \in ChannelState /\ Disciplined(c, chan[c]) /\ NextValue \in Value
  BY HistoryType DEF TypeOK, QueueDiscipline
<1>2. PICK s : s = [t |-> t, v |-> NextValue]
  OBVIOUS
<1>3. s \in SenderTask
  BY <1>1, <1>2 DEF SenderTask
<1>4. CASE ~chan[c].closed /\ HasReceiver(chan[c]) /\ x = ShiftReceiver(chan[c])
  BY <1>1, <1>4, DisciplineSteps
<1>5. CASE /\ ~chan[c].closed /\ ~HasReceiver(chan[c]) /\ HasRoom(c, chan[c])
           /\ x = [chan[c] EXCEPT !.buffer = Append(chan[c].buffer, NextValue)]
  BY <1>1, <1>5, DisciplineSteps
<1>6. CASE /\ ~chan[c].closed /\ ~HasReceiver(chan[c]) /\ ~HasRoom(c, chan[c])
           /\ x = [chan[c] EXCEPT !.senders = Append(chan[c].senders, s)]
  BY <1>1, <1>3, <1>6, DisciplineSteps
<1>7. CASE \/ chan[c].buffer # <<>> /\ x = ShiftBuffer(chan[c])
           \/ chan[c].buffer = <<>> /\ chan[c].senders # <<>> /\ x = ShiftSender(chan[c])
  BY <1>1, <1>7, DisciplineSteps
<1>8. CASE /\ ~CanReceiveNonBlocking(chan[c])
           /\ x = [chan[c] EXCEPT !.receiversWithOk = Append(chan[c].receiversWithOk, t)]
  BY <1>1, <1>8, DisciplineSteps
<1> QED BY <1>2, <1>4, <1>5, <1>6, <1>7, <1>8 DEF CaseChange

LEMMA SelectDisciplineStep ==
  SelectTypes /\ QueueDiscipline /\ [SelectNext]_allVars => QueueDiscipline'
<1> SUFFICES ASSUME SelectTypes, QueueDiscipline, [SelectNext]_allVars
             PROVE  QueueDiscipline'
  OBVIOUS
<1>0. TypeOK /\ \A c \in Chans : chan[c] \in ChannelState /\ Disciplined(c, chan[c])
  BY DEF SelectTypes, SelectTypeOK, TypeOK, QueueDiscipline
<1>1. ASSUME chan' = chan PROVE QueueDiscipline'
  BY <1>1 DEF QueueDiscipline, Disciplined, HasReceiver
<1>2. ASSUME Next PROVE QueueDiscipline'
  BY <1>0, <1>2, DisciplineStep
<1>3. ASSUME NEW c \in Chans, NEW t \in Task, CaseSends(t, c) \/ CaseReceives(t, c)
      PROVE  QueueDiscipline'
  BY <1>0, <1>1, <1>3, CaseChanges, CaseChangeDisciplined, OneChannel
<1>4. ASSUME NEW g \in G, CasesAborted(g) PROVE QueueDiscipline'
  <2>1. \A c \in Chans : chan'[c] = AbortCases(g, chan[c])
    BY <1>4 DEF CasesAborted
  <2>2. \A c \in Chans : Disciplined(c, chan'[c])
    BY <1>0, <2>1, AbortOf
  <2> QED BY <2>2 DEF QueueDiscipline, Disciplined, HasReceiver
<1>5. ASSUME ChannelsStay PROVE QueueDiscipline'
  BY <1>1, <1>5 DEF ChannelsStay
<1>6. ASSUME UNCHANGED allVars PROVE QueueDiscipline'
  BY <1>1, <1>6 DEF allVars, vars
<1> QED BY <1>2, <1>3, <1>4, <1>5, <1>6, SelectKinds

\* The waiting lists stay in order when goroutines run select statements,
\* whose cases join several of them at once and leave them when one is served.
THEOREM SelectQueueDiscipline == SelectSpec => []QueueDiscipline
<1>1. SelectInit => QueueDiscipline
  BY DisciplineInit DEF SelectInit
<1> QED BY <1>1, SelectTypeInit, SelectTypeStep, SelectDisciplineStep, PTL DEF SelectSpec

\* A line that a call of a case changes is changed as the Go channel allows.
LEMMA SelectGoStep ==
  SelectTypes /\ QueueDiscipline /\ [SelectNext]_allVars => [Go!Next]_(Go!vars)
<1> SUFFICES ASSUME SelectTypes, QueueDiscipline, [SelectNext]_allVars
             PROVE  Go!Next \/ UNCHANGED Go!vars
  OBVIOUS
<1>0. TypeOK
  BY DEF SelectTypes, SelectTypeOK
<1>t. \A c \in Chans : /\ chan[c] \in ChannelState /\ Disciplined(c, chan[c])
                       /\ chan[c].senders \in Seq(SenderTask) /\ chan[c].buffer \in Seq(Value)
                       /\ chan[c].receiversWithOk \in Seq(Task)
  BY <1>0, ChannelFields DEF TypeOK, QueueDiscipline
<1>n. sent \in Seq(SendRecord) /\ NextValue \in Value /\ Len(sent) \in Nat
  BY <1>0 DEF TypeOK, NextValue, Value, Zero
<1>l. ASSUME NEW c \in Chans, NEW st \in {"pending", "returned", "panicked"}, RecordSend(c, st)
      PROVE  NextValue' = NextValue + 1
  <2>1. [c |-> c, st |-> st] \in SendRecord
    BY DEF SendRecord
  <2>2. Len(sent') = Len(sent) + 1
    BY <1>n, <1>l, <2>1 DEF RecordSend
  <2> QED BY <1>n, <2>2 DEF NextValue
<1>u. ASSUME chan' = chan, taken' = taken, Len(sent') = Len(sent)
      PROVE  UNCHANGED Go!vars
  <2>1. \A c \in Chans : Line(c)' = Line(c)
    BY <1>u DEF Line
  <2> QED BY <1>u, <2>1 DEF Go!vars, NextValue
<1>1. ASSUME Next PROVE Go!Next \/ UNCHANGED Go!vars
  BY <1>0, <1>1, GoStep
<1>2. ASSUME NEW c \in Chans, NEW t \in Task, CaseSends(t, c) PROVE Go!Next
  <2>0. NextValue' = NextValue + 1
    BY <1>2, <1>l DEF CaseSends
  <2>1. CASE CaseRefused(c)
    <3>1. chan[c].closed /\ chan' = chan /\ taken' = taken
      BY <2>1 DEF CaseRefused
    <3>2. \A d \in Chans : Line(d)' = Line(d)
      BY <3>1 DEF Line
    <3>3. Go!Refuse(c)
      BY <2>0, <3>1, <3>2 DEF Go!Refuse
    <3> QED BY <3>3 DEF Go!Next
  <2>2. CASE CasePasses(t, c)
    <3>1. /\ ~chan[c].closed /\ HasReceiver(chan[c])
          /\ chan' = [chan EXCEPT ![c] = ShiftReceiver(chan[c])]
          /\ taken' = [taken EXCEPT ![c] = Append(@, NextValue)]
      BY <2>2 DEF CasePasses, Take
    <3>2. /\ LineOf(chan[c]) = <<>> /\ LineOf(ShiftReceiver(chan[c])) = <<>>
          /\ ShiftReceiver(chan[c]) \in ChannelState
          /\ ShiftReceiver(chan[c]).closed = chan[c].closed
      BY <1>t, <3>1, LineSteps, ChannelSteps, ClosedStays
    <3>3. /\ UNCHANGED <<Lines, Closed>> /\ Lines[c] = <<>> /\ Closed[c] = chan[c].closed
      <4>1. PICK x : x = ShiftReceiver(chan[c])
        OBVIOUS
      <4>2. /\ x \in ChannelState /\ chan' = [chan EXCEPT ![c] = x]
            /\ x.closed = chan[c].closed /\ LineOf(x) = LineOf(chan[c])
        BY <3>1, <3>2, <4>1
      <4> QED BY <1>0, <3>2, <4>2, LineUpdate
    <3>4. Go!Pass(c)
      BY <2>0, <3>1, <3>3, Zenon DEF Go!Pass, Lines, Closed
    <3> QED BY <3>4 DEF Go!Next
  <2>3. ASSUME ~chan[c].closed, taken' = taken, NEW x \in ChannelState,
               chan' = [chan EXCEPT ![c] = x], x.closed = chan[c].closed,
               LineOf(x) = Append(LineOf(chan[c]), NextValue)
        PROVE  Go!Offer(c)
    <3>1. /\ Lines' = [Lines EXCEPT ![c] = LineOf(x)] /\ Lines[c] = LineOf(chan[c])
          /\ UNCHANGED Closed /\ Closed[c] = chan[c].closed
      BY <1>0, <2>3, LineUpdate
    <3>2. Lines' = [Lines EXCEPT ![c] = Append(LineOf(chan[c]), NextValue)]
      BY <2>3, <3>1
    <3> QED BY <2>0, <2>3, <3>1, <3>2 DEF Go!Offer, Lines, Closed
  <2>4. CASE CaseBuffers(c)
    <3>1. PICK b : b = Append(chan[c].buffer, NextValue)
      OBVIOUS
    <3>2. PICK x : x = [chan[c] EXCEPT !.buffer = b]
      OBVIOUS
    <3>3. /\ ~chan[c].closed /\ taken' = taken /\ chan' = [chan EXCEPT ![c] = x]
          /\ HasRoom(c, chan[c])
      BY <2>4, <3>1, <3>2 DEF CaseBuffers
    <3>4. x \in ChannelState /\ x.closed = chan[c].closed
      <4>1. b \in Seq(Value)
        BY <1>t, <1>n, <3>1
      <4> QED BY <1>t, <3>2, <4>1, ChannelFields, ClosedStays
    <3>5. LineOf(x) = Append(LineOf(chan[c]), NextValue)
      BY <1>t, <1>n, <3>1, <3>2, <3>3, LineSteps
    <3> QED BY <2>3, <3>3, <3>4, <3>5 DEF Go!Next
  <2>5. CASE CaseOffers(t, c)
    <3>1. PICK s : s = [t |-> t, v |-> NextValue]
      OBVIOUS
    <3>2. PICK q : q = Append(chan[c].senders, s)
      OBVIOUS
    <3>3. PICK x : x = [chan[c] EXCEPT !.senders = q]
      OBVIOUS
    <3>4. ~chan[c].closed /\ taken' = taken /\ chan' = [chan EXCEPT ![c] = x]
      BY <2>5, <3>1, <3>2, <3>3 DEF CaseOffers
    <3>5. s \in SenderTask /\ s.v = NextValue
      BY <1>n, <3>1 DEF SenderTask
    <3>6. x \in ChannelState /\ x.closed = chan[c].closed
      <4>1. q \in Seq(SenderTask)
        BY <1>t, <3>2, <3>5
      <4> QED BY <1>t, <3>3, <4>1, ChannelFields, ClosedStays
    <3>7. LineOf(x) = Append(LineOf(chan[c]), s.v)
      BY <1>t, <3>2, <3>3, <3>5, LineSteps
    <3> QED BY <2>3, <3>4, <3>5, <3>6, <3>7 DEF Go!Next
  <2> QED BY <1>2, <2>1, <2>2, <2>4, <2>5 DEF CaseSends
<1>3. ASSUME NEW c \in Chans, NEW t \in Task, CaseReceives(t, c)
      PROVE  Go!Next \/ UNCHANGED Go!vars
  <2>0. sent' = sent /\ NextValue' = NextValue
    BY <1>3 DEF CaseReceives, NextValue
  <2>1. ASSUME NEW x \in ChannelState, chan' = [chan EXCEPT ![c] = x],
               x.closed = chan[c].closed, LineOf(chan[c]) # <<>>,
               LineOf(x) = Tail(LineOf(chan[c])), Take(c, Head(LineOf(chan[c])))
        PROVE  Go!Take(c)
    <3>1. /\ Lines' = [Lines EXCEPT ![c] = LineOf(x)] /\ Lines[c] = LineOf(chan[c])
          /\ UNCHANGED Closed
      BY <1>0, <2>1, LineUpdate
    <3>2. Lines' = [Lines EXCEPT ![c] = Tail(LineOf(chan[c]))]
      BY <2>1, <3>1
    <3> QED BY <2>0, <2>1, <3>1, <3>2 DEF Go!Take, Lines, Closed, Take
  <2>2. CASE CaseTakesBuffered(c)
    <3>1. PICK x : x = ShiftBuffer(chan[c])
      OBVIOUS
    <3>2. /\ chan[c].buffer # <<>> /\ chan' = [chan EXCEPT ![c] = x]
          /\ Take(c, Head(chan[c].buffer))
      BY <2>2, <3>1 DEF CaseTakesBuffered
    <3>3. /\ LineOf(chan[c]) # <<>> /\ Head(LineOf(chan[c])) = Head(chan[c].buffer)
          /\ LineOf(x) = Tail(LineOf(chan[c])) /\ x \in ChannelState
          /\ x.closed = chan[c].closed
      BY <1>t, <3>1, <3>2, LineSteps, ChannelSteps, ClosedStays
    <3> QED BY <2>1, <3>2, <3>3 DEF Go!Next
  <2>3. CASE CaseTakesOffered(c)
    <3>1. PICK x : x = ShiftSender(chan[c])
      OBVIOUS
    <3>2. /\ chan[c].buffer = <<>> /\ chan[c].senders # <<>>
          /\ chan' = [chan EXCEPT ![c] = x] /\ Take(c, Head(chan[c].senders).v)
      BY <2>3, <3>1 DEF CaseTakesOffered
    <3>3. /\ LineOf(chan[c]) # <<>> /\ Head(LineOf(chan[c])) = Head(chan[c].senders).v
          /\ LineOf(x) = Tail(LineOf(chan[c])) /\ x \in ChannelState
          /\ x.closed = chan[c].closed
      BY <1>t, <3>1, <3>2, LineSteps, ChannelSteps, ClosedStays
    <3> QED BY <2>1, <3>2, <3>3 DEF Go!Next
  <2>4. CASE CaseFindsClosed(c)
    BY <1>u, <2>0, <2>4 DEF CaseFindsClosed
  <2>5. CASE CaseWaits(t, c)
    <3>1. PICK q : q = Append(chan[c].receiversWithOk, t)
      OBVIOUS
    <3>2. PICK x : x = [chan[c] EXCEPT !.receiversWithOk = q]
      OBVIOUS
    <3>3. chan' = [chan EXCEPT ![c] = x] /\ taken' = taken
      BY <2>5, <3>1, <3>2 DEF CaseWaits
    <3>4. x \in ChannelState /\ x.closed = chan[c].closed /\ LineOf(x) = LineOf(chan[c])
      <4>1. q \in Seq(Task)
        BY <1>t, <3>1
      <4> QED BY <1>t, <3>2, <4>1, ChannelFields, ClosedStays, LineSteps
    <3>5. UNCHANGED <<Lines, Closed>>
      BY <1>0, <3>3, <3>4, LineUpdate
    <3> QED BY <2>0, <3>3, <3>5 DEF Go!vars, Lines, Closed
  <2> QED BY <1>3, <2>2, <2>3, <2>4, <2>5 DEF CaseReceives, CaseTakes
<1>4. ASSUME NEW g \in G, CasesAborted(g) PROVE Go!Next \/ UNCHANGED Go!vars
  <2>1. /\ \A c \in Chans : chan'[c] = AbortCases(g, chan[c])
        /\ taken' = taken /\ NextValue' = NextValue
    BY <1>4 DEF CasesAborted, NextValue
  <2>2. \A c \in Chans : /\ chan'[c] \in ChannelState /\ Disciplined(c, chan'[c])
                         /\ chan'[c].buffer = chan[c].buffer
                         /\ chan'[c].closed = chan[c].closed
                         /\ Go!Subsequence(LineOf(chan'[c]), LineOf(chan[c]))
    <3> TAKE c \in Chans
    <3>1. PICK x : x = chan'[c]
      OBVIOUS
    <3>2. PICK ch : ch = chan[c]
      OBVIOUS
    <3>3. x = AbortCases(g, ch) /\ ch \in ChannelState /\ Disciplined(c, ch)
      BY <1>t, <2>1, <3>1, <3>2
    <3>4. /\ x \in ChannelState /\ Disciplined(c, x) /\ x.buffer = ch.buffer
          /\ x.closed = ch.closed /\ Go!Subsequence(LineOf(x), LineOf(ch))
      BY <3>3, AbortOf
    <3> QED BY <3>1, <3>2, <3>4
  <2>3. \A c \in Chans : /\ LineOf(chan'[c]) \in Seq(Value)
                         /\ IsPrefix(chan[c].buffer, LineOf(chan'[c]))
    <3> TAKE c \in Chans
    <3>1. PICK x : x = chan'[c]
      OBVIOUS
    <3>2. x \in ChannelState /\ Disciplined(c, x) /\ x.buffer = chan[c].buffer
      BY <2>2, <3>1
    <3>3. LineOf(x) \in Seq(Value)
      BY <3>2, LineSteps
    <3>4. IsPrefix(x.buffer, LineOf(x))
      <4>1. x.buffer \in Seq(Value) /\ x.senders \in Seq(SenderTask)
        BY <3>2, ChannelFields
      <4>2. Offered(x.senders) \in Seq(Value)
        BY <4>1, OfferedSteps
      <4> QED BY <4>1, <4>2, PrefixGrows DEF LineOf, Offered
    <3> QED BY <3>1, <3>2, <3>3, <3>4
  <2>4. \A c \in Chans : Go!Buffered(c) = chan[c].buffer
    BY <1>t, LineSteps DEF Go!Buffered, Line, LineOf
  <2>5. /\ \A c \in Chans : Lines[c] = LineOf(chan[c]) /\ Lines'[c] = LineOf(chan'[c])
        /\ Lines' = [c \in Chans |-> LineOf(chan'[c])]
    BY DEF Lines, Line, LineOf
  <2>6. Closed' = Closed
    BY <2>2 DEF Closed
  <2>7. Lines' \in [Chans -> Seq(Nat)]
    <3>1. \A c \in Chans : LineOf(chan'[c]) \in Seq(Nat)
      BY <2>3 DEF Value
    <3> QED BY <2>5, <3>1
  <2>8. \A c \in Chans : /\ IsPrefix(Go!Buffered(c), Lines'[c])
                         /\ Go!Subsequence(Lines'[c], Lines[c])
    BY <2>2, <2>3, <2>4, <2>5
  <2>9. CASE Lines' = Lines
    BY <2>1, <2>6, <2>9 DEF Go!vars, Lines, Closed
  <2>10. CASE Lines' # Lines
    <3>1. \A s, t : IsPrefix(s, t) <=> Go!IsPrefix(s, t)
      BY DEF IsPrefix, Go!IsPrefix
    <3>2. \A c \in Chans : /\ Go!IsPrefix(Go!Buffered(c), Lines'[c])
                           /\ Go!Subsequence(Lines'[c], Lines[c])
      BY <2>8, <3>1
    <3>3. UNCHANGED <<Closed, taken, NextValue>>
      BY <2>1, <2>6
    <3>4. Go!Withdraw
      BY <2>7, <2>10, <3>2, <3>3, Zenon DEF Go!Withdraw, Lines, Closed
    <3> QED BY <3>4 DEF Go!Next
  <2> QED BY <2>9, <2>10
<1>5. ASSUME ChannelsStay PROVE UNCHANGED Go!vars
  BY <1>5, <1>u DEF ChannelsStay
<1>6. ASSUME UNCHANGED allVars PROVE UNCHANGED Go!vars
  BY <1>6, <1>u DEF allVars, vars
<1> QED BY <1>1, <1>2, <1>3, <1>4, <1>5, <1>6, SelectKinds

\* Channels on which select statements run too implement the Go channel: the
\* cases that a select withdraws leave the line of blocked senders without
\* disturbing the order of the others or a buffered value.
THEOREM SelectImplementsGo == SelectSpec => ImplementsGoChannel
<1>1. SelectInit => Go!Init
  <2> SUFFICES ASSUME SelectInit PROVE Go!Init
    OBVIOUS
  <2>1. \A c \in Chans : chan[c] = NewChannel
    BY DEF Init, SelectInit
  <2>2. \A c \in Chans : Line(c) = <<>> /\ chan[c].closed = FALSE
    BY <2>1 DEF Line, NewChannel
  <2>3. NextValue = 1
    BY DEF Init, SelectInit, NextValue
  <2> QED BY <2>2, <2>3 DEF Init, SelectInit, Go!Init
<1>2. SelectInit => QueueDiscipline
  BY DisciplineInit DEF SelectInit
<1> QED BY <1>1, <1>2, SelectTypeInit, SelectTypeStep, SelectDisciplineStep, SelectGoStep, PTL
        DEF SelectSpec, ImplementsGoChannel, Go!Spec

-----------------------------------------------------------------------------
(* What becomes of the tasks in the waiting lists.                         *)

\* The remaining calls on a channel: receive() waits, and close().
PlainWaits(t, c) ==
  /\ ~CanReceiveNonBlocking(chan[c])
  /\ chan' = [chan EXCEPT ![c] = [chan[c] EXCEPT !.receivers = Append(chan[c].receivers, t)]]
  /\ UNCHANGED <<micro, taken>>

Closes(c) ==
  /\ ~chan[c].closed
  /\ chan' = [chan EXCEPT ![c] = CloseChannel(chan[c])]
  /\ timers' = timers \o CloseWakes(chan[c])
  /\ UNCHANGED <<micro, sent, taken>>

\* A call on channel c that may leave the task t behind.
Called(t, c) ==
  \/ CaseSends(t, c) /\ timers' = timers
  \/ CaseReceives(t, c) /\ timers' = timers
  \/ PlainWaits(t, c) /\ UNCHANGED <<timers, sent>>
  \/ Closes(c)

\* Goroutine g starts an operation.
Begins(g) == CanStart(g) /\ \E st \in {"ready", "waiting", "forever"} : Start(g, st)

\* A step outside the select statement.
LEMMA NextKinds ==
  ASSUME TypeOK, QueueDiscipline, Next
  PROVE  \/ \E g \in G, c \in Chans : /\ Begins(g) /\ Called(TaskOf(g, c, 0), c) /\ done' = done
                                      /\ CaseSends(TaskOf(g, c, 0), c) => c \in SendChans
         \/ \E g \in G : Begins(g) /\ UNCHANGED <<chan, micro, timers, done, sent, taken>>
         \/ \E g \in G : Resume(g)
         \/ RunMicrotask \/ RunTimer
<1> DEFINE Call(g, c) == /\ Begins(g) /\ Called(TaskOf(g, c, 0), c) /\ done' = done
                         /\ CaseSends(TaskOf(g, c, 0), c) => c \in SendChans
           Idles(g) == Begins(g) /\ UNCHANGED <<chan, micro, timers, done, sent, taken>>
<1>0. sent \in Seq(SendRecord) /\ \A c \in Chans : chan[c] \in ChannelState
  BY DEF TypeOK
<1>1. ASSUME NEW g \in G, NEW c \in SendChans, Send(g, c) PROVE Call(g, c)
  <2>1. PICK t : t = TaskOf(g, c, 0)
    OBVIOUS
  <2>2. Begins(g) /\ UNCHANGED <<timers, done>>
    BY <1>1 DEF Send, SendPanics, SendHandsOff, SendBuffers, SendBlocks, Begins
  <2>3. \E st \in {"pending", "returned", "panicked"} : RecordSend(c, st)
    BY <1>1 DEF Send, SendPanics, SendHandsOff, SendBuffers, SendBlocks
  <2>4. CaseRefused(c) \/ CasePasses(t, c) \/ CaseBuffers(c) \/ CaseOffers(t, c)
    BY <1>1, <2>1
       DEF Send, SendPanics, SendHandsOff, SendBuffers, SendBlocks,
           CaseRefused, CasePasses, CaseBuffers, CaseOffers
  <2>5. CaseSends(t, c)
    BY <2>3, <2>4 DEF CaseSends
  <2> QED BY <2>1, <2>2, <2>5 DEF Called
<1>2. ASSUME NEW g \in G, NEW c \in Chans, sent' = sent, Begins(g), done' = done,
             Called(TaskOf(g, c, 0), c)
      PROVE  Call(g, c)
  <2>1. ASSUME NEW st, RecordSend(c, st) PROVE FALSE
    <3>1. Len(sent') = Len(sent) + 1 /\ Len(sent) \in Nat
      BY <1>0, <2>1 DEF RecordSend
    <3> QED BY <1>2, <3>1
  <2> QED BY <1>2, <2>1 DEF CaseSends
<1>3. ASSUME NEW g \in G, NEW c \in Chans, Close(g, c) PROVE Call(g, c)
  <2>1. Begins(g) /\ sent' = sent /\ done' = done /\ Closes(c)
    BY <1>3 DEF Close, Closes, Begins
  <2> QED BY <1>2, <2>1 DEF Called
<1>4. ASSUME NEW g \in G, NEW c \in Chans, NEW w \in BOOLEAN, Receive(g, c, w)
      PROVE  Call(g, c) \/ Idles(g)
  <2>1. PICK t : t = TaskOf(g, c, 0)
    OBVIOUS
  <2>2. Begins(g) /\ UNCHANGED <<timers, done, sent>>
    BY <1>4 DEF Receive, ReceiveBuffered, ReceiveClosed, ReceiveFromSender, ReceiveBlocks, Begins
  <2>3. CASE ReceiveBuffered(g, c)
    BY <1>2, <2>2, <2>3 DEF ReceiveBuffered, Called, CaseReceives, CaseTakes, CaseTakesBuffered
  <2>4. CASE ReceiveFromSender(g, c, w)
    BY <1>2, <2>2, <2>4 DEF ReceiveFromSender, Called, CaseReceives, CaseTakes, CaseTakesOffered
  <2>5. CASE ReceiveClosed(g, c, w)
    BY <2>2, <2>5 DEF ReceiveClosed
  <2>6. CASE ReceiveBlocks(g, c, w)
    <3>1. CaseWaits(t, c) \/ PlainWaits(t, c)
      BY <2>1, <2>6 DEF ReceiveBlocks, CaseWaits, PlainWaits, CanReceiveNonBlocking
    <3> QED BY <1>2, <2>1, <2>2, <3>1 DEF Called, CaseReceives
  <2> QED BY <1>4, <2>3, <2>4, <2>5, <2>6 DEF Receive
<1>5. ASSUME NEW g \in G, NilOperation(g) \/ \E c \in Chans : ClosePanics(g, c) PROVE Idles(g)
  BY <1>5 DEF NilOperation, ClosePanics, Begins
<1>6. ASSUME NEW g \in G, Operation(g) PROVE Idles(g) \/ \E c \in Chans : Call(g, c)
  <2> HIDE DEF Call, Idles
  <2> QED BY <1>1, <1>3, <1>4, <1>5, <1>6, SendChansAssumption DEF Operation
<1> HIDE DEF Call, Idles
<1> QED BY <1>6 DEF Next, Call, Idles

\* A list with a job for each member of another.
LEMMA JobsFor ==
  ASSUME NEW n \in Nat, NEW F \in [1..n -> Job]
  PROVE  /\ F \in Seq(Job)
         /\ \A x : x \in ToSet(F) <=> \E k \in 1..n : x = F[k]
<1>1. F \in Seq(Job) /\ Len(F) = n
  BY FunctionIsSeq
<1>2. DOMAIN F = 1..n
  OBVIOUS
<1> QED BY <1>1, <1>2 DEF ToSet

LEMMA WakesOf ==
  /\ \A a \in Seq(SenderTask) :
       /\ ClosedJobs(a) \in Seq(Job)
       /\ \A x : x \in ToSet(ClosedJobs(a)) <=> \E s \in ToSet(a) : x = ClosedJob(s)
  /\ \A r \in Seq(Task) :
       /\ ZeroJobs(r) \in Seq(Job)
       /\ \A x : x \in ToSet(ZeroJobs(r)) <=> \E t \in ToSet(r) : x = ZeroJob(t)
<1>1. ASSUME NEW a \in Seq(SenderTask)
      PROVE  /\ ClosedJobs(a) \in Seq(Job)
             /\ \A x : x \in ToSet(ClosedJobs(a)) <=> \E s \in ToSet(a) : x = ClosedJob(s)
  <2>1. PICK n \in Nat : n = Len(a)
    OBVIOUS
  <2>2. PICK F : F = ClosedJobs(a)
    OBVIOUS
  <2>3. \A k \in 1..n : F[k] = ClosedJob(a[k]) /\ a[k] \in SenderTask
    BY <2>1, <2>2 DEF ClosedJobs
  <2>4. \A s \in SenderTask : ClosedJob(s) \in Job
    BY DEF SenderTask, ClosedJob, Job, Value
  <2>5. F \in [1..n -> Job]
    <3>1. F = [k \in 1..n |-> F[k]]
      BY <2>1, <2>2 DEF ClosedJobs
    <3>2. \A k \in 1..n : F[k] \in Job
      BY <2>3, <2>4
    <3> QED BY <3>1, <3>2
  <2>6. F \in Seq(Job) /\ \A x : x \in ToSet(F) <=> \E k \in 1..n : x = F[k]
    BY <2>5, JobsFor
  <2>7. \A x : x \in ToSet(a) <=> \E k \in 1..n : a[k] = x
    BY <2>1, SetOfSeq
  <2> QED BY <2>2, <2>3, <2>6, <2>7
<1>2. ASSUME NEW r \in Seq(Task)
      PROVE  /\ ZeroJobs(r) \in Seq(Job)
             /\ \A x : x \in ToSet(ZeroJobs(r)) <=> \E t \in ToSet(r) : x = ZeroJob(t)
  <2>1. PICK n \in Nat : n = Len(r)
    OBVIOUS
  <2>2. PICK F : F = ZeroJobs(r)
    OBVIOUS
  <2>3. \A k \in 1..n : F[k] = ZeroJob(r[k]) /\ r[k] \in Task
    BY <2>1, <2>2 DEF ZeroJobs
  <2>4. \A t \in Task : ZeroJob(t) \in Job
    BY DEF ZeroJob, Job, Zero
  <2>5. F \in [1..n -> Job]
    <3>1. F = [k \in 1..n |-> F[k]]
      BY <2>1, <2>2 DEF ZeroJobs
    <3>2. \A k \in 1..n : F[k] \in Job
      BY <2>3, <2>4
    <3> QED BY <3>1, <3>2
  <2>6. F \in Seq(Job) /\ \A x : x \in ToSet(F) <=> \E k \in 1..n : x = F[k]
    BY <2>5, JobsFor
  <2>7. \A x : x \in ToSet(r) <=> \E k \in 1..n : r[k] = x
    BY <2>1, SetOfSeq
  <2> QED BY <2>2, <2>3, <2>6, <2>7
<1> QED BY <1>1, <1>2

\* What each call makes of the tasks in the waiting lists of a channel.
LEMMA QueuedSteps ==
  ASSUME NEW ch \in ChannelState
  PROVE  /\ HasReceiver(ch) => Queued(ch) = Queued(ShiftReceiver(ch)) \cup {NextReceiver(ch)}
         /\ ch.senders # <<>> =>
              /\ Queued(ch) = Queued(ShiftSender(ch)) \cup {Head(ch.senders).t}
              /\ Queued(ch) = Queued(ShiftBuffer(ch)) \cup {Head(ch.senders).t}
         /\ ch.senders = <<>> => Queued(ShiftBuffer(ch)) = Queued(ch)
         /\ \A s \in SenderTask :
              Queued([ch EXCEPT !.senders = Append(ch.senders, s)]) = Queued(ch) \cup {s.t}
         /\ \A t \in Task :
              /\ Queued([ch EXCEPT !.receivers = Append(ch.receivers, t)]) = Queued(ch) \cup {t}
              /\ Queued([ch EXCEPT !.receiversWithOk = Append(ch.receiversWithOk, t)])
                   = Queued(ch) \cup {t}
         /\ \A b : Queued([ch EXCEPT !.buffer = b]) = Queued(ch)
         /\ Queued(CloseChannel(ch)) = {}
         /\ \A t \in Queued(ch) : \E j \in ToSet(CloseWakes(ch)) : j.to = t /\ j.from = t
         /\ \A j \in ToSet(CloseWakes(ch)) : j.to = j.from /\ j.to \in Queued(ch)
<1>0. /\ ch.buffer \in Seq(Value) /\ ch.senders \in Seq(SenderTask)
      /\ ch.receivers \in Seq(Task) /\ ch.receiversWithOk \in Seq(Task)
  BY ChannelFields
<1>d. ch = [buffer |-> ch.buffer, closed |-> ch.closed, senders |-> ch.senders,
            receivers |-> ch.receivers, receiversWithOk |-> ch.receiversWithOk]
  BY DEF ChannelState
<1>a. PICK a, b, r, w : a = ch.senders /\ b = ch.buffer /\ r = ch.receivers
                          /\ w = ch.receiversWithOk
  OBVIOUS
<1>b. /\ a \in Seq(SenderTask) /\ r \in Seq(Task) /\ w \in Seq(Task)
      /\ Queued(ch) = {s.t : s \in ToSet(a)} \cup ToSet(r) \cup ToSet(w)
  BY <1>0, <1>a DEF Queued
<1>t. /\ a # <<>> => ToSet(a) = ToSet(Tail(a)) \cup {Head(a)}
      /\ r # <<>> => ToSet(r) = ToSet(Tail(r)) \cup {Head(r)}
      /\ w # <<>> => ToSet(w) = ToSet(Tail(w)) \cup {Head(w)}
  BY <1>b, SetOfSeq
<1>1. ASSUME HasReceiver(ch)
      PROVE  Queued(ch) = Queued(ShiftReceiver(ch)) \cup {NextReceiver(ch)}
  <2>1. CASE r # <<>>
    <3>1. /\ Queued(ShiftReceiver(ch)) = {s.t : s \in ToSet(a)} \cup ToSet(Tail(r)) \cup ToSet(w)
          /\ NextReceiver(ch) = Head(r)
      BY <1>a, <1>d, <2>1 DEF ShiftReceiver, NextReceiver, Queued
    <3> QED BY <1>b, <1>t, <2>1, <3>1
  <2>2. CASE r = <<>>
    <3>1. /\ Queued(ShiftReceiver(ch)) = {s.t : s \in ToSet(a)} \cup ToSet(r) \cup ToSet(Tail(w))
          /\ NextReceiver(ch) = Head(w) /\ w # <<>>
      BY <1>1, <1>a, <1>d, <2>2 DEF ShiftReceiver, NextReceiver, Queued, HasReceiver
    <3> QED BY <1>b, <1>t, <3>1
  <2> QED BY <2>1, <2>2
<1>2. ASSUME ch.senders # <<>>
      PROVE  /\ Queued(ch) = Queued(ShiftSender(ch)) \cup {Head(ch.senders).t}
             /\ Queued(ch) = Queued(ShiftBuffer(ch)) \cup {Head(ch.senders).t}
  <2>1. /\ Queued(ShiftSender(ch)) = {s.t : s \in ToSet(Tail(a))} \cup ToSet(r) \cup ToSet(w)
        /\ Queued(ShiftBuffer(ch)) = {s.t : s \in ToSet(Tail(a))} \cup ToSet(r) \cup ToSet(w)
    BY <1>2, <1>a, <1>d DEF ShiftSender, ShiftBuffer, Queued
  <2>2. {s.t : s \in ToSet(a)} = {s.t : s \in ToSet(Tail(a))} \cup {Head(a).t}
    BY <1>2, <1>a, <1>t
  <2> QED BY <1>a, <1>b, <2>1, <2>2
<1>3. ch.senders = <<>> => Queued(ShiftBuffer(ch)) = Queued(ch)
  BY <1>d DEF ShiftBuffer, Queued
<1>4. ASSUME NEW s \in SenderTask
      PROVE  Queued([ch EXCEPT !.senders = Append(ch.senders, s)]) = Queued(ch) \cup {s.t}
  <2>1. ToSet(Append(a, s)) = ToSet(a) \cup {s}
    BY <1>b, SetOfSeq
  <2>2. Queued([ch EXCEPT !.senders = Append(ch.senders, s)])
          = {x.t : x \in ToSet(Append(a, s))} \cup ToSet(r) \cup ToSet(w)
    BY <1>a, <1>d DEF Queued
  <2>3. {x.t : x \in ToSet(a) \cup {s}} = {x.t : x \in ToSet(a)} \cup {s.t}
    OBVIOUS
  <2> QED BY <1>b, <2>1, <2>2, <2>3
<1>5. ASSUME NEW t \in Task
      PROVE  /\ Queued([ch EXCEPT !.receivers = Append(ch.receivers, t)]) = Queued(ch) \cup {t}
             /\ Queued([ch EXCEPT !.receiversWithOk = Append(ch.receiversWithOk, t)])
                  = Queued(ch) \cup {t}
  <2>1. ToSet(Append(r, t)) = ToSet(r) \cup {t} /\ ToSet(Append(w, t)) = ToSet(w) \cup {t}
    BY <1>b, SetOfSeq
  <2>2. /\ Queued([ch EXCEPT !.receivers = Append(ch.receivers, t)])
             = {x.t : x \in ToSet(a)} \cup ToSet(Append(r, t)) \cup ToSet(w)
        /\ Queued([ch EXCEPT !.receiversWithOk = Append(ch.receiversWithOk, t)])
             = {x.t : x \in ToSet(a)} \cup ToSet(r) \cup ToSet(Append(w, t))
    BY <1>a, <1>d DEF Queued
  <2> QED BY <1>b, <2>1, <2>2
<1>6. \A x : Queued([ch EXCEPT !.buffer = x]) = Queued(ch)
  BY <1>d DEF Queued
<1>7. Queued(CloseChannel(ch)) = {}
  BY <1>d DEF CloseChannel, Queued, ToSet
<1>8. /\ \A t \in Queued(ch) : \E j \in ToSet(CloseWakes(ch)) : j.to = t /\ j.from = t
      /\ \A j \in ToSet(CloseWakes(ch)) : j.to = j.from /\ j.to \in Queued(ch)
  <2>1. PICK A, R, W : A = ClosedJobs(a) /\ R = ZeroJobs(r) /\ W = ZeroJobs(w)
    OBVIOUS
  <2>2. A \in Seq(Job) /\ R \in Seq(Job) /\ W \in Seq(Job)
    BY <1>b, <2>1, WakesOf
  <2>3. CloseWakes(ch) = A \o R \o W
    BY <1>a, <2>1 DEF CloseWakes, ClosedJobs, ZeroJobs
  <2>4. ToSet(CloseWakes(ch)) = ToSet(A) \cup ToSet(R) \cup ToSet(W)
    <3>1. ToSet(A \o R) = ToSet(A) \cup ToSet(R) /\ A \o R \in Seq(Job)
      BY <2>2, SetOfConcat
    <3>2. PICK AR \in Seq(Job) : AR = A \o R
      BY <3>1
    <3>3. ToSet(AR \o W) = ToSet(AR) \cup ToSet(W)
      BY <2>2, SetOfConcat
    <3> QED BY <2>3, <3>1, <3>2, <3>3
  <2>5. /\ \A x : x \in ToSet(A) <=> \E s \in ToSet(a) : x = ClosedJob(s)
        /\ \A x : x \in ToSet(R) <=> \E t \in ToSet(r) : x = ZeroJob(t)
        /\ \A x : x \in ToSet(W) <=> \E t \in ToSet(w) : x = ZeroJob(t)
    BY <1>b, <2>1, WakesOf
  <2>7. /\ \A s : ClosedJob(s).to = s.t /\ ClosedJob(s).from = s.t
        /\ \A t : ZeroJob(t).to = t /\ ZeroJob(t).from = t
    BY DEF ClosedJob, ZeroJob
  <2>8. ASSUME NEW t \in Queued(ch)
        PROVE  \E j \in ToSet(CloseWakes(ch)) : j.to = t /\ j.from = t
    <3>1. CASE t \in {s.t : s \in ToSet(a)}
      BY <2>4, <2>5, <2>7, <3>1
    <3>2. CASE t \in ToSet(r)
      BY <2>4, <2>5, <2>7, <3>2
    <3>3. CASE t \in ToSet(w)
      BY <2>4, <2>5, <2>7, <3>3
    <3> QED BY <1>b, <3>1, <3>2, <3>3
  <2>9. ASSUME NEW j \in ToSet(CloseWakes(ch))
        PROVE  j.to = j.from /\ j.to \in Queued(ch)
    <3>1. CASE j \in ToSet(A)
      BY <1>b, <2>5, <2>7, <3>1
    <3>2. CASE j \in ToSet(R)
      BY <1>b, <2>5, <2>7, <3>2
    <3>3. CASE j \in ToSet(W)
      BY <1>b, <2>5, <2>7, <3>3
    <3> QED BY <2>4, <3>1, <3>2, <3>3
  <2> QED BY <2>8, <2>9
<1> QED BY <1>1, <1>2, <1>3, <1>4, <1>5, <1>6, <1>7, <1>8

-----------------------------------------------------------------------------
(* A blocked select is not forgotten.                                      *)

\* The cases of the select of g that it has registered.
Registered(g) == {i \in LiveCases(stmt[g]) :
                    registering # <<>> /\ registering[1].g = g => i < registering[1].i}

Served(g) ==
  \/ done[g] # {}
  \/ \E j \in ToSet(micro) \cup ToSet(timers) : OfSelect(j.to, g) \/ OfSelect(j.from, g)

NotForgotten(g) ==
  pc[g] = "selecting" =>
    \/ Served(g)
    \/ \A i \in Registered(g) : InQueue(CaseTask(g, stmt[g].cases[i].c, i))

\* Acknowledgements and the wakeups of close() have one addressee.
OneAddressee ==
  /\ \A j \in ToSet(micro) : j.kind = "sent" => j.to = j.from
  /\ \A j \in ToSet(timers) : j.to = j.from

NoneForgotten == OneAddressee /\ \A g \in G : NotForgotten(g)

\* What waited is still waiting or is the business of a job.
QueuesFollowed == \A d \in Chans : \A t \in Queued(chan[d]) : t \in Queued(chan'[d]) \/ InJobs(t)'


Follows == QueuesFollowed /\ OneAddressee' /\ \A u : InJobs(u) => InJobs(u)'

\* Nothing, or one entry, joins a queue.
LEMMA ShortSeqs ==
  ASSUME NEW R, NEW s \in Seq(R)
  PROVE  /\ \E n \in Seq(R) : n = <<>> /\ s \o n = s /\ ToSet(n) = {}
         /\ \A x \in R : \E m \in Seq(R) : /\ m = <<x>> /\ s \o m = Append(s, x)
                                           /\ ToSet(m) = {x}
<1>1. <<>> \in Seq(R) /\ s \o <<>> = s /\ ToSet(<<>>) = {}
  BY DEF ToSet
<1>2. ASSUME NEW x \in R
      PROVE  <<x>> \in Seq(R) /\ s \o <<x>> = Append(s, x) /\ ToSet(<<x>>) = {x}
  <2>1. <<x>> \in Seq(R) /\ s \o <<x>> = Append(s, x)
    OBVIOUS
  <2>2. ToSet(<<x>>) = {x}
    BY DEF ToSet
  <2> QED BY <2>1, <2>2
<1> QED BY <1>1, <1>2, Zenon

\* Jobs that join the queues.
LEMMA JobsJoin ==
  ASSUME TypeOK, OneAddressee, NEW m \in Seq(Job), NEW n \in Seq(Job),
         micro' = micro \o m, timers' = timers \o n
  PROVE  /\ \A u : InJobs(u) => InJobs(u)'
         /\ \A j \in ToSet(m) \cup ToSet(n) : InJobs(j.to)' /\ InJobs(j.from)'
         /\ (\A j \in ToSet(m) : j.kind = "sent" => j.to = j.from)
              /\ (\A j \in ToSet(n) : j.to = j.from) => OneAddressee'
<1>1. micro \in Seq(Job) /\ timers \in Seq(Job)
  BY DEF TypeOK
<1>2. ToSet(micro') = ToSet(micro) \cup ToSet(m) /\ ToSet(timers') = ToSet(timers) \cup ToSet(n)
  BY <1>1, SetOfConcat
<1> QED BY <1>2 DEF InJobs, OneAddressee

LEMMA JobsStay ==
  ASSUME OneAddressee, micro' = micro, timers' = timers
  PROVE  OneAddressee' /\ \A u : InJobs(u) => InJobs(u)'
BY DEF InJobs, OneAddressee

LEMMA OneQueue ==
  ASSUME TypeOK, NEW c \in Chans, NEW x, chan' = [chan EXCEPT ![c] = x],
         \A u \in Queued(chan[c]) : u \in Queued(x) \/ InJobs(u)'
  PROVE  QueuesFollowed /\ chan'[c] = x
<1>1. chan'[c] = x /\ \A d \in Chans : d # c => chan'[d] = chan[d]
  BY DEF TypeOK
<1> QED BY <1>1 DEF QueuesFollowed

\* A call on one channel serves those it takes out of a waiting list.
LEMMA PassFollows ==
  ASSUME TypeOK, OneAddressee, NEW c \in Chans, NEW t \in Task, CasePasses(t, c),
         timers' = timers
  PROVE  Follows /\ InJobs(t)'
<1>0. /\ chan[c] \in ChannelState /\ micro \in Seq(Job) /\ timers \in Seq(Job)
      /\ NextValue \in Nat
  BY HistoryType DEF TypeOK, Value
<1>1. PICK j \in Job : j = HandoffJob(NextReceiver(chan[c]), NextValue, t)
  <2>1. NextReceiver(chan[c]) \in Task
    BY <1>0, ChannelSteps DEF CasePasses
  <2> QED BY <1>0, <2>1, JobTypes
<1>2. /\ micro' = Append(micro, j) /\ HasReceiver(chan[c])
      /\ chan' = [chan EXCEPT ![c] = ShiftReceiver(chan[c])]
  BY <1>1 DEF CasePasses
<1>3. PICK m \in Seq(Job) : m = <<j>> /\ micro \o m = Append(micro, j) /\ ToSet(m) = {j}
  BY <1>0, ShortSeqs
<1>n. PICK n \in Seq(Job) : timers \o n = timers /\ ToSet(n) = {}
  BY <1>0, ShortSeqs
<1>4. micro' = micro \o m /\ ToSet(m) = {j} /\ timers' = timers \o n /\ ToSet(n) = {}
  BY <1>2, <1>3, <1>n
<1>5. j.to = NextReceiver(chan[c]) /\ j.from = t /\ j.kind # "sent"
  BY <1>1 DEF HandoffJob
<1>6. /\ \A u : InJobs(u) => InJobs(u)'
      /\ InJobs(j.to)' /\ InJobs(j.from)' /\ OneAddressee'
  BY <1>4, <1>5, JobsJoin
<1>7. Queued(chan[c]) = Queued(ShiftReceiver(chan[c])) \cup {NextReceiver(chan[c])}
  BY <1>0, <1>2, QueuedSteps
<1>8. QueuesFollowed
  BY <1>2, <1>5, <1>6, <1>7, OneQueue
<1> QED BY <1>5, <1>6, <1>8 DEF Follows

LEMMA JoinFollows ==
  ASSUME TypeOK, OneAddressee, NEW c \in Chans, NEW t \in Task, timers' = timers,
         CaseOffers(t, c) \/ CaseWaits(t, c) \/ PlainWaits(t, c)
  PROVE  Follows /\ t \in Queued(chan'[c])
<1>0. chan[c] \in ChannelState /\ NextValue \in Value /\ micro' = micro
  BY HistoryType DEF TypeOK, CaseOffers, CaseWaits, PlainWaits
<1>1. PICK s : s = [t |-> t, v |-> NextValue]
  OBVIOUS
<1>2. s \in SenderTask /\ s.t = t
  BY <1>0, <1>1 DEF SenderTask
<1>3. PICK x, y, z : /\ x = [chan[c] EXCEPT !.senders = Append(chan[c].senders, s)]
                     /\ y = [chan[c] EXCEPT !.receiversWithOk = Append(chan[c].receiversWithOk, t)]
                     /\ z = [chan[c] EXCEPT !.receivers = Append(chan[c].receivers, t)]
  OBVIOUS
<1>4. /\ Queued(x) = Queued(chan[c]) \cup {t} /\ Queued(y) = Queued(chan[c]) \cup {t}
      /\ Queued(z) = Queued(chan[c]) \cup {t}
  <2>1. Queued([chan[c] EXCEPT !.senders = Append(chan[c].senders, s)])
          = Queued(chan[c]) \cup {s.t}
    BY <1>0, <1>2, QueuedSteps
  <2>p. PICK ch \in ChannelState : ch = chan[c]
    BY <1>0
  <2>q. \A u \in Task :
          /\ Queued([ch EXCEPT !.receivers = Append(ch.receivers, u)]) = Queued(ch) \cup {u}
          /\ Queued([ch EXCEPT !.receiversWithOk = Append(ch.receiversWithOk, u)])
               = Queued(ch) \cup {u}
    BY QueuedSteps, Zenon
  <2>2. /\ Queued([chan[c] EXCEPT !.receivers = Append(chan[c].receivers, t)])
             = Queued(chan[c]) \cup {t}
        /\ Queued([chan[c] EXCEPT !.receiversWithOk = Append(chan[c].receiversWithOk, t)])
             = Queued(chan[c]) \cup {t}
    BY <2>p, <2>q, Zenon
  <2> QED BY <1>2, <1>3, <2>1, <2>2
<1>5. \/ chan' = [chan EXCEPT ![c] = x] \/ chan' = [chan EXCEPT ![c] = y]
      \/ chan' = [chan EXCEPT ![c] = z]
  BY <1>1, <1>3 DEF CaseOffers, CaseWaits, PlainWaits
<1>6. QueuesFollowed /\ t \in Queued(chan'[c])
  BY <1>4, <1>5, OneQueue
<1> QED BY <1>0, <1>6, JobsStay DEF Follows

LEMMA TakeFollows ==
  ASSUME TypeOK, OneAddressee, NEW c \in Chans, timers' = timers,
         CaseTakesBuffered(c) \/ CaseTakesOffered(c)
  PROVE  Follows
<1>0. /\ chan[c] \in ChannelState /\ micro \in Seq(Job) /\ timers \in Seq(Job)
  BY DEF TypeOK
<1>1. PICK x : \/ x = ShiftBuffer(chan[c]) /\ CaseTakesBuffered(c)
               \/ x = ShiftSender(chan[c]) /\ CaseTakesOffered(c)
  OBVIOUS
<1>2. /\ chan' = [chan EXCEPT ![c] = x] /\ micro' = micro \o UnblockSender(chan[c])
  BY <1>1 DEF CaseTakesBuffered, CaseTakesOffered
<1>3. CASE chan[c].senders = <<>>
  <2>1. UnblockSender(chan[c]) = <<>> /\ ~CaseTakesOffered(c)
    BY <1>3 DEF UnblockSender, CaseTakesOffered
  <2>2. micro' = micro /\ Queued(x) = Queued(chan[c])
    BY <1>0, <1>1, <1>2, <1>3, <2>1, QueuedSteps
  <2> QED BY <1>2, <2>2, JobsStay, OneQueue DEF Follows
<1>4. CASE chan[c].senders # <<>>
  <2>1. PICK s \in SenderTask : s = Head(chan[c].senders)
    BY <1>0, <1>4, ChannelSteps
  <2>2. PICK j \in Job : j = SentJob(s.t, s.v)
    <3>1. s.t \in Task /\ s.v \in Nat
      BY DEF SenderTask, Value
    <3> QED BY <3>1, JobTypes
  <2>3. PICK m \in Seq(Job) : m = <<j>> /\ ToSet(m) = {j}
    BY <1>0, ShortSeqs
  <2>n. PICK n \in Seq(Job) : timers \o n = timers /\ ToSet(n) = {}
    BY <1>0, ShortSeqs
  <2>4. micro' = micro \o m /\ timers' = timers \o n
    BY <1>2, <1>4, <2>1, <2>2, <2>3, <2>n DEF UnblockSender
  <2>5. j.to = s.t /\ j.from = s.t
    BY <2>2 DEF SentJob
  <2>6. InJobs(s.t)' /\ OneAddressee' /\ \A u : InJobs(u) => InJobs(u)'
    BY <2>3, <2>n, <2>4, <2>5, JobsJoin
  <2>7. Queued(chan[c]) = Queued(x) \cup {s.t}
    BY <1>0, <1>1, <1>4, <2>1, QueuedSteps
  <2> QED BY <1>2, <2>6, <2>7, OneQueue DEF Follows
<1> QED BY <1>3, <1>4

LEMMA CallFollows ==
  ASSUME TypeOK, OneAddressee, NEW c \in Chans, NEW t \in Task, Called(t, c)
  PROVE  Follows
<1>0. /\ chan[c] \in ChannelState /\ micro \in Seq(Job) /\ timers \in Seq(Job)
  BY DEF TypeOK
<1>1. ASSUME chan' = chan, micro' = micro, timers' = timers PROVE Follows
  <2>1. QueuesFollowed
    BY <1>1 DEF QueuesFollowed
  <2> QED BY <1>1, <2>1, JobsStay DEF Follows
<1>2. CASE CaseBuffers(c) /\ timers' = timers
  <2>1. PICK x : x = [chan[c] EXCEPT !.buffer = Append(chan[c].buffer, NextValue)]
    OBVIOUS
  <2>2. chan' = [chan EXCEPT ![c] = x] /\ micro' = micro
    BY <1>2, <2>1 DEF CaseBuffers
  <2>p. PICK ch \in ChannelState : ch = chan[c]
    BY <1>0
  <2>q. \A b : Queued([ch EXCEPT !.buffer = b]) = Queued(ch)
    BY QueuedSteps
  <2>3. Queued(x) = Queued(chan[c])
    BY <2>1, <2>p, <2>q, Zenon
  <2> QED BY <1>2, <2>2, <2>3, JobsStay, OneQueue DEF Follows
<1>3. CASE Closes(c)
  <2>1. PICK n : n = CloseWakes(chan[c])
    OBVIOUS
  <2>2. /\ n \in Seq(Job)
        /\ \A u \in Queued(chan[c]) : \E j \in ToSet(n) : j.to = u
        /\ \A j \in ToSet(n) : j.to = j.from
    BY <1>0, <2>1, CloseWakesType, QueuedSteps
  <2>3. PICK m \in Seq(Job) : micro \o m = micro /\ ToSet(m) = {}
    BY <1>0, ShortSeqs
  <2>4. timers' = timers \o n /\ micro' = micro \o m
    BY <1>3, <2>1, <2>3 DEF Closes
  <2>5. /\ \A u : InJobs(u) => InJobs(u)'
        /\ \A j \in ToSet(n) : InJobs(j.to)'
        /\ OneAddressee'
    BY <2>2, <2>3, <2>4, JobsJoin
  <2>6. \A u \in Queued(chan[c]) : InJobs(u)'
    BY <2>2, <2>5
  <2>7. chan' = [chan EXCEPT ![c] = CloseChannel(chan[c])]
    BY <1>3 DEF Closes
  <2> QED BY <2>5, <2>6, <2>7, OneQueue DEF Follows
<1>4. CASE CaseSends(t, c) /\ timers' = timers
  BY <1>1, <1>2, <1>4, PassFollows, JoinFollows DEF CaseSends, CaseRefused
<1>5. CASE CaseReceives(t, c) /\ timers' = timers
  BY <1>1, <1>5, TakeFollows, JoinFollows DEF CaseReceives, CaseTakes, CaseFindsClosed
<1> QED BY <1>3, <1>4, <1>5, JoinFollows DEF Called

\* Who is in a select stays in it, and the state of others is not lost.
LEMMA RunFollows ==
  ASSUME TypeOK, OneAddressee, RunMicrotask
  PROVE  /\ OneAddressee'
         /\ UNCHANGED <<chan, pc, op, timers>>
         /\ \A g \in G : pc[g] = "selecting" /\ Served(g) => Served(g)'
<1>0. /\ micro \in Seq(Job) /\ micro # <<>> /\ done \in [G -> SUBSET Outcome]
      /\ pc \in [G -> {"ready", "waiting", "selecting", "forever"}]
  BY DEF TypeOK, RunMicrotask, RunHandoff, RunSent
<1>1. PICK j \in Job : j = Head(micro)
  BY <1>0
<1>2. ToSet(micro) = ToSet(Tail(micro)) \cup {j} /\ Tail(micro) \in Seq(Job)
  BY <1>0, <1>1, SetOfSeq
<1>3. UNCHANGED <<chan, pc, op, timers>>
  BY DEF RunMicrotask, RunHandoff, RunSent
<1>4. PICK kind : Settle(j.to, kind, j.v)
  BY <1>1 DEF RunMicrotask, RunHandoff, RunSent
<1>5. /\ \A g \in G : done[g] # {} => done'[g] # {}
      /\ Live(j.to) => done'[j.to.g] # {}
  <2>1. j.to.g \in G
    BY DEF Job, Task
  <2> QED BY <1>0, <1>4, <2>1 DEF Settle
<1>6. ASSUME NEW g \in G, pc[g] = "selecting", OfSelect(j.to, g) PROVE done'[g] # {}
  BY <1>5, <1>6 DEF OfSelect, Live
<1>7. CASE RunHandoff
  <2>1. PICK k \in Job : k = SentJob(j.from, j.v)
    BY JobTypes DEF Job
  <2>2. micro' = Append(Tail(micro), k) /\ k.to = j.from /\ k.from = j.from
    BY <1>1, <1>7, <2>1 DEF RunHandoff, SentJob
  <2>3. ToSet(micro') = ToSet(Tail(micro)) \cup {k}
    <3>1. PICK q \in Seq(Job) : q = Tail(micro)
      BY <1>2
    <3>2. ToSet(Append(q, k)) = ToSet(q) \cup {k}
      BY SetOfSeq
    <3> QED BY <2>2, <3>1, <3>2
  <2>4. OneAddressee'
    BY <1>2, <1>3, <2>2, <2>3 DEF OneAddressee
  <2>5. ASSUME NEW g \in G, pc[g] = "selecting", Served(g) PROVE Served(g)'
    <3>1. CASE done[g] # {}
      BY <1>5, <3>1 DEF Served
    <3>2. ASSUME NEW i \in ToSet(micro) \cup ToSet(timers), OfSelect(i.to, g) \/ OfSelect(i.from, g)
          PROVE  Served(g)'
      <4>1. CASE i # j
        BY <1>2, <1>3, <2>3, <3>2, <4>1 DEF Served, OfSelect
      <4>2. CASE i = j /\ OfSelect(j.to, g)
        BY <1>6, <2>5, <4>2 DEF Served
      <4>3. CASE i = j /\ OfSelect(j.from, g)
        BY <1>3, <2>2, <2>3, <4>3 DEF Served, OfSelect
      <4> QED BY <3>2, <4>1, <4>2, <4>3
    <3> QED BY <2>5, <3>1, <3>2 DEF Served
  <2> QED BY <1>3, <2>4, <2>5
<1>8. CASE RunSent
  <2>1. micro' = Tail(micro) /\ j.to = j.from
    BY <1>1, <1>2, <1>8 DEF RunSent, OneAddressee
  <2>2. OneAddressee'
    BY <1>2, <1>3, <2>1 DEF OneAddressee
  <2>3. ASSUME NEW g \in G, pc[g] = "selecting", Served(g) PROVE Served(g)'
    <3>1. CASE done[g] # {}
      BY <1>5, <3>1 DEF Served
    <3>2. ASSUME NEW i \in ToSet(micro) \cup ToSet(timers), OfSelect(i.to, g) \/ OfSelect(i.from, g)
          PROVE  Served(g)'
      <4>1. CASE i # j
        BY <1>2, <1>3, <2>1, <3>2, <4>1 DEF Served, OfSelect
      <4>2. CASE i = j
        BY <1>6, <2>1, <2>3, <3>2, <4>2 DEF Served
      <4> QED BY <4>1, <4>2
    <3> QED BY <2>3, <3>1, <3>2 DEF Served
  <2> QED BY <1>3, <2>2, <2>3
<1> QED BY <1>7, <1>8 DEF RunMicrotask

\* A select that goes on keeps what it has, unless its turn has come.
LEMMA RememberedStays ==
  ASSUME SelectTypes, NEW g \in G, NotForgotten(g), pc[g] = "selecting",
         op'[g] = op[g], stmt'[g] = stmt[g], Registered(g)' \subseteq Registered(g),
         Served(g) => Served(g)',
         \A c \in Chans, i \in Nat :
           InQueue(CaseTask(g, c, i)) => InQueue(CaseTask(g, c, i))' \/ Served(g)'
  PROVE  NotForgotten(g)'
<1>1. CASE Served(g)
  BY <1>1 DEF NotForgotten
<1>2. CASE \A i \in Registered(g) : InQueue(CaseTask(g, stmt[g].cases[i].c, i))
  <2>1. ASSUME NEW i \in Registered(g)'
        PROVE  InQueue(CaseTask(g, stmt[g].cases[i].c, i))' \/ Served(g)'
    <3>1. i \in Registered(g) /\ i \in DOMAIN stmt[g].cases /\ stmt[g].cases[i].c # Nil
      BY <2>1 DEF Registered, LiveCases
    <3>2. i \in Nat /\ stmt[g].cases[i] \in Case
      BY <3>1, StatementType DEF SelectTypes
    <3>3. PICK c \in Chans : c = stmt[g].cases[i].c
      BY <3>1, <3>2 DEF Case
    <3>4. InQueue(CaseTask(g, c, i))
      BY <1>2, <3>1, <3>3
    <3>5. InQueue(CaseTask(g, c, i))' \/ Served(g)'
      BY <3>2, <3>4
    <3>6. stmt'[g].cases[i].c = c
      BY <3>3
    <3> QED BY <3>5, <3>6
  <2> QED BY <2>1 DEF NotForgotten
<1> QED BY <1>1, <1>2 DEF NotForgotten

\* What follows the tasks follows the select.
LEMMA FollowedStays ==
  ASSUME Follows, NEW g \in G, op'[g] = op[g], done[g] # {} => done'[g] # {}
  PROVE  /\ Served(g) => Served(g)'
         /\ \A c \in Chans, i \in Nat :
              InQueue(CaseTask(g, c, i)) => InQueue(CaseTask(g, c, i))' \/ Served(g)'
<1>1. \A u : OfSelect(u, g)' <=> OfSelect(u, g)
  BY DEF OfSelect
<1>2. ASSUME NEW u, InJobs(u)', OfSelect(u, g) PROVE Served(g)'
  BY <1>1, <1>2 DEF InJobs, Served
<1>3. ASSUME Served(g) PROVE Served(g)'
  <2>1. CASE done[g] # {}
    BY <2>1 DEF Served
  <2>2. ASSUME NEW u, InJobs(u), OfSelect(u, g) PROVE Served(g)'
    BY <1>2, <2>2 DEF Follows
  <2>3. done[g] # {} \/ \E u : InJobs(u) /\ OfSelect(u, g)
    BY <1>3 DEF Served, InJobs
  <2> QED BY <2>1, <2>2, <2>3
<1>4. ASSUME NEW c \in Chans, NEW i \in Nat, InQueue(CaseTask(g, c, i))
      PROVE  InQueue(CaseTask(g, c, i))' \/ Served(g)'
  <2>1. PICK t : t = CaseTask(g, c, i)
    OBVIOUS
  <2>2. /\ t.c = c /\ OfSelect(t, g) /\ t = CaseTask(g, c, i)'
        /\ t \in Queued(chan[c])
    BY <1>4, <2>1 DEF CaseTask, OfSelect, InQueue
  <2>3. t \in Queued(chan'[c]) \/ InJobs(t)'
    BY <2>2 DEF Follows, QueuesFollowed
  <2> QED BY <1>2, <2>2, <2>3 DEF InQueue
<1> QED BY <1>3, <1>4

\* A timer that concerns somebody else.
LEMMA TimerStays ==
  ASSUME TypeOK, OneAddressee, timers # <<>>, timers' = Tail(timers), micro' = micro
  PROVE  /\ OneAddressee'
         /\ \A g \in G :
              op'[g] = op[g] /\ (done[g] # {} => done'[g] # {}) /\ ~OfSelect(Head(timers).to, g)
                => (Served(g) => Served(g)')
<1>1. PICK j \in Job : j = Head(timers)
  BY DEF TypeOK
<1>2. ToSet(timers) = ToSet(timers') \cup {j}
  BY <1>1, SetOfSeq DEF TypeOK
<1>3. OneAddressee' /\ j.to = j.from
  BY <1>2 DEF OneAddressee
<1>4. ASSUME NEW g \in G, op'[g] = op[g], done[g] # {} => done'[g] # {}, ~OfSelect(j.to, g),
             Served(g)
      PROVE  Served(g)'
  <2>1. \A u : OfSelect(u, g)' <=> OfSelect(u, g)
    BY <1>4 DEF OfSelect
  <2> QED BY <1>2, <1>3, <1>4, <2>1 DEF Served
<1> QED BY <1>1, <1>3, <1>4

\* A case that is registered joins a queue, or is served at once.
LEMMA CaseRegistered ==
  ASSUME TypeOK, OneAddressee, NEW c \in Chans, NEW t \in Task,
         SelectSend(t, c) \/ SelectReceive(t, c)
  PROVE  /\ Follows /\ timers' = timers
         /\ t \in Queued(chan'[c]) \/ InJobs(t)' \/ done'[t.g] # {}
         /\ \A h \in G : done[h] # {} => done'[h] # {}
<1>0. done \in [G -> SUBSET Outcome] /\ t.g \in G
  BY DEF TypeOK, Task
<1>1. timers' = timers /\ Called(t, c)
  BY CaseKinds DEF SelectSend, SelectReceive, Called
<1>2. Follows
  BY <1>1, CallFollows
<1>3. done' = done \/ \E kind, v : SettleNow(t.g, t, kind, v)
  BY DEF SelectSend, SelectReceive
<1>4. /\ \A h \in G : done[h] # {} => done'[h] # {}
      /\ (\E kind, v : SettleNow(t.g, t, kind, v)) => done'[t.g] # {}
  BY <1>0, <1>3 DEF SettleNow
<1>5. \/ \E kind, v : SettleNow(t.g, t, kind, v)
      \/ CasePasses(t, c) \/ CaseOffers(t, c) \/ CaseWaits(t, c)
  BY DEF SelectSend, SelectReceive, CasePasses, CaseOffers, CaseWaits
<1>6. t \in Queued(chan'[c]) \/ InJobs(t)' \/ done'[t.g] # {}
  BY <1>1, <1>4, <1>5, PassFollows, JoinFollows
<1> QED BY <1>1, <1>2, <1>4, <1>6

\* Only the cases of one select leave the queues when it is over.
LEMMA AbortStays ==
  ASSUME TypeOK, NEW h \in G, NEW g \in G, g # h, op'[g] = op[g],
         chan' = [c \in Chans |-> AbortCases(h, chan[c])] \/ chan' = chan
  PROVE  \A c \in Chans, i \in Nat : InQueue(CaseTask(g, c, i)) => InQueue(CaseTask(g, c, i))'
<1> SUFFICES ASSUME NEW c \in Chans, NEW i \in Nat, InQueue(CaseTask(g, c, i))
             PROVE  InQueue(CaseTask(g, c, i))'
  OBVIOUS
<1>1. PICK t : t = CaseTask(g, c, i)
  OBVIOUS
<1>2. t.c = c /\ t = CaseTask(g, c, i)' /\ ~OfSelect(t, h) /\ t \in Queued(chan[c])
  BY <1>1 DEF CaseTask, OfSelect, InQueue
<1>3. CASE chan' = chan
  BY <1>2, <1>3 DEF InQueue
<1>4. CASE chan' = [d \in Chans |-> AbortCases(h, chan[d])]
  <2>1. PICK x, ch : x = chan'[c] /\ ch = chan[c] /\ ch \in ChannelState
    BY DEF TypeOK
  <2>2. x = AbortCases(h, ch)
    BY <1>4, <2>1
  <2>3. /\ x.receivers = ch.receivers
        /\ \A s : s \in ToSet(x.senders) <=> s \in ToSet(ch.senders) /\ ~OfSelect(s.t, h)
        /\ \A u : u \in ToSet(x.receiversWithOk)
                    <=> u \in ToSet(ch.receiversWithOk) /\ ~OfSelect(u, h)
    <3> DEFINE Spared(y) ==
                 /\ y \in ChannelState
                 /\ y.buffer = ch.buffer /\ y.closed = ch.closed /\ y.receivers = ch.receivers
                 /\ \A s : s \in ToSet(y.senders)
                             <=> s \in ToSet(ch.senders) /\ ~OfSelect(s.t, h)
                 /\ \A u : u \in ToSet(y.receiversWithOk)
                             <=> u \in ToSet(ch.receiversWithOk) /\ ~OfSelect(u, h)
                 /\ Disciplined(c, ch) => Disciplined(c, y)
                 /\ Go!Subsequence(LineOf(y), LineOf(ch))
    <3>1. ch \in ChannelState
      BY <2>1
    <3>2. Spared(AbortCases(h, ch))
      BY <3>1, AbortOf, Zenon
    <3> QED BY <2>2, <3>2
  <2>4. t \in Queued(x)
    BY <1>2, <2>1, <2>3 DEF Queued
  <2> QED BY <1>2, <2>1, <2>4 DEF InQueue
<1> QED BY <1>3, <1>4

\* A goroutine that is not in the midst of registering its cases has them all.
LEMMA RegisteredStays ==
  ASSUME NEW g \in G, stmt'[g] = stmt[g]
  PROVE  /\ (registering = <<>> \/ registering[1].g # g) => Registered(g) = LiveCases(stmt[g])
         /\ Registered(g)' \subseteq LiveCases(stmt[g])
BY DEF Registered

\* A step outside the select statement forgets no select.
LEMMA NextRemembers ==
  ASSUME SelectTypes, QueueDiscipline, NoneForgotten, Idle, Next, UNCHANGED selectVars
  PROVE  NoneForgotten'
<1>0. /\ TypeOK /\ registering = <<>> /\ registering' = <<>> /\ stmt' = stmt /\ OneAddressee
      /\ done \in [G -> SUBSET Outcome] /\ timers \in Seq(Job)
  BY DEF SelectTypes, SelectTypeOK, TypeOK, Idle, selectVars, NoneForgotten
<1>1. ASSUME NEW g \in G, pc'[g] = "selecting",
             Served(g) => Served(g)',
             \A c \in Chans, i \in Nat :
               InQueue(CaseTask(g, c, i)) => InQueue(CaseTask(g, c, i))' \/ Served(g)'
      PROVE  NotForgotten(g)'
  <2>1. pc[g] = "selecting" /\ op'[g] = op[g]
    BY <1>0, <1>1, NextSelecting
  <2>2. stmt'[g] = stmt[g] /\ Registered(g)' \subseteq Registered(g)
    BY <1>0, RegisteredStays
  <2>3. NotForgotten(g)
    BY DEF NoneForgotten
  <2> QED BY <1>1, <2>1, <2>2, <2>3, RememberedStays
<1>2. ASSUME Follows, done' = done PROVE NoneForgotten'
  <2>1. ASSUME NEW g \in G, pc'[g] = "selecting" PROVE NotForgotten(g)'
    <3>1. op'[g] = op[g]
      BY <1>0, <2>1, NextSelecting
    <3> QED BY <1>1, <1>2, <2>1, <3>1, FollowedStays
  <2>2. \A g \in G : NotForgotten(g)'
    BY <2>1 DEF NotForgotten
  <2> QED BY <1>2, <2>2 DEF Follows, NoneForgotten
<1>3. ASSUME NEW g \in G, NEW c \in Chans, Begins(g), Called(TaskOf(g, c, 0), c), done' = done
      PROVE  NoneForgotten'
  <2>1. TaskOf(g, c, 0) \in Task
    BY <1>0, <1>3, StartType DEF Begins
  <2> QED BY <1>0, <1>2, <1>3, <2>1, CallFollows
<1>4. ASSUME UNCHANGED <<chan, micro, timers, done>> PROVE NoneForgotten'
  <2>1. QueuesFollowed
    BY <1>4 DEF QueuesFollowed
  <2> QED BY <1>0, <1>2, <1>4, <2>1, JobsStay DEF Follows
<1>5. ASSUME NEW h \in G, Resume(h) PROVE NoneForgotten'
  <2>1. UNCHANGED <<chan, micro, timers, op>> /\ done' = [done EXCEPT ![h] = {}]
    BY <1>5 DEF Resume
  <2>2. Follows
    <3>1. QueuesFollowed
      BY <2>1 DEF QueuesFollowed
    <3> QED BY <1>0, <2>1, <3>1, JobsStay DEF Follows
  <2>3. ASSUME NEW g \in G, pc'[g] = "selecting" PROVE NotForgotten(g)'
    <3>1. pc[g] = "selecting" /\ op'[g] = op[g]
      BY <1>0, <2>3, NextSelecting
    <3>2. g # h
      BY <1>5, <3>1 DEF Resume
    <3>3. done'[g] = done[g]
      BY <1>0, <2>1, <3>2
    <3> QED BY <1>1, <2>2, <2>3, <3>1, <3>3, FollowedStays
  <2>4. \A g \in G : NotForgotten(g)'
    BY <2>3 DEF NotForgotten
  <2> QED BY <2>2, <2>4 DEF Follows, NoneForgotten
<1>6. ASSUME RunMicrotask PROVE NoneForgotten'
  <2>1. /\ OneAddressee' /\ UNCHANGED <<chan, pc, op, timers>>
        /\ \A g \in G : pc[g] = "selecting" /\ Served(g) => Served(g)'
    BY <1>0, <1>6, RunFollows
  <2>2. ASSUME NEW g \in G, pc'[g] = "selecting" PROVE NotForgotten(g)'
    <3>1. pc[g] = "selecting"
      BY <2>1, <2>2
    <3>2. ASSUME NEW c \in Chans, NEW i \in Nat, InQueue(CaseTask(g, c, i))
          PROVE  InQueue(CaseTask(g, c, i))'
      BY <2>1, <3>2 DEF InQueue, CaseTask
    <3> QED BY <1>1, <2>1, <2>2, <3>1, <3>2
  <2>3. \A g \in G : NotForgotten(g)'
    BY <2>2 DEF NotForgotten
  <2> QED BY <2>1, <2>3 DEF NoneForgotten
<1>7. ASSUME RunTimer PROVE NoneForgotten'
  <2>1. /\ timers # <<>> /\ timers' = Tail(timers) /\ pc[Head(timers).to.g] = "waiting"
        /\ UNCHANGED <<chan, micro, op, done>>
    BY <1>7 DEF RunTimer, TimerTurn
  <2>2. OneAddressee'
    BY <1>0, <2>1, TimerStays
  <2>3. ASSUME NEW g \in G, pc'[g] = "selecting" PROVE NotForgotten(g)'
    <3>1. pc[g] = "selecting" /\ op'[g] = op[g] /\ done'[g] = done[g]
      BY <1>0, <2>1, <2>3, NextSelecting
    <3>2. ~OfSelect(Head(timers).to, g)
      BY <2>1, <3>1 DEF OfSelect
    <3>3. Served(g) => Served(g)'
      BY <1>0, <2>1, <3>1, <3>2, TimerStays
    <3>4. ASSUME NEW c \in Chans, NEW i \in Nat, InQueue(CaseTask(g, c, i))
          PROVE  InQueue(CaseTask(g, c, i))'
      BY <2>1, <3>4 DEF InQueue, CaseTask
    <3> QED BY <1>1, <2>3, <3>3, <3>4
  <2>4. \A g \in G : NotForgotten(g)'
    BY <2>3 DEF NotForgotten
  <2> QED BY <2>2, <2>4 DEF NoneForgotten
<1> QED BY <1>0, <1>3, <1>4, <1>5, <1>6, <1>7, NextKinds

\* The end of one select leaves the others waiting.
LEMMA EndRemembers ==
  ASSUME SelectTypes, NoneForgotten, Idle, NEW h \in G, NEW o \in Outcome, EndSelect(h, o),
         OneAddressee', \A g \in G : pc[g] = "selecting" /\ g # h => (Served(g) => Served(g)')
  PROVE  NoneForgotten'
<1>0. /\ TypeOK /\ registering = <<>> /\ registering' = <<>> /\ op' = op
      /\ stmt' = [stmt EXCEPT ![h] = NoStmt] /\ pc' = [pc EXCEPT ![h] = "ready"]
      /\ stmt \in [G -> Stmts \cup {NoStmt}]
      /\ pc \in [G -> {"ready", "waiting", "selecting", "forever"}]
  BY DEF SelectTypes, SelectTypeOK, TypeOK, Idle, EndSelect
<1>1. chan' = [c \in Chans |-> AbortCases(h, chan[c])] \/ chan' = chan
  BY EndKinds DEF CasesAborted, ChannelsStay
<1>2. ASSUME NEW g \in G, pc'[g] = "selecting" PROVE NotForgotten(g)'
  <2>1. g # h /\ pc[g] = "selecting" /\ stmt'[g] = stmt[g] /\ op'[g] = op[g]
    BY <1>0, <1>2
  <2>2. Registered(g)' \subseteq Registered(g)
    BY <1>0, <2>1, RegisteredStays
  <2>3. \A c \in Chans, i \in Nat : InQueue(CaseTask(g, c, i)) => InQueue(CaseTask(g, c, i))'
    BY <1>0, <1>1, <2>1, AbortStays
  <2> QED BY <2>1, <2>2, <2>3, RememberedStays DEF NoneForgotten
<1>3. \A g \in G : NotForgotten(g)'
  BY <1>2 DEF NotForgotten
<1> QED BY <1>3 DEF NoneForgotten

\* A goroutine that starts a select statement.
LEMMA StatementRemembers ==
  ASSUME SelectTypes, NoneForgotten, Idle, NEW h \in G, SelectStatement(h)
  PROVE  NoneForgotten'
<1>0. /\ TypeOK /\ registering = <<>> /\ OneAddressee
      /\ stmt \in [G -> Stmts \cup {NoStmt}] /\ op \in [G -> 0..MaxOps]
      /\ pc \in [G -> {"ready", "waiting", "selecting", "forever"}]
  BY DEF SelectTypes, SelectTypeOK, TypeOK, Idle, NoneForgotten
<1>1. PICK s \in Stmts : SelectReady(h, s) \/ SelectDefault(h, s)
                           \/ SelectForever(h, s) \/ SelectBlocks(h, s)
  BY DEF SelectStatement
<1>2. ASSUME NEW g \in G, g # h, pc[g] = "selecting", op'[g] = op[g], Follows, done'[g] = done[g],
             stmt'[g] = stmt[g], registering' = <<>> \/ registering'[1].g # g
      PROVE  NotForgotten(g)'
  <2>1. Registered(g)' \subseteq Registered(g)
    BY <1>0, <1>2, RegisteredStays
  <2>2. /\ Served(g) => Served(g)'
        /\ \A c \in Chans, i \in Nat :
             InQueue(CaseTask(g, c, i)) => InQueue(CaseTask(g, c, i))' \/ Served(g)'
    BY <1>2, FollowedStays
  <2> QED BY <1>2, <2>1, <2>2, RememberedStays DEF NoneForgotten
<1>3. CanStart(h) /\ \E st \in {"ready", "forever", "selecting"} : Start(h, st)
  BY <1>1 DEF SelectReady, SelectDefault, SelectForever, SelectBlocks
<1>4. ASSUME NEW g \in G, g # h, pc'[g] = "selecting" PROVE pc[g] = "selecting" /\ op'[g] = op[g]
  BY <1>0, <1>3, <1>4 DEF Start
<1>5. done' = done /\ Follows
  <2>1. CASE SelectReady(h, s)
    <3>1. PICK i \in ReadyCases(s) :
            IF s.cases[i].isSend THEN TrySelectSend(h, s.cases[i].c)
                                 ELSE TrySelectReceive(h, s.cases[i].c)
      BY <2>1 DEF SelectReady
    <3>2. PICK c : c = s.cases[i].c
      OBVIOUS
    <3>3. c \in Chans
      <4>1. i \in DOMAIN s.cases /\ c # Nil
        BY <3>2 DEF ReadyCases, CaseReady
      <4>2. s.cases \in Seq(Case)
        BY StmtsAssumption DEF Statement
      <4>3. s.cases[i] \in Case
        BY <4>1, <4>2
      <4> QED BY <3>2, <4>1, <4>3 DEF Case
    <3>4. PICK t \in Task : t = TaskOf(h, c, 0)
      BY <1>0, <1>3, <3>3, StartType
    <3>5. done' = done /\ timers' = timers
      BY <3>1 DEF TrySelectSend, TrySelectReceive
    <3>6. CaseSends(t, c) \/ CaseReceives(t, c)
      BY <1>0, <3>1, <3>2, <3>3, <3>4, ReadyKinds DEF CaseReceives
    <3>7. Called(t, c)
      BY <3>5, <3>6 DEF Called
    <3> QED BY <1>0, <3>3, <3>5, <3>7, CallFollows
  <2>2. CASE SelectDefault(h, s) \/ SelectForever(h, s) \/ SelectBlocks(h, s)
    <3>1. UNCHANGED <<chan, micro, timers, done>>
      BY <2>2 DEF SelectDefault, SelectForever, SelectBlocks
    <3>2. QueuesFollowed
      BY <3>1 DEF QueuesFollowed
    <3> QED BY <1>0, <3>1, <3>2, JobsStay DEF Follows
  <2> QED BY <1>1, <2>1, <2>2
<1>6. CASE SelectReady(h, s) \/ SelectDefault(h, s) \/ SelectForever(h, s)
  <2>1. stmt' = stmt /\ registering' = <<>> /\ pc'[h] # "selecting"
    BY <1>0, <1>6 DEF SelectReady, SelectDefault, SelectForever, selectVars, Start
  <2>2. \A g \in G : NotForgotten(g)'
    BY <1>2, <1>4, <1>5, <2>1 DEF NotForgotten
  <2> QED BY <1>5, <2>2 DEF NoneForgotten, Follows
<1>7. CASE SelectBlocks(h, s)
  <2>1. stmt' = [stmt EXCEPT ![h] = s] /\ registering' = <<[g |-> h, i |-> 1]>>
    BY <1>7 DEF SelectBlocks
  <2>2. \A g \in G : g # h => stmt'[g] = stmt[g] /\ registering'[1].g # g
    BY <1>0, <2>1
  <2>3. registering' # <<>> /\ registering'[1].g = h /\ registering'[1].i = 1
    BY <2>1
  <2>4. stmt'[h] = s /\ \A i \in DOMAIN s.cases : i \in Nat \ {0}
    <3>1. s.cases \in Seq(Case)
      BY StmtsAssumption DEF Statement
    <3> QED BY <1>0, <2>1, <3>1
  <2>5. Registered(h)' = {}
    BY <2>3, <2>4 DEF Registered, LiveCases
  <2>6. NotForgotten(h)'
    BY <2>5 DEF NotForgotten
  <2>7. \A g \in G : g # h => NotForgotten(g)'
    BY <1>2, <1>4, <1>5, <2>2 DEF NotForgotten
  <2> QED BY <1>5, <2>6, <2>7 DEF NoneForgotten, Follows
<1> QED BY <1>1, <1>6, <1>7

\* A case that is registered.
LEMMA CaseRemembers ==
  ASSUME SelectTypes, NoneForgotten, RegisterCase
  PROVE  NoneForgotten'
<1>0. TypeOK /\ OneAddressee /\ registering # <<>>
  BY DEF SelectTypes, SelectTypeOK, NoneForgotten, RegisterCase
<1>1. PICK h, i : h = registering[1].g /\ i = registering[1].i
  OBVIOUS
<1>2. /\ h \in G /\ i \in Nat /\ i \in DOMAIN stmt[h].cases /\ stmt[h].cases[i] \in Case
      /\ pc[h] = "selecting" /\ \A c \in Chans : CaseTask(h, c, i) \in Task
  BY <1>0, <1>1, RegisteringType
<1>3. PICK c : c = stmt[h].cases[i].c
  OBVIOUS
<1>4. c = Nil \/ c \in Chans
  BY <1>2, <1>3 DEF Case
<1>5. /\ UNCHANGED <<pc, op, stmt>>
      /\ \/ registering' = <<>> /\ i = Len(stmt[h].cases)
         \/ registering' = <<[g |-> h, i |-> i + 1]>>
  <2>1. UNCHANGED <<pc, op, stmt>>
    BY DEF RegisterCase
  <2>2. registering' = IF i = Len(stmt[h].cases) THEN <<>> ELSE <<[g |-> h, i |-> i + 1]>>
    BY <1>1, Zenon DEF RegisterCase
  <2> QED BY <2>1, <2>2
<1>6. \/ c = Nil /\ UNCHANGED <<chan, micro, timers, done>>
      \/ c # Nil /\ (SelectSend(CaseTask(h, c, i), c) \/ SelectReceive(CaseTask(h, c, i), c))
  <2>1. PICK k : k = stmt[h].cases[i] /\ k.c = c
    BY <1>3
  <2>2. \/ k.c = Nil /\ UNCHANGED <<chan, micro, timers, done, sent, taken, got>>
        \/ k.c # Nil /\ k.isSend /\ SelectSend(CaseTask(h, k.c, i), k.c)
        \/ k.c # Nil /\ ~k.isSend /\ SelectReceive(CaseTask(h, k.c, i), k.c)
    BY <1>1, <2>1, Zenon DEF RegisterCase
  <2>3. UNCHANGED <<chan, micro, timers, done, sent, taken, got>>
          => UNCHANGED <<chan, micro, timers, done>>
    OBVIOUS
  <2> QED BY <2>1, <2>2, <2>3, Zenon
<1>7. /\ Follows /\ \A g \in G : done[g] # {} => done'[g] # {}
      /\ c # Nil => InQueue(CaseTask(h, c, i))' \/ Served(h)'
  <2>1. CASE c = Nil
    <3>1. UNCHANGED <<chan, micro, timers, done>>
      BY <1>6, <2>1
    <3>2. QueuesFollowed
      BY <3>1 DEF QueuesFollowed
    <3> QED BY <1>0, <2>1, <3>1, <3>2, JobsStay DEF Follows
  <2>2. CASE c # Nil
    <3>1. PICK t \in Task : t = CaseTask(h, c, i)
      BY <1>2, <1>4, <2>2
    <3>2. /\ Follows
          /\ t \in Queued(chan'[c]) \/ InJobs(t)' \/ done'[t.g] # {}
          /\ \A g \in G : done[g] # {} => done'[g] # {}
      BY <1>0, <1>4, <1>6, <2>2, <3>1, CaseRegistered
    <3>3. /\ t.c = c /\ t.g = h /\ t = CaseTask(h, c, i)' /\ OfSelect(t, h)'
      BY <1>5, <3>1 DEF CaseTask, OfSelect
    <3>4. InJobs(t)' => Served(h)'
      BY <3>3 DEF InJobs, Served
    <3> QED BY <3>2, <3>3, <3>4 DEF InQueue, Served
  <2> QED BY <2>1, <2>2
<1>8. ASSUME NEW g \in G, pc[g] = "selecting"
      PROVE  /\ op'[g] = op[g] /\ stmt'[g] = stmt[g] /\ NotForgotten(g)
             /\ Served(g) => Served(g)'
             /\ \A d \in Chans, k \in Nat :
                  InQueue(CaseTask(g, d, k)) => InQueue(CaseTask(g, d, k))' \/ Served(g)'
  <2>1. op'[g] = op[g] /\ stmt'[g] = stmt[g] /\ NotForgotten(g)
    BY <1>5 DEF NoneForgotten
  <2> QED BY <1>7, <2>1, FollowedStays
<1>9. ASSUME NEW g \in G, g # h, pc[g] = "selecting" PROVE NotForgotten(g)'
  <2>1. Registered(g)' \subseteq Registered(g)
    BY <1>1, <1>8, <1>9, RegisteredStays
  <2> QED BY <1>8, <1>9, <2>1, RememberedStays
<1>10. NotForgotten(h)'
  <2>0. \A k \in DOMAIN stmt[h].cases : k \in 1..Len(stmt[h].cases)
    BY <1>2, StatementType DEF SelectTypes, Statement
  <2>1. Registered(h)' \subseteq Registered(h) \cup {i}
    <3>1. ASSUME NEW k \in Registered(h)', k # i PROVE k \in Registered(h)
      <4>1. k \in LiveCases(stmt[h]) /\ (registering' # <<>> /\ registering'[1].g = h
                                            => k < registering'[1].i)
        BY <1>5, <3>1 DEF Registered
      <4>2. k \in 1..Len(stmt[h].cases)
        BY <2>0, <4>1 DEF LiveCases
      <4>3. k < i
        <5>1. CASE registering' = <<>> /\ i = Len(stmt[h].cases)
          BY <1>2, <3>1, <4>2, <5>1
        <5>2. CASE registering' = <<[g |-> h, i |-> i + 1]>>
          <6>1. registering' # <<>> /\ registering'[1].g = h /\ registering'[1].i = i + 1
            BY <5>2
          <6> QED BY <1>2, <3>1, <4>1, <4>2, <6>1
        <5> QED BY <1>5, <5>1, <5>2
      <4> QED BY <1>1, <4>1, <4>3 DEF Registered
    <3> QED BY <3>1
  <2>2. CASE i \notin Registered(h)' \/ Served(h)'
    <3>1. CASE Served(h)'
      BY <3>1 DEF NotForgotten
    <3>2. CASE i \notin Registered(h)'
      <4>1. Registered(h)' \subseteq Registered(h)
        BY <2>1, <3>2
      <4> QED BY <1>2, <1>8, <4>1, RememberedStays
    <3> QED BY <2>2, <3>1, <3>2
  <2>3. CASE i \in Registered(h)' /\ ~Served(h)'
    <3>1. c # Nil
      BY <1>3, <1>5, <2>3 DEF Registered, LiveCases
    <3>2. InQueue(CaseTask(h, c, i))' /\ stmt'[h].cases[i].c = c
      BY <1>3, <1>5, <1>7, <2>3, <3>1
    <3>3. ASSUME NEW k \in Registered(h)
          PROVE  InQueue(CaseTask(h, stmt[h].cases[k].c, k))'
      <4>1. InQueue(CaseTask(h, stmt[h].cases[k].c, k))
        BY <1>2, <1>8, <2>3, <3>3 DEF NotForgotten
      <4>2. k \in DOMAIN stmt[h].cases /\ stmt[h].cases[k].c # Nil
        BY <3>3 DEF Registered, LiveCases
      <4>3. k \in Nat /\ stmt[h].cases[k] \in Case
        BY <1>2, <4>2, StatementType DEF SelectTypes
      <4>4. PICK d \in Chans : d = stmt[h].cases[k].c
        BY <4>2, <4>3 DEF Case
      <4>5. InQueue(CaseTask(h, d, k))'
        BY <1>2, <1>8, <2>3, <4>1, <4>3, <4>4
      <4> QED BY <1>5, <4>4, <4>5
    <3>4. \A k \in Registered(h)' : InQueue(CaseTask(h, stmt[h].cases[k].c, k))'
      <4> SUFFICES ASSUME NEW k \in Registered(h)'
                   PROVE  InQueue(CaseTask(h, stmt[h].cases[k].c, k))'
        OBVIOUS
      <4>1. CASE k = i
        BY <3>2, <4>1
      <4>2. CASE k \in Registered(h)
        BY <3>3, <4>2
      <4> QED BY <2>1, <4>1, <4>2
    <3> QED BY <3>4 DEF NotForgotten
  <2> QED BY <2>2, <2>3
<1>11. \A g \in G : NotForgotten(g)'
  <2>1. ASSUME NEW g \in G, pc[g] # "selecting" PROVE NotForgotten(g)'
    BY <1>5, <2>1 DEF NotForgotten
  <2> QED BY <1>9, <1>10, <2>1
<1> QED BY <1>7, <1>11 DEF NoneForgotten, Follows

\* A select that ends with the result of a microtask.
LEMMA ResumesRemembers ==
  ASSUME SelectTypes, NoneForgotten, Idle, NEW h \in G, SelectResumes(h)
  PROVE  NoneForgotten'
<1>0. /\ TypeOK /\ OneAddressee /\ done \in [G -> SUBSET Outcome]
      /\ done' = [done EXCEPT ![h] = {}] /\ timers' = timers
  BY DEF SelectTypes, SelectTypeOK, TypeOK, NoneForgotten, SelectResumes
<1>1. PICK o \in Outcome : EndSelect(h, o)
  BY <1>0 DEF SelectResumes
<1>2. micro' = micro /\ op' = op
  BY <1>1 DEF EndSelect
<1>3. OneAddressee'
  BY <1>0, <1>2, JobsStay
<1>4. ASSUME NEW g \in G, g # h, Served(g) PROVE Served(g)'
  <2>1. done'[g] = done[g] /\ \A u : OfSelect(u, g)' <=> OfSelect(u, g)
    BY <1>0, <1>2, <1>4 DEF OfSelect
  <2> QED BY <1>0, <1>2, <1>4, <2>1 DEF Served
<1> QED BY <1>1, <1>3, <1>4, EndRemembers

\* A timer that ends a select, or comes too late for it.
LEMMA TimerRemembers ==
  ASSUME SelectTypes, NoneForgotten, Idle, SelectTimer \/ StaleTimer
  PROVE  NoneForgotten'
<1>0. TypeOK /\ OneAddressee /\ timers # <<>> /\ timers' = Tail(timers) /\ done' = done
  BY DEF SelectTypes, SelectTypeOK, NoneForgotten, SelectTimer, StaleTimer, TimerTurn
<1>1. PICK j \in Job : j = Head(timers)
  BY <1>0 DEF TypeOK
<1>2. CASE SelectTimer
  <2>1. /\ j.to.g \in G /\ TimerOutcome(j) \in Outcome
    BY DEF Job, Task, TimerOutcome, Outcome
  <2>2. EndSelect(j.to.g, TimerOutcome(j))
    BY <1>1, <1>2 DEF SelectTimer
  <2>3. micro' = micro /\ op' = op
    BY <2>2 DEF EndSelect
  <2>4. OneAddressee'
    BY <1>0, <2>3, TimerStays
  <2>5. ASSUME NEW g \in G, g # j.to.g, Served(g) PROVE Served(g)'
    <3>1. ~OfSelect(j.to, g)
      BY <2>5 DEF OfSelect
    <3> QED BY <1>0, <1>1, <2>3, <2>5, <3>1, TimerStays
  <2> QED BY <2>1, <2>2, <2>4, <2>5, EndRemembers
<1>3. CASE StaleTimer
  <2>1. /\ ~Live(j.to) /\ UNCHANGED <<chan, micro, pc, op, done, stmt, registering>>
    BY <1>1, <1>3 DEF StaleTimer
  <2>2. OneAddressee'
    BY <1>0, <2>1, TimerStays
  <2>3. ASSUME NEW g \in G, pc[g] = "selecting" PROVE NotForgotten(g)'
    <3>1. ~OfSelect(j.to, g)
      BY <2>1, <2>3 DEF OfSelect, Live
    <3>2. Served(g) => Served(g)'
      BY <1>0, <1>1, <2>1, <3>1, TimerStays
    <3>3. Registered(g)' = Registered(g)
      BY <2>1 DEF Registered, LiveCases
    <3>4. ASSUME NEW c \in Chans, NEW i \in Nat, InQueue(CaseTask(g, c, i))
          PROVE  InQueue(CaseTask(g, c, i))'
      BY <2>1, <3>4 DEF InQueue, CaseTask
    <3> QED BY <2>1, <2>3, <3>2, <3>3, <3>4, RememberedStays DEF NoneForgotten
  <2>4. \A g \in G : NotForgotten(g)'
    BY <2>1, <2>3 DEF NotForgotten
  <2> QED BY <2>2, <2>4 DEF NoneForgotten
<1> QED BY <1>2, <1>3

LEMMA NoneForgottenStep ==
  SelectTypes /\ QueueDiscipline /\ NoneForgotten /\ [SelectNext]_allVars => NoneForgotten'
<1> SUFFICES ASSUME SelectTypes, QueueDiscipline, NoneForgotten, [SelectNext]_allVars
             PROVE  NoneForgotten'
  OBVIOUS
<1>1. CASE UNCHANGED allVars
  BY <1>1 DEF allVars, vars, NoneForgotten, OneAddressee, NotForgotten, Served, Registered,
              LiveCases, InQueue, CaseTask, OfSelect
<1>2. CASE RegisterCase
  BY <1>2, CaseRemembers
<1>3. CASE Idle /\ Next /\ UNCHANGED selectVars
  BY <1>3, NextRemembers
<1>4. ASSUME Idle, NEW g \in G, SelectStatement(g) \/ SelectResumes(g) PROVE NoneForgotten'
  BY <1>4, StatementRemembers, ResumesRemembers
<1>5. CASE Idle /\ (SelectTimer \/ StaleTimer)
  BY <1>5, TimerRemembers
<1> QED BY <1>1, <1>2, <1>3, <1>4, <1>5 DEF SelectNext

\* A goroutine blocked in a select is never forgotten: each of its cases still
\* waits on its channel, or one was served and its promise is settled or the
\* business of a queued job.
THEOREM SelectForgetsNobody == SelectSpec => []SelectNotForgotten
<1>1. SelectInit => QueueDiscipline /\ NoneForgotten
  <2>1. ASSUME SelectInit PROVE NoneForgotten
    BY <2>1 DEF SelectInit, Init, NoneForgotten, OneAddressee, NotForgotten, ToSet
  <2> QED BY <2>1, DisciplineInit DEF SelectInit
<1>2. SelectTypes /\ NoneForgotten => SelectNotForgotten
  <2> SUFFICES ASSUME SelectTypes, NoneForgotten, NEW g \in G, pc[g] = "selecting", Idle
               PROVE  \/ \A i \in LiveCases(stmt[g]) :
                           InQueue(CaseTask(g, stmt[g].cases[i].c, i))
                      \/ Served(g)
    BY DEF SelectNotForgotten, Served, SelectTypes
  <2>1. Registered(g) = LiveCases(stmt[g])
    BY DEF Registered, Idle
  <2> QED BY <2>1 DEF NoneForgotten, NotForgotten
<1> QED BY <1>1, <1>2, SelectTypeInit, SelectTypeStep, SelectDisciplineStep, NoneForgottenStep,
        PTL DEF SelectSpec

-----------------------------------------------------------------------------
(* One case of a select communicates, where statements have one such case. *)

\* The idiom of a worker that communicates until it is told to stop: each
\* select has at most one case on a channel that somebody sends on, and its
\* send cases are on such channels.  The other cases wait for a close().
OneSendChan ==
  \A s \in Stmts :
    /\ \A i, j \in LiveCases(s) :
         s.cases[i].c \in SendChans /\ s.cases[j].c \in SendChans => i = j
    /\ \A i \in LiveCases(s) : s.cases[i].isSend => s.cases[i].c \in SendChans

\* A task of the select that its goroutine is executing is one of its cases.
OfCase(t) ==
  /\ t.n <= op[t.g]
  /\ t.n = op[t.g] /\ pc[t.g] = "selecting" =>
       t.i \in LiveCases(stmt[t.g]) /\ t.c = stmt[t.g].cases[t.i].c

QueuesOfCases == \A c \in Chans : \A t \in Queued(chan[c]) : t.c = c /\ OfCase(t)

SendersOnSendChans == \A c \in Chans : chan[c].senders # <<>> => c \in SendChans

MicroOfCases ==
  \A j \in ToSet(micro) : \A t \in {j.to, j.from} : t.c \in SendChans /\ OfCase(t)

\* Settled promises are those of the operation that the goroutine awaits.
DoneOfCases ==
  \A g \in G : \A o \in done[g] :
    /\ o.t.g = g /\ o.t.n = op[g] /\ pc[g] \in {"waiting", "selecting"}
    /\ o.t.c \in SendChans /\ OfCase(o.t)

\* While a select registers its cases, none of the rest can proceed.
RestNotReady ==
  registering # <<>> =>
    \A i \in LiveCases(stmt[registering[1].g]) :
      i >= registering[1].i => ~CaseReady(stmt[registering[1].g].cases[i])

OneCaseInv == /\ QueuesOfCases /\ SendersOnSendChans /\ MicroOfCases
              /\ DoneOfCases /\ RestNotReady

\* Operations follow one another.
Advances ==
  \A h \in G : /\ op[h] <= op'[h]
               /\ op'[h] = op[h] /\ pc'[h] = "selecting" =>
                    pc[h] = "selecting" /\ stmt'[h] = stmt[h]

LEMMA OfCaseStays ==
  ASSUME TypeOK, TypeOK', Advances, NEW t \in Task, OfCase(t)
  PROVE  OfCase(t)'
<1>1. t.g \in G /\ t.n \in Nat
  BY MaxOpsAssumption DEF Task
<1>2. PICK g \in G : g = t.g
  BY <1>1
<1>3. op[g] \in Nat /\ op'[g] \in Nat
  BY MaxOpsAssumption DEF TypeOK
<1>4. /\ t.n <= op[g]
      /\ t.n = op[g] /\ pc[g] = "selecting" => t.i \in LiveCases(stmt[g]) /\ t.c = stmt[g].cases[t.i].c
  BY <1>2 DEF OfCase
<1>5. /\ op[g] <= op'[g]
      /\ op'[g] = op[g] /\ pc'[g] = "selecting" => pc[g] = "selecting" /\ stmt'[g] = stmt[g]
  BY DEF Advances
<1>6. t.n <= op'[g]
  BY <1>1, <1>3, <1>4, <1>5
<1>7. ASSUME t.n = op'[g], pc'[g] = "selecting"
      PROVE  t.i \in LiveCases(stmt'[g]) /\ t.c = stmt'[g].cases[t.i].c
  <2>1. op'[g] = op[g]
    BY <1>1, <1>3, <1>4, <1>5, <1>7
  <2> QED BY <1>4, <1>5, <1>7, <2>1
<1> QED BY <1>2, <1>6, <1>7 DEF OfCase, LiveCases

\* What a call may leave in the waiting lists and among the microtasks.
LEMMA CallTasks ==
  ASSUME TypeOK, NEW c \in Chans, NEW t \in Task, Called(t, c)
  PROVE  /\ \A d \in Chans : d # c => chan'[d] = chan[d]
         /\ Queued(chan'[c]) \subseteq Queued(chan[c]) \cup {t}
         /\ chan'[c].senders # <<>> => chan[c].senders # <<>> \/ CaseSends(t, c)
         /\ \A j \in ToSet(micro') :
              \/ j \in ToSet(micro)
              \/ /\ j.to \in Queued(chan[c]) \cup {t} /\ j.from \in Queued(chan[c]) \cup {t}
                 /\ chan[c].senders # <<>> \/ CaseSends(t, c)
<1>0. /\ chan[c] \in ChannelState /\ micro \in Seq(Job) /\ NextValue \in Value
      /\ chan \in [Chans -> ChannelState]
  BY HistoryType DEF TypeOK
<1>1. PICK ch \in ChannelState : ch = chan[c]
  BY <1>0
<1> DEFINE New(j) == /\ j.to \in Queued(ch) \cup {t} /\ j.from \in Queued(ch) \cup {t}
                     /\ ch.senders # <<>> \/ CaseSends(t, c)
           Goal == /\ \A d \in Chans : d # c => chan'[d] = chan[d]
                   /\ Queued(chan'[c]) \subseteq Queued(ch) \cup {t}
                   /\ chan'[c].senders # <<>> => ch.senders # <<>> \/ CaseSends(t, c)
                   /\ \A j \in ToSet(micro') : j \in ToSet(micro) \/ New(j)
<1> SUFFICES Goal
  BY <1>1
<1>2. ASSUME NEW x, chan' = [chan EXCEPT ![c] = x], Queued(x) \subseteq Queued(ch) \cup {t},
             x.senders # <<>> => ch.senders # <<>> \/ CaseSends(t, c),
             \A j \in ToSet(micro') : j \in ToSet(micro) \/ New(j)
      PROVE  Goal
  <2> HIDE DEF New
  <2>1. chan'[c] = x /\ \A d \in Chans : d # c => chan'[d] = chan[d]
    BY <1>0, <1>2
  <2> QED BY <1>2, <2>1
<1> HIDE DEF Goal
<1>3. ASSUME chan' = chan, micro' = micro PROVE Goal
  BY <1>1, <1>3 DEF Goal
<1>4. CASE CasePasses(t, c) /\ CaseSends(t, c)
  <2>1. PICK x : x = ShiftReceiver(ch)
    OBVIOUS
  <2>2. HasReceiver(ch) /\ chan' = [chan EXCEPT ![c] = x]
    BY <1>1, <1>4, <2>1 DEF CasePasses
  <2>3. Queued(ch) = Queued(x) \cup {NextReceiver(ch)}
    BY <2>1, <2>2, QueuedSteps
  <2>4. PICK j \in Job : j = HandoffJob(NextReceiver(ch), NextValue, t)
    <3>1. NextReceiver(ch) \in Task /\ NextValue \in Nat
      BY <1>0, <2>2, ChannelSteps DEF Value
    <3> QED BY <3>1, JobTypes
  <2>5. micro' = Append(micro, j) /\ j.to = NextReceiver(ch) /\ j.from = t
    BY <1>1, <1>4, <2>4 DEF CasePasses, HandoffJob
  <2>6. ToSet(micro') = ToSet(micro) \cup {j}
    BY <1>0, <2>5, SetOfSeq
  <2>7. \A i \in ToSet(micro') : i \in ToSet(micro) \/ New(i)
    BY <1>4, <2>3, <2>5, <2>6
  <2> HIDE DEF New
  <2> QED BY <1>2, <1>4, <2>2, <2>3, <2>7
<1>5. CASE CaseBuffers(c)
  <2>1. PICK x : x = [ch EXCEPT !.buffer = Append(ch.buffer, NextValue)]
    OBVIOUS
  <2>2. Queued(x) = Queued(ch)
    <3>1. \A b : Queued([ch EXCEPT !.buffer = b]) = Queued(ch)
      BY QueuedSteps
    <3> QED BY <2>1, <3>1, Zenon
  <2>3. x.senders = ch.senders
    BY <2>1 DEF ChannelState
  <2>4. chan' = [chan EXCEPT ![c] = x] /\ micro' = micro
    BY <1>1, <1>5, <2>1 DEF CaseBuffers
  <2> HIDE DEF New
  <2> QED BY <1>2, <2>2, <2>3, <2>4
<1>6. CASE CaseOffers(t, c) /\ CaseSends(t, c)
  <2>1. PICK s \in SenderTask : s = [t |-> t, v |-> NextValue]
    BY <1>0 DEF SenderTask
  <2>2. PICK x : x = [ch EXCEPT !.senders = Append(ch.senders, s)]
    OBVIOUS
  <2>3. Queued(x) = Queued(ch) \cup {t}
    <3>1. \A u \in SenderTask :
            Queued([ch EXCEPT !.senders = Append(ch.senders, u)]) = Queued(ch) \cup {u.t}
      BY QueuedSteps
    <3> QED BY <2>1, <2>2, <3>1
  <2>4. chan' = [chan EXCEPT ![c] = x] /\ micro' = micro
    BY <1>1, <1>6, <2>1, <2>2 DEF CaseOffers
  <2> HIDE DEF New
  <2> QED BY <1>2, <1>6, <2>3, <2>4
<1>7. CASE CaseWaits(t, c) \/ PlainWaits(t, c)
  <2>1. PICK y, z : /\ y = [ch EXCEPT !.receivers = Append(ch.receivers, t)]
                    /\ z = [ch EXCEPT !.receiversWithOk = Append(ch.receiversWithOk, t)]
    OBVIOUS
  <2>2. Queued(y) = Queued(ch) \cup {t} /\ Queued(z) = Queued(ch) \cup {t}
    <3>1. \A u \in Task :
            /\ Queued([ch EXCEPT !.receivers = Append(ch.receivers, u)]) = Queued(ch) \cup {u}
            /\ Queued([ch EXCEPT !.receiversWithOk = Append(ch.receiversWithOk, u)])
                 = Queued(ch) \cup {u}
      BY QueuedSteps, Zenon
    <3> QED BY <2>1, <3>1, Zenon
  <2>3. y.senders = ch.senders /\ z.senders = ch.senders
    BY <2>1 DEF ChannelState
  <2>4. /\ chan' = [chan EXCEPT ![c] = y] \/ chan' = [chan EXCEPT ![c] = z]
        /\ micro' = micro
    BY <1>1, <1>7, <2>1 DEF CaseWaits, PlainWaits
  <2> HIDE DEF New
  <2> QED BY <1>2, <2>2, <2>3, <2>4
<1>8. CASE CaseTakesBuffered(c) \/ CaseTakesOffered(c)
  <2>1. PICK x : \/ x = ShiftBuffer(ch) /\ CaseTakesBuffered(c)
                 \/ x = ShiftSender(ch) /\ CaseTakesOffered(c)
    BY <1>8
  <2>2. chan' = [chan EXCEPT ![c] = x] /\ micro' = micro \o UnblockSender(ch)
    BY <1>1, <2>1 DEF CaseTakesBuffered, CaseTakesOffered
  <2>3. CASE ch.senders = <<>>
    <3>1. x = ShiftBuffer(ch) /\ UnblockSender(ch) = <<>>
      BY <1>1, <2>1, <2>3 DEF CaseTakesOffered, UnblockSender
    <3>2. micro' = micro /\ Queued(x) = Queued(ch)
      BY <1>0, <2>2, <2>3, <3>1, QueuedSteps
    <3>3. x.senders = <<>>
      BY <2>3, <3>1 DEF ShiftBuffer, ChannelState
    <3> HIDE DEF New
    <3> QED BY <1>2, <2>2, <3>2, <3>3
  <2>4. CASE ch.senders # <<>>
    <3>1. PICK s \in SenderTask : s = Head(ch.senders)
      BY <2>4, ChannelSteps
    <3>2. PICK j \in Job : j = SentJob(s.t, s.v)
      <4>1. s.t \in Task /\ s.v \in Nat
        BY DEF SenderTask, Value
      <4> QED BY <4>1, JobTypes
    <3>3. micro' = Append(micro, j) /\ j.to = s.t /\ j.from = s.t
      BY <1>0, <2>2, <2>4, <3>1, <3>2 DEF UnblockSender, SentJob
    <3>4. ToSet(micro') = ToSet(micro) \cup {j}
      BY <1>0, <3>3, SetOfSeq
    <3>5. Queued(ch) = Queued(x) \cup {s.t}
      BY <2>1, <2>4, <3>1, QueuedSteps
    <3>6. \A i \in ToSet(micro') : i \in ToSet(micro) \/ New(i)
      BY <2>4, <3>3, <3>4, <3>5
    <3> HIDE DEF New
    <3> QED BY <1>2, <2>2, <2>4, <3>5, <3>6
  <2> QED BY <2>3, <2>4
<1>9. CASE Closes(c)
  <2>1. PICK x : x = CloseChannel(ch)
    OBVIOUS
  <2>2. chan' = [chan EXCEPT ![c] = x] /\ micro' = micro
    BY <1>1, <1>9, <2>1 DEF Closes
  <2>3. Queued(x) = {} /\ x.senders = <<>>
    <3>1. Queued(CloseChannel(ch)) = {}
      BY QueuedSteps
    <3>2. CloseChannel(ch).senders = <<>>
      BY DEF CloseChannel, ChannelState
    <3> QED BY <2>1, <3>1, <3>2
  <2> HIDE DEF New
  <2> QED BY <1>2, <2>2, <2>3
<1>10. \/ chan' = chan /\ micro' = micro
       \/ CaseSends(t, c) /\ (CasePasses(t, c) \/ CaseBuffers(c) \/ CaseOffers(t, c))
       \/ CaseTakesBuffered(c) \/ CaseTakesOffered(c)
       \/ CaseWaits(t, c) \/ PlainWaits(t, c) \/ Closes(c)
  BY DEF Called, CaseSends, CaseReceives, CaseTakes, CaseRefused, CaseFindsClosed
<1> QED BY <1>3, <1>4, <1>5, <1>6, <1>7, <1>8, <1>9, <1>10

LEMMA Advancing ==
  ASSUME SelectTypes, QueueDiscipline, SelectNext
  PROVE  Advances
<1>0. /\ TypeOK /\ op \in [G -> 0..MaxOps] /\ stmt \in [G -> Stmts \cup {NoStmt}]
      /\ pc \in [G -> {"ready", "waiting", "selecting", "forever"}]
      /\ \A h \in G : op[h] \in Nat
  BY MaxOpsAssumption DEF SelectTypes, SelectTypeOK, TypeOK
<1>1. ASSUME NEW g \in G, NEW st, Start(g, st), \A h \in G : h # g => stmt'[h] = stmt[h]
      PROVE  Advances
  <2>1. op'[g] = op[g] + 1 /\ \A h \in G : h # g => op'[h] = op[h] /\ pc'[h] = pc[h]
    BY <1>0, <1>1 DEF Start
  <2>2. op'[g] # op[g] /\ op[g] <= op'[g] /\ \A h \in G : op[h] <= op[h]
    BY <1>0, <2>1
  <2> QED BY <1>1, <2>1, <2>2 DEF Advances
<1>2. ASSUME op' = op,
             \A h \in G : pc'[h] = "selecting" => pc[h] = "selecting" /\ stmt'[h] = stmt[h]
      PROVE  Advances
  BY <1>0, <1>2 DEF Advances
<1>3. CASE Next /\ UNCHANGED selectVars
  <2>1. stmt' = stmt /\ \A h \in G : pc'[h] = "selecting" => pc[h] = "selecting"
    BY <1>0, <1>3, NextSelecting DEF selectVars
  <2>2. (\E g \in G : Begins(g)) \/ op' = op
    BY <1>0, <1>3, NextKinds DEF Resume, RunMicrotask, RunHandoff, RunSent, RunTimer
  <2> QED BY <1>1, <1>2, <2>1, <2>2 DEF Begins
<1>4. ASSUME NEW g \in G, SelectStatement(g) PROVE Advances
  <2>1. PICK s \in Stmts : SelectReady(g, s) \/ SelectDefault(g, s)
                             \/ SelectForever(g, s) \/ SelectBlocks(g, s)
    BY <1>4 DEF SelectStatement
  <2>2. \E st : Start(g, st)
    BY <2>1 DEF SelectReady, SelectDefault, SelectForever, SelectBlocks
  <2>3. \A h \in G : h # g => stmt'[h] = stmt[h]
    BY <1>0, <2>1 DEF SelectReady, SelectDefault, SelectForever, SelectBlocks, selectVars
  <2> QED BY <1>1, <2>2, <2>3
<1>5. ASSUME NEW g \in G, NEW o, EndSelect(g, o) PROVE Advances
  <2>1. /\ op' = op /\ pc' = [pc EXCEPT ![g] = "ready"] /\ stmt' = [stmt EXCEPT ![g] = NoStmt]
    BY <1>5 DEF EndSelect
  <2> QED BY <1>0, <1>2, <2>1
<1>6. ASSUME SelectTimer PROVE Advances
  <2>1. Head(timers) \in Job
    BY <1>0, <1>6 DEF SelectTimer, TimerTurn, TypeOK
  <2>2. Head(timers).to.g \in G
    BY <2>1 DEF Job, Task
  <2> QED BY <1>5, <1>6, <2>2 DEF SelectTimer
<1>7. ASSUME UNCHANGED <<op, pc, stmt>> PROVE Advances
  BY <1>2, <1>7
<1> QED BY <1>3, <1>4, <1>5, <1>6, <1>7 DEF SelectNext, SelectResumes, StaleTimer, RegisterCase

LEMMA QueuedTasks ==
  ASSUME NEW ch \in ChannelState
  PROVE  Queued(ch) \subseteq Task
<1>0. ch.senders \in Seq(SenderTask) /\ ch.receivers \in Seq(Task) /\ ch.receiversWithOk \in Seq(Task)
  BY DEF ChannelState
<1>1. PICK a, r, w : /\ a = ch.senders /\ r = ch.receivers /\ w = ch.receiversWithOk
                     /\ a \in Seq(SenderTask) /\ r \in Seq(Task) /\ w \in Seq(Task)
  BY <1>0
<1>2. ToSet(a) \subseteq SenderTask /\ ToSet(r) \subseteq Task /\ ToSet(w) \subseteq Task
  <2>1. ToSet(a) \subseteq SenderTask
    BY <1>1, SetOfSeq
  <2>2. ToSet(r) \subseteq Task /\ ToSet(w) \subseteq Task
    BY <1>1, SetOfSeq
  <2> QED BY <2>1, <2>2
<1>3. \A s \in SenderTask : s.t \in Task
  BY DEF SenderTask
<1> QED BY <1>1, <1>2, <1>3 DEF Queued

\* A call leaves tasks of cases behind.
LEMMA CallOfCases ==
  ASSUME TypeOK, TypeOK', Advances, QueuesOfCases, SendersOnSendChans, MicroOfCases,
         NEW c \in Chans, NEW t \in Task, Called(t, c), t.c = c, OfCase(t)',
         CaseSends(t, c) => c \in SendChans
  PROVE  QueuesOfCases' /\ SendersOnSendChans' /\ MicroOfCases'
<1>0. micro \in Seq(Job) /\ \A d \in Chans : chan[d] \in ChannelState
  BY DEF TypeOK
<1>1. /\ \A d \in Chans : d # c => chan'[d] = chan[d]
      /\ Queued(chan'[c]) \subseteq Queued(chan[c]) \cup {t}
      /\ chan'[c].senders # <<>> => chan[c].senders # <<>> \/ CaseSends(t, c)
      /\ \A j \in ToSet(micro') :
           \/ j \in ToSet(micro)
           \/ /\ j.to \in Queued(chan[c]) \cup {t} /\ j.from \in Queued(chan[c]) \cup {t}
              /\ chan[c].senders # <<>> \/ CaseSends(t, c)
  BY CallTasks
<1>2. \A d \in Chans : \A u \in Queued(chan[d]) : u.c = d /\ OfCase(u)'
  <2>1. ASSUME NEW d \in Chans, NEW u \in Queued(chan[d]) PROVE u.c = d /\ OfCase(u)'
    <3>1. u \in Task /\ u.c = d /\ OfCase(u)
      BY <1>0, QueuedTasks DEF QueuesOfCases
    <3> QED BY <3>1, OfCaseStays
  <2> QED BY <2>1
<1>3. QueuesOfCases'
  BY <1>1, <1>2 DEF QueuesOfCases
<1>4. SendersOnSendChans'
  BY <1>1 DEF SendersOnSendChans
<1>5. ASSUME NEW j \in ToSet(micro'), NEW u \in {j.to, j.from}
      PROVE  u.c \in SendChans /\ OfCase(u)'
  <2>1. CASE j \in ToSet(micro)
    <3>1. j \in Job
      BY <1>0, <2>1, SetOfSeq
    <3>2. u \in Task
      BY <3>1 DEF Job
    <3>3. u.c \in SendChans /\ OfCase(u)
      BY <2>1 DEF MicroOfCases
    <3> QED BY <3>2, <3>3, OfCaseStays
  <2>2. CASE j \notin ToSet(micro)
    <3>1. c \in SendChans
      BY <1>1, <2>2 DEF SendersOnSendChans
    <3>2. u \in Queued(chan[c]) \cup {t}
      BY <1>1, <2>2
    <3> QED BY <1>2, <3>1, <3>2
  <2> QED BY <2>1, <2>2
<1>6. MicroOfCases'
  BY <1>5 DEF MicroOfCases
<1> QED BY <1>3, <1>4, <1>6

\* Other steps move or remove tasks.
LEMMA LessOfCases ==
  ASSUME TypeOK, TypeOK', Advances, QueuesOfCases, SendersOnSendChans, MicroOfCases,
         \A d \in Chans : /\ Queued(chan'[d]) \subseteq Queued(chan[d])
                          /\ chan'[d].senders # <<>> => chan[d].senders # <<>>,
         \A j \in ToSet(micro') : \A t \in {j.to, j.from} :
           \E i \in ToSet(micro) : t \in {i.to, i.from}
  PROVE  QueuesOfCases' /\ SendersOnSendChans' /\ MicroOfCases'
<1>0. micro \in Seq(Job) /\ \A d \in Chans : chan[d] \in ChannelState
  BY DEF TypeOK
<1>1. ASSUME NEW d \in Chans, NEW u \in Queued(chan'[d]) PROVE u.c = d /\ OfCase(u)'
  <2>1. u \in Queued(chan[d])
    BY <1>1
  <2>2. u \in Task /\ u.c = d /\ OfCase(u)
    BY <1>0, <2>1, QueuedTasks DEF QueuesOfCases
  <2> QED BY <2>2, OfCaseStays
<1>2. QueuesOfCases'
  BY <1>1 DEF QueuesOfCases
<1>3. SendersOnSendChans'
  BY DEF SendersOnSendChans
<1>4. ASSUME NEW j \in ToSet(micro'), NEW u \in {j.to, j.from}
      PROVE  u.c \in SendChans /\ OfCase(u)'
  <2>1. PICK i \in ToSet(micro) : u \in {i.to, i.from}
    BY <1>4
  <2>2. i \in Job
    BY <1>0, SetOfSeq
  <2>3. u \in Task
    BY <2>1, <2>2 DEF Job
  <2>4. u.c \in SendChans /\ OfCase(u)
    BY <2>1 DEF MicroOfCases
  <2> QED BY <2>3, <2>4, OfCaseStays
<1>5. MicroOfCases'
  BY <1>4 DEF MicroOfCases
<1> QED BY <1>2, <1>3, <1>5

LEMMA DoneOfCasesStays ==
  ASSUME TypeOK, TypeOK', Advances, DoneOfCases,
         \A g \in G : \/ done'[g] = {}
                      \/ done'[g] = done[g] /\ (done[g] # {} => op'[g] = op[g] /\ pc'[g] = pc[g])
  PROVE  DoneOfCases'
<1>1. ASSUME NEW g \in G, NEW o \in done'[g]
      PROVE  /\ o.t.g = g /\ o.t.n = op'[g] /\ pc'[g] \in {"waiting", "selecting"}
             /\ o.t.c \in SendChans /\ OfCase(o.t)'
  <2>1. o \in done[g] /\ op'[g] = op[g] /\ pc'[g] = pc[g]
    BY <1>1
  <2>2. o \in Outcome
    BY <2>1 DEF TypeOK
  <2>3. o.t \in Task
    BY <2>2 DEF Outcome
  <2>4. /\ o.t.g = g /\ o.t.n = op[g] /\ pc[g] \in {"waiting", "selecting"}
        /\ o.t.c \in SendChans /\ OfCase(o.t)
    BY <2>1 DEF DoneOfCases
  <2> QED BY <2>1, <2>3, <2>4, OfCaseStays
<1> QED BY <1>1 DEF DoneOfCases

\* A goroutine that starts an operation has no settled promise left.
LEMMA StartOfCases ==
  ASSUME TypeOK, TypeOK', Advances, DoneOfCases, NEW h \in G, NEW st, CanStart(h), Start(h, st),
         done' = done
  PROVE  DoneOfCases'
<1>1. \A g \in G : g # h => op'[g] = op[g] /\ pc'[g] = pc[g]
  BY DEF TypeOK, Start
<1>2. done[h] = {}
  <2>1. \A o \in done[h] : pc[h] \in {"waiting", "selecting"}
    BY DEF DoneOfCases
  <2> QED BY <2>1 DEF CanStart
<1> QED BY <1>1, <1>2, DoneOfCasesStays

TaskInv == QueuesOfCases /\ SendersOnSendChans /\ MicroOfCases /\ DoneOfCases

\* The first step of a hand-off, and an acknowledgement.
LEMMA RunOfCases ==
  ASSUME TypeOK, TypeOK', Advances, TaskInv, RunMicrotask
  PROVE  TaskInv'
<1>0. /\ micro \in Seq(Job) /\ micro # <<>> /\ done \in [G -> SUBSET Outcome]
      /\ UNCHANGED <<chan, pc, op>>
  BY DEF TypeOK, RunMicrotask, RunHandoff, RunSent
<1>1. PICK j \in Job : j = Head(micro)
  BY <1>0
<1>2. ToSet(micro) = ToSet(Tail(micro)) \cup {j} /\ Tail(micro) \in Seq(Job)
  BY <1>0, <1>1, SetOfSeq
<1>3. \A k \in ToSet(micro') : \A t \in {k.to, k.from} : \E i \in ToSet(micro) : t \in {i.to, i.from}
  <2>1. CASE RunHandoff
    <3>1. PICK k \in Job : k = SentJob(j.from, j.v)
      BY JobTypes DEF Job
    <3>2. micro' = Append(Tail(micro), k) /\ k.to = j.from /\ k.from = j.from
      BY <1>1, <2>1, <3>1 DEF RunHandoff, SentJob
    <3>3. ToSet(micro') = ToSet(Tail(micro)) \cup {k}
      <4>1. PICK q \in Seq(Job) : q = Tail(micro)
        BY <1>2
      <4>2. ToSet(Append(q, k)) = ToSet(q) \cup {k}
        BY SetOfSeq
      <4> QED BY <3>2, <4>1, <4>2
    <3> QED BY <1>2, <3>2, <3>3
  <2>2. CASE RunSent
    BY <1>2, <2>2 DEF RunSent
  <2> QED BY <2>1, <2>2 DEF RunMicrotask
<1>4. QueuesOfCases' /\ SendersOnSendChans' /\ MicroOfCases'
  BY <1>0, <1>3, LessOfCases DEF TaskInv
<1>5. PICK kind : Settle(j.to, kind, j.v)
  BY <1>1 DEF RunMicrotask, RunHandoff, RunSent
<1>6. PICK t \in Task : t = j.to
  BY DEF Job
<1>7. t.c \in SendChans /\ OfCase(t) /\ t.g \in G
  BY <1>2, <1>6 DEF TaskInv, MicroOfCases, Task
<1>8. PICK o : o = [kind |-> kind, t |-> t, v |-> j.v]
  OBVIOUS
<1>9. o.t = t
  BY <1>8
<1>10. \A g \in G : \A x \in done'[g] : x \in done[g] \/ (x = o /\ g = t.g /\ Live(t))
  BY <1>0, <1>5, <1>6, <1>7, <1>8 DEF Settle
<1>11. ASSUME NEW g \in G, NEW x \in done'[g]
       PROVE  /\ x.t.g = g /\ x.t.n = op'[g] /\ pc'[g] \in {"waiting", "selecting"}
              /\ x.t.c \in SendChans /\ OfCase(x.t)'
  <2>1. CASE x \in done[g]
    <3>1. x \in Outcome
      BY <1>0, <2>1
    <3>2. x.t \in Task
      BY <3>1 DEF Outcome
    <3> QED BY <1>0, <2>1, <3>2, OfCaseStays DEF TaskInv, DoneOfCases
  <2>2. CASE x = o /\ g = t.g /\ Live(t)
    BY <1>0, <1>7, <1>9, <2>2, OfCaseStays DEF Live
  <2> QED BY <1>10, <1>11, <2>1, <2>2
<1> QED BY <1>4, <1>11 DEF TaskInv, DoneOfCases

\* The call of goroutine h that is its next operation.
LEMMA OperationOfCases ==
  ASSUME TypeOK, TypeOK', Advances, TaskInv, NEW h \in G, NEW c \in Chans, CanStart(h),
         NEW st \in {"ready", "waiting", "forever"}, Start(h, st),
         Called(TaskOf(h, c, 0), c), done' = done,
         CaseSends(TaskOf(h, c, 0), c) => c \in SendChans
  PROVE  TaskInv'
<1>1. PICK t \in Task : t = TaskOf(h, c, 0)
  BY StartType
<1>2. t.c = c /\ t.g = h /\ t.n = op[h] + 1
  BY <1>1 DEF TaskOf
<1>3. op'[h] = op[h] + 1 /\ pc'[h] # "selecting" /\ op[h] \in Nat
  BY MaxOpsAssumption DEF TypeOK, Start
<1>4. OfCase(t)'
  BY <1>2, <1>3 DEF OfCase
<1>5. QueuesOfCases' /\ SendersOnSendChans' /\ MicroOfCases'
  BY <1>1, <1>2, <1>4, CallOfCases DEF TaskInv
<1> QED BY <1>5, StartOfCases DEF TaskInv

LEMMA NextOfCases ==
  ASSUME TypeOK, TypeOK', Advances, QueueDiscipline, TaskInv, Next
  PROVE  TaskInv'
<1>1. ASSUME NEW h \in G, Begins(h), UNCHANGED <<chan, micro, timers, done, sent, taken>>
      PROVE  TaskInv'
  <2>1. QueuesOfCases' /\ SendersOnSendChans' /\ MicroOfCases'
    BY <1>1, LessOfCases DEF TaskInv
  <2> QED BY <1>1, <2>1, StartOfCases DEF TaskInv, Begins
<1>2. ASSUME NEW h \in G, Resume(h) PROVE TaskInv'
  <2>1. /\ UNCHANGED <<chan, micro, op>> /\ done' = [done EXCEPT ![h] = {}]
        /\ pc' = [pc EXCEPT ![h] = "ready"]
    BY <1>2 DEF Resume, Continue
  <2>2. QueuesOfCases' /\ SendersOnSendChans' /\ MicroOfCases'
    BY <2>1, LessOfCases DEF TaskInv
  <2>3. /\ done'[h] = {}
        /\ \A g \in G : g # h => done'[g] = done[g] /\ pc'[g] = pc[g] /\ op'[g] = op[g]
    BY <2>1 DEF TypeOK
  <2>4. DoneOfCases'
    BY <2>3, DoneOfCasesStays DEF TaskInv
  <2> QED BY <2>2, <2>4 DEF TaskInv
<1>3. ASSUME RunTimer PROVE TaskInv'
  <2>1. UNCHANGED <<chan, micro, op, done>> /\ \A g \in G : done[g] = {}
    BY <1>3 DEF RunTimer, TimerTurn
  <2>2. QueuesOfCases' /\ SendersOnSendChans' /\ MicroOfCases'
    BY <2>1, LessOfCases DEF TaskInv
  <2>3. DoneOfCases'
    BY <2>1 DEF DoneOfCases
  <2> QED BY <2>2, <2>3 DEF TaskInv
<1>4. ASSUME NEW h \in G, NEW c \in Chans, Begins(h), Called(TaskOf(h, c, 0), c), done' = done,
             CaseSends(TaskOf(h, c, 0), c) => c \in SendChans
      PROVE  TaskInv'
  BY <1>4, OperationOfCases DEF Begins
<1> QED BY <1>1, <1>2, <1>3, <1>4, RunOfCases, NextKinds

\* A select that can proceed at once, or need not wait, or never ends.
LEMMA StatementOfCases ==
  ASSUME OneSendChan, SelectTypes, SelectTypes', Advances, TaskInv, Idle,
         NEW h \in G, SelectStatement(h)
  PROVE  TaskInv' /\ RestNotReady'
<1>0. TypeOK /\ TypeOK' /\ sent \in Seq(SendRecord) /\ registering = <<>>
  BY DEF SelectTypes, SelectTypeOK, TypeOK, Idle
<1>1. PICK s \in Stmts : SelectReady(h, s) \/ SelectDefault(h, s)
                           \/ SelectForever(h, s) \/ SelectBlocks(h, s)
  BY DEF SelectStatement
<1>2. CASE SelectReady(h, s)
  <2>1. PICK i \in ReadyCases(s) :
          IF s.cases[i].isSend THEN TrySelectSend(h, s.cases[i].c)
                               ELSE TrySelectReceive(h, s.cases[i].c)
    BY <1>2 DEF SelectReady
  <2>2. i \in LiveCases(s)
    BY DEF ReadyCases, LiveCases, CaseReady
  <2>3. PICK c \in Chans : c = s.cases[i].c
    <3>1. i \in DOMAIN s.cases /\ s.cases[i].c # Nil /\ s.cases \in Seq(Case)
      BY <2>2, StmtsAssumption DEF LiveCases, Statement
    <3>2. s.cases[i] \in Case
      BY <3>1
    <3> QED BY <3>1, <3>2 DEF Case
  <2>4. CanStart(h) /\ Start(h, "ready")
    BY <1>2 DEF SelectReady
  <2>5. done' = done /\ timers' = timers
    BY <2>1 DEF TrySelectSend, TrySelectReceive
  <2>6. PICK t : t = TaskOf(h, c, 0)
    OBVIOUS
  <2>7. Called(t, c) /\ (CaseSends(t, c) => c \in SendChans)
    <3>1. CASE s.cases[i].isSend
      <4>1. TrySelectSend(h, c)
        BY <2>1, <2>3, <3>1
      <4>2. CaseSends(t, c)
        BY <1>0, <2>6, <4>1, ReadyKinds
      <4>3. c \in SendChans
        BY <2>2, <2>3, <3>1 DEF OneSendChan
      <4> QED BY <2>5, <4>2, <4>3 DEF Called
    <3>2. CASE ~s.cases[i].isSend
      <4>1. TrySelectReceive(h, c)
        BY <2>1, <2>3, <3>2
      <4>2. sent' = sent /\ CaseTakes(c)
        BY <1>0, <4>1, ReadyKinds
      <4>3. ASSUME NEW st, RecordSend(c, st) PROVE FALSE
        <5>1. Len(sent') = Len(sent) + 1 /\ Len(sent) \in Nat
          BY <1>0, <4>3 DEF RecordSend
        <5> QED BY <4>2, <5>1
      <4> QED BY <2>5, <4>2, <4>3 DEF Called, CaseReceives, CaseSends
    <3> QED BY <3>1, <3>2
  <2>8. TaskInv'
    BY <1>0, <2>4, <2>5, <2>6, <2>7, OperationOfCases
  <2>9. RestNotReady'
    BY <1>0, <1>2 DEF SelectReady, selectVars, RestNotReady
  <2> QED BY <2>8, <2>9
<1>3. CASE SelectDefault(h, s) \/ SelectForever(h, s) \/ SelectBlocks(h, s)
  <2>1. /\ UNCHANGED <<chan, micro, done>> /\ CanStart(h)
        /\ \E st : Start(h, st)
    BY <1>3 DEF SelectDefault, SelectForever, SelectBlocks
  <2>2. QueuesOfCases' /\ SendersOnSendChans' /\ MicroOfCases'
    BY <1>0, <2>1, LessOfCases DEF TaskInv
  <2>3. DoneOfCases'
    BY <1>0, <2>1, StartOfCases DEF TaskInv
  <2>4. RestNotReady'
    <3>1. CASE SelectDefault(h, s) \/ SelectForever(h, s)
      BY <1>0, <3>1 DEF SelectDefault, SelectForever, RestNotReady
    <3>2. CASE SelectBlocks(h, s)
      <4>1. /\ stmt' = [stmt EXCEPT ![h] = s] /\ registering' = <<[g |-> h, i |-> 1]>>
            /\ ReadyCases(s) = {}
        BY <3>2 DEF SelectBlocks
      <4>2. stmt'[h] = s /\ registering'[1].g = h
        BY <4>1 DEF SelectTypes, SelectTypeOK
      <4>3. \A i \in LiveCases(s) : ~CaseReady(s.cases[i])
        BY <4>1 DEF ReadyCases, LiveCases
      <4>4. \A i \in LiveCases(s) : ~CaseReady(s.cases[i])'
        BY <2>1, <4>3 DEF CaseReady
      <4> QED BY <4>2, <4>4 DEF RestNotReady, LiveCases
    <3> QED BY <1>3, <3>1, <3>2
  <2> QED BY <2>2, <2>3, <2>4 DEF TaskInv
<1> QED BY <1>1, <1>2, <1>3

\* The abort leaves fewer tasks.
LEMMA EndOfCases ==
  ASSUME SelectTypes, SelectTypes', Advances, TaskInv, NEW h \in G, NEW o \in Outcome,
         EndSelect(h, o), done'[h] = {}, \A g \in G : g # h => done'[g] = done[g]
  PROVE  TaskInv'
<1>0. TypeOK /\ TypeOK' /\ \A d \in Chans : chan[d] \in ChannelState
  BY DEF SelectTypes, SelectTypeOK, TypeOK
<1>1. /\ micro' = micro /\ op' = op /\ pc' = [pc EXCEPT ![h] = "ready"]
  BY DEF EndSelect
<1>2. \A d \in Chans : /\ Queued(chan'[d]) \subseteq Queued(chan[d])
                       /\ chan'[d].senders # <<>> => chan[d].senders # <<>>
  <2>1. CASE chan' = chan
    BY <2>1
  <2>2. CASE chan' = [c \in Chans |-> AbortCases(h, chan[c])]
    <3> SUFFICES ASSUME NEW d \in Chans
                 PROVE  /\ Queued(chan'[d]) \subseteq Queued(chan[d])
                        /\ chan'[d].senders # <<>> => chan[d].senders # <<>>
      OBVIOUS
    <3>1. PICK ch \in ChannelState : ch = chan[d]
      BY <1>0
    <3> DEFINE Spared(y) ==
                 /\ y \in ChannelState
                 /\ y.buffer = ch.buffer /\ y.closed = ch.closed /\ y.receivers = ch.receivers
                 /\ \A s : s \in ToSet(y.senders)
                             <=> s \in ToSet(ch.senders) /\ ~OfSelect(s.t, h)
                 /\ \A u : u \in ToSet(y.receiversWithOk)
                             <=> u \in ToSet(ch.receiversWithOk) /\ ~OfSelect(u, h)
                 /\ Disciplined(d, ch) => Disciplined(d, y)
                 /\ Go!Subsequence(LineOf(y), LineOf(ch))
    <3>2. Spared(AbortCases(h, ch))
      BY AbortOf, Zenon
    <3>3. PICK x : x = chan'[d] /\ x = AbortCases(h, ch)
      BY <2>2, <3>1
    <3>4. Queued(x) \subseteq Queued(ch)
      BY <3>2, <3>3 DEF Queued
    <3>5. x.senders # <<>> => ch.senders # <<>>
      <4>1. x.senders \in Seq(SenderTask) /\ ch.senders \in Seq(SenderTask)
        BY <3>2, <3>3 DEF ChannelState
      <4>2. x.senders # <<>> => ToSet(x.senders) # {}
        BY <4>1, SetOfSeq
      <4>3. ToSet(ch.senders) # {} => ch.senders # <<>>
        BY <4>1, SetOfSeq
      <4> QED BY <3>2, <3>3, <4>2, <4>3
    <3> HIDE DEF Spared
    <3> QED BY <3>1, <3>3, <3>4, <3>5
  <2>3. chan' = chan \/ chan' = [c \in Chans |-> AbortCases(h, chan[c])]
    BY EndKinds DEF CasesAborted, ChannelsStay
  <2> QED BY <2>1, <2>2, <2>3
<1>3. QueuesOfCases' /\ SendersOnSendChans' /\ MicroOfCases'
  BY <1>0, <1>1, <1>2, LessOfCases DEF TaskInv
<1>4. \A g \in G : g # h => pc'[g] = pc[g] /\ op'[g] = op[g]
  BY <1>0, <1>1 DEF TypeOK
<1>5. DoneOfCases'
  BY <1>0, <1>4, DoneOfCasesStays DEF TaskInv
<1> QED BY <1>3, <1>5 DEF TaskInv

\* A case that cannot proceed joins its queue, and makes none of the rest ready.
LEMMA RegisterOfCases ==
  ASSUME OneSendChan, SelectTypes, SelectTypes', Advances, TaskInv, RestNotReady, RegisterCase
  PROVE  TaskInv' /\ RestNotReady'
<1>0. TypeOK /\ TypeOK' /\ registering # <<>>
  BY DEF SelectTypes, SelectTypeOK, RegisterCase
<1>1. PICK h, i : h = registering[1].g /\ i = registering[1].i
  OBVIOUS
<1>2. /\ h \in G /\ i \in Nat /\ i \in DOMAIN stmt[h].cases /\ stmt[h].cases[i] \in Case
      /\ pc[h] = "selecting" /\ \A c \in Chans : CaseTask(h, c, i) \in Task
  BY <1>0, <1>1, RegisteringType
<1>3. PICK k, c : k = stmt[h].cases[i] /\ c = k.c
  OBVIOUS
<1>4. c = Nil \/ c \in Chans
  BY <1>2, <1>3 DEF Case
<1>5. UNCHANGED <<pc, op, stmt>>
  BY DEF RegisterCase
<1>6. registering' = IF i = Len(stmt[h].cases) THEN <<>> ELSE <<[g |-> h, i |-> i + 1]>>
  BY <1>1, Zenon DEF RegisterCase
<1>7. \/ c = Nil /\ UNCHANGED <<chan, micro, timers, done, sent, taken, got>>
      \/ c # Nil /\ k.isSend /\ SelectSend(CaseTask(h, c, i), c)
      \/ c # Nil /\ ~k.isSend /\ SelectReceive(CaseTask(h, c, i), c)
  BY <1>1, <1>3, Zenon DEF RegisterCase
<1>8. stmt[h] \in Stmts \/ LiveCases(stmt[h]) = {}
  <2>1. LiveCases(NoStmt) = {}
    BY DEF LiveCases, NoStmt
  <2> QED BY <1>2, <2>1 DEF SelectTypes, SelectTypeOK
<1>9. \A l \in LiveCases(stmt[h]) : l >= i => ~CaseReady(stmt[h].cases[l])
  BY <1>0, <1>1 DEF RestNotReady
<1>10. registering' # <<>> => registering'[1].g = h /\ registering'[1].i = i + 1
  BY <1>6
<1>11. ASSUME \A l \in LiveCases(stmt[h]) : l > i => ~CaseReady(stmt[h].cases[l])'
       PROVE  RestNotReady'
  <2>1. ASSUME registering' # <<>>, NEW l \in LiveCases(stmt'[h]), l >= i + 1
        PROVE  ~CaseReady(stmt[h].cases[l])'
    <3>1. l \in LiveCases(stmt[h])
      BY <1>5, <2>1
    <3>2. l \in Nat
      BY <1>2, <3>1, StatementType DEF LiveCases, SelectTypes
    <3>3. l > i
      BY <1>2, <2>1, <3>2
    <3> QED BY <1>11, <3>1, <3>3
  <2> QED BY <1>5, <1>10, <2>1 DEF RestNotReady, LiveCases
<1>12. CASE c = Nil
  <2>1. UNCHANGED <<chan, micro, timers, done>>
    BY <1>7, <1>12
  <2>2. QueuesOfCases' /\ SendersOnSendChans' /\ MicroOfCases'
    BY <1>0, <2>1, LessOfCases DEF TaskInv
  <2>3. DoneOfCases'
    BY <1>0, <1>5, <2>1, DoneOfCasesStays DEF TaskInv
  <2>4. \A l \in LiveCases(stmt[h]) : l > i => ~CaseReady(stmt[h].cases[l])'
    <3> SUFFICES ASSUME NEW l \in LiveCases(stmt[h]), l > i
                 PROVE  ~CaseReady(stmt[h].cases[l])'
      OBVIOUS
    <3>1. l \in Nat
      BY <1>2, StatementType DEF LiveCases, SelectTypes
    <3>2. ~CaseReady(stmt[h].cases[l])
      BY <1>2, <1>9, <3>1
    <3> QED BY <1>5, <2>1, <3>2 DEF CaseReady
  <2> QED BY <1>11, <2>2, <2>3, <2>4 DEF TaskInv
<1>13. CASE c # Nil
  <2>0. c \in Chans /\ i \in LiveCases(stmt[h]) /\ stmt[h] \in Stmts
    BY <1>2, <1>3, <1>4, <1>8, <1>13 DEF LiveCases
  <2>1. PICK t \in Task : t = CaseTask(h, c, i)
    BY <1>2, <2>0
  <2>2. t.c = c /\ t.g = h /\ t.n = op[h] /\ t.i = i
    BY <2>1 DEF CaseTask
  <2>3. chan[c] \in ChannelState /\ ~CaseReady(k)
    BY <1>0, <1>2, <1>3, <1>9, <2>0 DEF TypeOK
  <2>4. /\ k.isSend => ~chan[c].closed /\ ~HasReceiver(chan[c]) /\ ~HasRoom(c, chan[c])
        /\ ~k.isSend => ~CanReceiveNonBlocking(chan[c])
    BY <1>3, <1>13, <2>3 DEF CaseReady, CanSendNonBlocking
  <2>5. /\ done' = done /\ timers' = timers
        /\ k.isSend => c \in SendChans
        /\ k.isSend => CaseOffers(t, c)
        /\ ~k.isSend => CaseWaits(t, c) /\ sent' = sent
    <3>1. CASE k.isSend
      <4>1. SelectSend(t, c)
        BY <1>7, <1>13, <2>1, <3>1
      <4>2. c \in SendChans
        BY <1>3, <2>0, <3>1 DEF OneSendChan
      <4> QED BY <2>4, <3>1, <4>1, <4>2 DEF SelectSend, CaseOffers
    <3>2. CASE ~k.isSend
      <4>1. SelectReceive(t, c)
        BY <1>7, <1>13, <2>1, <3>2
      <4> QED BY <2>4, <3>2, <4>1 DEF SelectReceive, CaseWaits
    <3> QED BY <3>1, <3>2
  <2>6. Called(t, c)
    BY <1>0, <1>7, <1>13, <2>0, <2>1, <2>5, CaseKinds DEF Called
  <2>7. CaseSends(t, c) => c \in SendChans
    <3>1. ASSUME ~k.isSend, NEW st, RecordSend(c, st) PROVE FALSE
      <4>1. Len(sent') = Len(sent) + 1 /\ Len(sent) \in Nat /\ sent' = sent
        BY <1>0, <2>5, <3>1 DEF RecordSend, TypeOK
      <4> QED BY <4>1
    <3> QED BY <2>5, <3>1 DEF CaseSends
  <2>8. OfCase(t)'
    <3>1. op'[h] = op[h] /\ stmt'[h] = stmt[h] /\ op[h] \in Nat
      BY <1>0, <1>2, <1>5, MaxOpsAssumption DEF TypeOK
    <3> QED BY <1>3, <2>0, <2>2, <3>1 DEF OfCase, LiveCases
  <2>9. QueuesOfCases' /\ SendersOnSendChans' /\ MicroOfCases'
    BY <1>0, <2>0, <2>2, <2>6, <2>7, <2>8, CallOfCases DEF TaskInv
  <2>10. DoneOfCases'
    BY <1>0, <1>5, <2>5, DoneOfCasesStays DEF TaskInv
  <2>11. \A l \in LiveCases(stmt[h]) : l > i => ~CaseReady(stmt[h].cases[l])'
    <3> SUFFICES ASSUME NEW l \in LiveCases(stmt[h]), l > i
                 PROVE  ~CaseReady(stmt[h].cases[l])'
      OBVIOUS
    <3>1. l \in Nat /\ l # i
      BY <1>2, StatementType DEF LiveCases, SelectTypes
    <3>2. PICK m, d : m = stmt[h].cases[l] /\ d = m.c
      OBVIOUS
    <3>3. ~CaseReady(m) /\ m.c = d
      BY <1>2, <1>9, <3>1, <3>2
    <3>4. chan' = [chan EXCEPT ![c] = chan'[c]]
      BY <1>0, <2>0, <2>5 DEF CaseOffers, CaseWaits, TypeOK
    <3>5. d \in Chans
      <4>1. l \in DOMAIN stmt[h].cases /\ m.c # Nil
        BY <3>2 DEF LiveCases
      <4>2. m \in Case
        BY <1>2, <3>2, <4>1, StatementType DEF SelectTypes
      <4> QED BY <3>2, <4>1, <4>2 DEF Case
    <3>6. CASE d # c
      <4>1. chan'[d] = chan[d]
        BY <1>0, <3>4, <3>5, <3>6 DEF TypeOK
      <4>2. ~CaseReady(m)'
        BY <3>3, <4>1 DEF CaseReady
      <4> QED BY <1>5, <3>2, <4>2
    <3>7. CASE d = c
      <4>1. c \notin SendChans
        BY <1>3, <2>0, <3>1, <3>2, <3>7 DEF OneSendChan
      <4>2. ~k.isSend /\ ~m.isSend
        BY <1>3, <2>0, <2>5, <3>2, <3>7, <4>1 DEF OneSendChan
      <4>3. CaseWaits(t, c)
        BY <2>5, <4>2
      <4>4. chan'[c] = [chan[c] EXCEPT !.receiversWithOk = Append(chan[c].receiversWithOk, t)]
        BY <1>0, <2>0, <4>3 DEF CaseWaits, TypeOK
      <4>5. /\ chan'[c].buffer = chan[c].buffer /\ chan'[c].senders = chan[c].senders
            /\ chan'[c].closed = chan[c].closed
        BY <2>3, <4>4 DEF ChannelState
      <4>6. ~CanReceiveNonBlocking(chan'[c])
        BY <4>3, <4>5 DEF CaseWaits, CanReceiveNonBlocking
      <4>7. ~CaseReady(m)'
        BY <3>3, <3>7, <4>2, <4>6 DEF CaseReady
      <4> QED BY <1>5, <3>2, <4>7
    <3> QED BY <3>6, <3>7
  <2> QED BY <1>11, <2>9, <2>10, <2>11 DEF TaskInv
<1> QED BY <1>12, <1>13

LEMMA OneCaseStep ==
  ASSUME OneSendChan
  PROVE  SelectTypes /\ QueueDiscipline /\ OneCaseInv /\ [SelectNext]_allVars => OneCaseInv'
<1> SUFFICES ASSUME SelectTypes, QueueDiscipline, OneCaseInv, [SelectNext]_allVars
             PROVE  OneCaseInv'
  OBVIOUS
<1>0. TaskInv /\ RestNotReady /\ SelectTypes' /\ TypeOK /\ TypeOK'
  BY SelectTypeStep DEF OneCaseInv, TaskInv, SelectTypes, SelectTypeOK
<1> SUFFICES TaskInv' /\ RestNotReady'
  BY DEF OneCaseInv, TaskInv
<1>1. CASE UNCHANGED allVars
  <2>1. UNCHANGED <<chan, micro, pc, op, done, stmt, registering>>
    BY <1>1 DEF allVars, vars
  <2>2. Advances
    BY <1>0, <2>1, MaxOpsAssumption DEF Advances, TypeOK
  <2>3. QueuesOfCases' /\ SendersOnSendChans' /\ MicroOfCases'
    BY <1>0, <2>1, <2>2, LessOfCases DEF TaskInv
  <2>4. DoneOfCases'
    BY <1>0, <2>1, <2>2, DoneOfCasesStays DEF TaskInv
  <2>5. RestNotReady'
    BY <1>0, <2>1 DEF RestNotReady, CaseReady, LiveCases
  <2> QED BY <2>3, <2>4, <2>5 DEF TaskInv
<1>2. CASE SelectNext
  <2>0. Advances
    BY <1>2, Advancing
  <2>1. ASSUME Idle, registering' = registering PROVE RestNotReady'
    BY <2>1 DEF Idle, RestNotReady
  <2>2. CASE Idle /\ Next /\ UNCHANGED selectVars
    BY <1>0, <2>0, <2>1, <2>2, NextOfCases DEF selectVars
  <2>3. ASSUME Idle, NEW g \in G, SelectStatement(g) PROVE TaskInv' /\ RestNotReady'
    BY <1>0, <2>0, <2>3, StatementOfCases
  <2>4. ASSUME Idle, NEW g \in G, SelectResumes(g) PROVE TaskInv' /\ RestNotReady'
    <3>1. PICK o \in done[g] : EndSelect(g, o)
      BY <2>4 DEF SelectResumes
    <3>2. o \in Outcome
      BY <1>0, <3>1 DEF TypeOK
    <3>3. done'[g] = {} /\ \A h \in G : h # g => done'[h] = done[h]
      BY <1>0, <2>4 DEF SelectResumes, TypeOK
    <3>4. TaskInv'
      BY <1>0, <2>0, <3>1, <3>2, <3>3, EndOfCases
    <3>5. RestNotReady'
      BY <2>1, <2>4, <3>1 DEF EndSelect
    <3> QED BY <3>4, <3>5
  <2>5. CASE Idle /\ SelectTimer
    <3>1. PICK j \in Job : j = Head(timers)
      BY <1>0, <2>5 DEF SelectTimer, TimerTurn, TypeOK
    <3>2. j.to.g \in G /\ TimerOutcome(j) \in Outcome
      BY DEF Job, Task, TimerOutcome, Outcome
    <3>3. EndSelect(j.to.g, TimerOutcome(j)) /\ done' = done /\ \A g \in G : done[g] = {}
      BY <2>5, <3>1 DEF SelectTimer, TimerTurn
    <3>4. TaskInv'
      BY <1>0, <2>0, <3>2, <3>3, EndOfCases
    <3>5. RestNotReady'
      BY <2>1, <2>5, <3>3 DEF EndSelect
    <3> QED BY <3>4, <3>5
  <2>6. CASE Idle /\ StaleTimer
    <3>1. UNCHANGED <<chan, micro, pc, op, done, registering>>
      BY <2>6 DEF StaleTimer
    <3>2. QueuesOfCases' /\ SendersOnSendChans' /\ MicroOfCases'
      BY <1>0, <2>0, <3>1, LessOfCases DEF TaskInv
    <3>3. DoneOfCases'
      BY <1>0, <2>0, <3>1, DoneOfCasesStays DEF TaskInv
    <3> QED BY <2>1, <2>6, <3>1, <3>2, <3>3 DEF TaskInv
  <2>7. CASE RegisterCase
    BY <1>0, <2>0, <2>7, RegisterOfCases
  <2> QED BY <1>2, <2>2, <2>3, <2>4, <2>5, <2>6, <2>7 DEF SelectNext
<1> QED BY <1>1, <1>2

\* At most one case of a select communicates when its statements have at most
\* one case on a channel that somebody sends on (receive or send, or stop when
\* the context is done).  Without that two receive cases may both be served.
THEOREM SelectCommitsOnce == ASSUME OneSendChan PROVE SelectSpec => []SelectCommitsOneCase
<1>1. SelectInit => QueueDiscipline /\ OneCaseInv
  <2>1. ASSUME SelectInit PROVE OneCaseInv
    BY <2>1 DEF SelectInit, Init, NewChannel, OneCaseInv, QueuesOfCases, SendersOnSendChans,
                MicroOfCases, DoneOfCases, RestNotReady, Queued, ToSet
  <2> QED BY <2>1, DisciplineInit DEF SelectInit
<1>2. SelectTypes /\ OneCaseInv => SelectCommitsOneCase
  <2> SUFFICES ASSUME SelectTypes, OneCaseInv, NEW g \in G, pc[g] = "selecting"
               PROVE  Cardinality({o.t : o \in done[g]}
                        \cup {t \in {j.to : j \in ToSet(micro)}
                                   \cup {j.from : j \in ToSet(micro)} : OfSelect(t, g)}) <= 1
    BY DEF SelectCommitsOneCase
  <2>1. PICK S : S = {o.t : o \in done[g]}
                       \cup {t \in {j.to : j \in ToSet(micro)}
                                  \cup {j.from : j \in ToSet(micro)} : OfSelect(t, g)}
    OBVIOUS
  <2>2. \A t \in S : t \in Task /\ t.g = g /\ t.n = op[g] /\ t.c \in SendChans /\ OfCase(t)
    <3>1. ASSUME NEW o \in done[g]
          PROVE  o.t \in Task /\ o.t.g = g /\ o.t.n = op[g] /\ o.t.c \in SendChans /\ OfCase(o.t)
      <4>1. o \in Outcome
        BY DEF SelectTypes, SelectTypeOK, TypeOK
      <4> QED BY <4>1 DEF Outcome, OneCaseInv, DoneOfCases
    <3>2. ASSUME NEW j \in ToSet(micro), NEW t \in {j.to, j.from}, OfSelect(t, g)
          PROVE  t \in Task /\ t.g = g /\ t.n = op[g] /\ t.c \in SendChans /\ OfCase(t)
      <4>1. micro \in Seq(Job)
        BY DEF SelectTypes, SelectTypeOK, TypeOK
      <4>2. j \in Job
        BY <4>1, SetOfSeq
      <4>3. t \in Task
        BY <4>2 DEF Job
      <4> QED BY <3>2, <4>3 DEF OneCaseInv, MicroOfCases, OfSelect
    <3> QED BY <2>1, <3>1, <3>2
  <2>3. stmt[g] \in Stmts \/ LiveCases(stmt[g]) = {}
    <3>1. LiveCases(NoStmt) = {}
      BY DEF LiveCases, NoStmt
    <3> QED BY <3>1 DEF SelectTypes, SelectTypeOK
  <2>4. ASSUME NEW t \in S, NEW u \in S PROVE t = u
    <3>1. /\ t.i \in LiveCases(stmt[g]) /\ t.c = stmt[g].cases[t.i].c
          /\ u.i \in LiveCases(stmt[g]) /\ u.c = stmt[g].cases[u.i].c
      BY <2>2 DEF OfCase
    <3>2. t.i = u.i
      BY <2>2, <2>3, <3>1 DEF OneSendChan
    <3>3. t \in Task /\ u \in Task /\ t.g = u.g /\ t.n = u.n /\ t.c = u.c
      BY <2>2, <3>1, <3>2
    <3> QED BY <3>2, <3>3 DEF Task
  <2>5. S = {} \/ \E t : S = {t}
    BY <2>4
  <2>6. Cardinality(S) <= 1
    <3>1. CASE S = {}
      <4>1. Cardinality(S) = 0
        BY <3>1, FS_EmptySet
      <4> QED BY <4>1
    <3>2. ASSUME NEW t, S = {t} PROVE Cardinality(S) <= 1
      <4>1. Cardinality({t}) = 1
        BY FS_Singleton
      <4> QED BY <3>2, <4>1
    <3> QED BY <2>5, <3>1, <3>2
  <2> QED BY <2>1, <2>6
<1> QED BY <1>1, <1>2, SelectTypeInit, SelectTypeStep, SelectDisciplineStep, OneCaseStep,
        PTL DEF SelectSpec
=============================================================================
