--------------------------- MODULE SequenceFacts ---------------------------
(***************************************************************************)
(* Facts about sequences and their members that the proofs of the other    *)
(* modules share: queues that grow at one end and lose their head at the   *)
(* other.                                                                  *)
(***************************************************************************)
EXTENDS Naturals, Sequences, FiniteSets, SequencesExt, WellFoundedInduction, TLAPS

\* A set of numbers that is not empty has a least member.
LEMMA NatMin ==
  ASSUME NEW T, T \subseteq Nat, T # {}
  PROVE  \E m \in T : \A k \in T : m <= k
<1>1. \E x \in T : \A y \in T : ~ (<<y, x>> \in OpToRel(<, Nat))
  BY NatLessThanWellFounded, WFMin
<1>2. PICK x \in T : \A y \in T : ~ (<<y, x>> \in OpToRel(<, Nat))
  BY <1>1
<1>3. \A y \in T : ~(y < x)
  BY <1>2 DEF OpToRel
<1> QED BY <1>3

\* A queue loses its head or grows at its end.
LEMMA SeqSteps ==
  ASSUME NEW R, NEW s \in Seq(R)
  PROVE  /\ Len(s) \in Nat
         /\ \A k \in 1..Len(s) : s[k] \in R
         /\ s # <<>> => /\ Head(s) = s[1] /\ Head(s) \in R /\ Len(s) >= 1
                        /\ Tail(s) \in Seq(R) /\ Len(Tail(s)) = Len(s) - 1
                        /\ \A k \in 1..Len(Tail(s)) :
                             k + 1 \in 2..Len(s) /\ Tail(s)[k] = s[k + 1]
         /\ \A x \in R : /\ Append(s, x) \in Seq(R)
                         /\ Len(Append(s, x)) = Len(s) + 1
                         /\ \A k \in 1..Len(s) : Append(s, x)[k] = s[k]
                         /\ Append(s, x)[Len(s) + 1] = x
                         /\ \A k \in 1..Len(Append(s, x)) :
                              \/ k \in 1..Len(s) /\ Append(s, x)[k] = s[k]
                              \/ k = Len(s) + 1 /\ Append(s, x)[k] = x
OBVIOUS

\* The members of a queue that grows at its end or loses its head.
LEMMA SetOfSeq ==
  ASSUME NEW R, NEW s \in Seq(R)
  PROVE  /\ ToSet(s) \subseteq R
         /\ \A x : x \in ToSet(s) <=> \E k \in 1..Len(s) : s[k] = x
         /\ \A x \in R : ToSet(Append(s, x)) = ToSet(s) \cup {x}
         /\ s # <<>> => ToSet(s) = ToSet(Tail(s)) \cup {Head(s)}
         /\ s = <<>> <=> ToSet(s) = {}
<1>1. ToSet(s) = {s[k] : k \in 1..Len(s)}
  BY DEF ToSet
<1>2. \A x : x \in ToSet(s) <=> \E k \in 1..Len(s) : s[k] = x
  BY <1>1
<1>3. \A x \in R : ToSet(Append(s, x)) = ToSet(s) \cup {x}
  <2> TAKE x \in R
  <2>1. /\ Len(Append(s, x)) = Len(s) + 1 /\ Append(s, x) \in Seq(R)
        /\ \A k \in 1..Len(s) : Append(s, x)[k] = s[k]
        /\ Append(s, x)[Len(s) + 1] = x
    OBVIOUS
  <2>2. ToSet(Append(s, x)) = {Append(s, x)[k] : k \in 1..(Len(s) + 1)}
    BY <2>1 DEF ToSet
  <2> QED BY <1>1, <2>1, <2>2
<1>4. ASSUME s # <<>> PROVE ToSet(s) = ToSet(Tail(s)) \cup {Head(s)}
  <2>1. /\ Len(Tail(s)) = Len(s) - 1 /\ Head(s) = s[1] /\ Tail(s) \in Seq(R)
        /\ Len(s) \in Nat /\ Len(s) >= 1
        /\ \A k \in 1..(Len(s) - 1) : Tail(s)[k] = s[k + 1]
    BY <1>4
  <2>2. ToSet(Tail(s)) = {Tail(s)[k] : k \in 1..(Len(s) - 1)}
    <3>1. DOMAIN Tail(s) = 1..(Len(s) - 1)
      BY <2>1
    <3> QED BY <3>1 DEF ToSet
  <2>3. \A k \in 1..Len(s) : k = 1 \/ (k - 1 \in 1..(Len(s) - 1) /\ s[k] = Tail(s)[k - 1])
    BY <2>1
  <2>4. ToSet(s) \subseteq ToSet(Tail(s)) \cup {Head(s)}
    BY <1>1, <2>1, <2>2, <2>3
  <2>5. ToSet(Tail(s)) \cup {Head(s)} \subseteq ToSet(s)
    BY <1>1, <2>1, <2>2
  <2> QED BY <2>4, <2>5
<1>5. s = <<>> <=> ToSet(s) = {}
  BY <1>1
<1>6. ToSet(s) \subseteq R
  BY <1>1
<1> QED BY <1>2, <1>3, <1>4, <1>5, <1>6

\* The members of two queues joined.
LEMMA SetOfConcat ==
  ASSUME NEW R, NEW s \in Seq(R), NEW t \in Seq(R)
  PROVE  ToSet(s \o t) = ToSet(s) \cup ToSet(t)
<1>1. /\ s \o t \in Seq(R) /\ Len(s \o t) = Len(s) + Len(t)
      /\ \A k \in 1..Len(s) : (s \o t)[k] = s[k]
      /\ \A k \in 1..Len(t) : (s \o t)[Len(s) + k] = t[k]
  OBVIOUS
<1>2. \A k \in 1..Len(s \o t) :
        k \in 1..Len(s) \/ (k - Len(s) \in 1..Len(t) /\ k = Len(s) + (k - Len(s)))
  BY <1>1
<1>3. \A x : x \in ToSet(s \o t) <=> \E k \in 1..Len(s \o t) : (s \o t)[k] = x
  BY <1>1, SetOfSeq
<1>4. \A x \in ToSet(s \o t) : x \in ToSet(s) \cup ToSet(t)
  <2> TAKE x \in ToSet(s \o t)
  <2>1. PICK k \in 1..Len(s \o t) : (s \o t)[k] = x
    BY <1>3
  <2>2. CASE k \in 1..Len(s)
    BY <2>1, <2>2, <1>1, SetOfSeq
  <2>3. CASE k - Len(s) \in 1..Len(t)
    BY <2>1, <2>3, <1>1, SetOfSeq
  <2> QED BY <1>2, <2>2, <2>3
<1>5. \A x \in ToSet(s) \cup ToSet(t) : x \in ToSet(s \o t)
  <2> TAKE x \in ToSet(s) \cup ToSet(t)
  <2>1. CASE x \in ToSet(s)
    <3>1. PICK k \in 1..Len(s) : s[k] = x
      BY <2>1, SetOfSeq
    <3>2. k \in 1..Len(s \o t) /\ (s \o t)[k] = x
      BY <3>1, <1>1
    <3> QED BY <1>3, <3>2
  <2>2. CASE x \in ToSet(t)
    <3>1. PICK k \in 1..Len(t) : t[k] = x
      BY <2>2, SetOfSeq
    <3>2. Len(s) + k \in 1..Len(s \o t) /\ (s \o t)[Len(s) + k] = x
      BY <3>1, <1>1
    <3> QED BY <1>3, <3>2
  <2> QED BY <2>1, <2>2
<1> QED BY <1>4, <1>5

\* What is joined to the end of a queue leaves it as a prefix.
LEMMA PrefixGrows ==
  ASSUME NEW R, NEW s \in Seq(R), NEW t \in Seq(R)
  PROVE  IsPrefix(s, s \o t)
<1>1. /\ s \o t \in Seq(R) /\ Len(s) <= Len(s \o t) /\ Len(s) \in Nat /\ Len(s \o t) \in Nat
      /\ \A k \in 1..Len(s) : (s \o t)[k] = s[k]
  OBVIOUS
<1>2. SubSeq(s \o t, 1, Len(s)) = SubSeq(s, 1, Len(s))
  BY <1>1
<1> QED BY <1>1, <1>2 DEF IsPrefix

\* A function on 1..n is a sequence.
LEMMA FunctionIsSeq ==
  ASSUME NEW R, NEW n \in Nat, NEW f \in [1..n -> R]
  PROVE  f \in Seq(R) /\ Len(f) = n
OBVIOUS

\* The k elements after the first i.
LEMMA PartElements ==
  ASSUME NEW R, NEW s \in Seq(R), NEW i \in Nat, NEW k \in Nat, i + k <= Len(s)
  PROVE  /\ SubSeq(s, i + 1, i + k) \in Seq(R) /\ Len(SubSeq(s, i + 1, i + k)) = k
         /\ \A j \in 1..k : i + j \in 1..Len(s) /\ SubSeq(s, i + 1, i + k)[j] = s[i + j]
OBVIOUS

\* Sequences with the same elements are equal.
LEMMA SameElements ==
  ASSUME NEW R, NEW s \in Seq(R), NEW t \in Seq(R), Len(s) = Len(t),
         \A k \in 1..Len(s) : s[k] = t[k]
  PROVE  s = t
OBVIOUS

\* The elements of two sequences joined.
LEMMA ConcatParts ==
  ASSUME NEW R, NEW b \in Seq(R), NEW w \in Seq(R)
  PROVE  /\ b \o w \in Seq(R) /\ Len(b \o w) = Len(b) + Len(w)
         /\ Len(b) \in Nat /\ Len(w) \in Nat
         /\ \A k \in 1..Len(b) : (b \o w)[k] = b[k]
         /\ \A k \in (Len(b) + 1)..(Len(b) + Len(w)) : (b \o w)[k] = w[k - Len(b)]
OBVIOUS

\* A line made of two parts.
LEMMA Joined ==
  ASSUME NEW R, NEW b \in Seq(R), NEW w \in Seq(R)
  PROVE  /\ b \o w \in Seq(R) /\ Len(b \o w) = Len(b) + Len(w)
         /\ b \o <<>> = b /\ <<>> \o w = w
         /\ \A x \in R : b \o Append(w, x) = Append(b \o w, x)
         /\ b # <<>> => /\ b \o w # <<>> /\ Head(b \o w) = Head(b)
                        /\ Tail(b) \o w = Tail(b \o w)
                        /\ w # <<>> => Append(Tail(b), Head(w)) \o Tail(w) = Tail(b \o w)
         /\ SubSeq(b \o w, 1, Len(b)) = b
<1>1. /\ b \o w \in Seq(R) /\ Len(b \o w) = Len(b) + Len(w)
      /\ Len(b) \in Nat /\ Len(w) \in Nat
      /\ \A k \in 1..Len(b) : (b \o w)[k] = b[k]
      /\ \A k \in (Len(b) + 1)..(Len(b) + Len(w)) : (b \o w)[k] = w[k - Len(b)]
  BY ConcatParts
<1>0. b \o <<>> = b /\ <<>> \o w = w
  OBVIOUS
<1>2. ASSUME NEW x \in R PROVE b \o Append(w, x) = Append(b \o w, x)
  <2>1. /\ Append(w, x) \in Seq(R) /\ Len(Append(w, x)) = Len(w) + 1
        /\ \A k \in 1..Len(w) : Append(w, x)[k] = w[k]
        /\ Append(w, x)[Len(w) + 1] = x
    OBVIOUS
  <2> DEFINE u == b \o w
  <2> HIDE DEF u
  <2>2. /\ Append(u, x) \in Seq(R) /\ Len(Append(u, x)) = Len(u) + 1
        /\ \A k \in 1..Len(u) : Append(u, x)[k] = u[k]
        /\ Append(u, x)[Len(u) + 1] = x
    <3>1. u \in Seq(R)
      BY <1>1 DEF u
    <3> QED BY <3>1
  <2> DEFINE a == Append(w, x)
  <2> HIDE DEF a
  <2>3. /\ b \o a \in Seq(R) /\ Len(b \o a) = Len(b) + Len(a)
        /\ \A k \in 1..Len(b) : (b \o a)[k] = b[k]
        /\ \A k \in (Len(b) + 1)..Len(b \o a) : (b \o a)[k] = a[k - Len(b)]
    <3>1. a \in Seq(R)
      BY <2>1 DEF a
    <3> QED BY <3>1
  <2>4. Len(b \o a) = Len(Append(u, x))
    BY <1>1, <2>1, <2>2, <2>3 DEF a, u
  <2> DEFINE l == b \o a
             r == Append(u, x)
  <2>5. ASSUME NEW k \in 1..Len(l) PROVE l[k] = r[k]
    <3>1. CASE k \in 1..Len(b)
      BY <1>1, <2>2, <2>3, <2>4, <3>1 DEF u
    <3>2. CASE k \in (Len(b) + 1)..(Len(b) + Len(w))
      <4>1. l[k] = w[k - Len(b)]
        BY <1>1, <2>1, <2>3, <3>2 DEF a
      <4>2. r[k] = u[k] /\ u[k] = w[k - Len(b)]
        BY <1>1, <2>2, <3>2 DEF u
      <4> QED BY <4>1, <4>2
    <3>3. CASE k = Len(b) + Len(w) + 1
      BY <1>1, <2>1, <2>2, <2>3, <3>3 DEF a, u
    <3>4. Len(l) = Len(b) + Len(w) + 1
      BY <1>1, <2>1, <2>3 DEF a
    <3>5. k \in 1..(Len(b) + Len(w) + 1)
      BY <3>4
    <3> HIDE DEF l, r
    <3> QED BY <1>1, <3>1, <3>2, <3>3, <3>5, SMTT(30)
  <2>6. l \in Seq(R) /\ r \in Seq(R)
    BY <2>2, <2>3
  <2> HIDE DEF l, r
  <2>7. l = r
    BY <2>4, <2>5, <2>6, SameElements DEF l, r
  <2> QED BY <2>7 DEF l, r, a, u
<1>5. SubSeq(b \o w, 1, Len(b)) = b
  <2> DEFINE u == b \o w
  <2> HIDE DEF u
  <2>1. u \in Seq(R) /\ Len(b) <= Len(u) /\ \A k \in 1..Len(b) : u[k] = b[k]
    BY <1>1 DEF u
  <2>2. /\ SubSeq(u, 1, Len(b)) \in Seq(R) /\ Len(SubSeq(u, 1, Len(b))) = Len(b)
        /\ \A k \in 1..Len(b) : SubSeq(u, 1, Len(b))[k] = u[k]
    BY <1>1, <2>1
  <2> QED BY <2>1, <2>2, SameElements DEF u
<1>3. ASSUME b # <<>>
      PROVE  /\ b \o w # <<>> /\ Head(b \o w) = Head(b)
             /\ Tail(b) \o w = Tail(b \o w)
             /\ w # <<>> => Append(Tail(b), Head(w)) \o Tail(w) = Tail(b \o w)
  <2> DEFINE u == b \o w
             t == Tail(b)
             l == Tail(u)
  <2>b. /\ Len(b) >= 1 /\ Head(b) = b[1] /\ t \in Seq(R) /\ Len(t) = Len(b) - 1
        /\ \A k \in 1..Len(t) : t[k] = b[k + 1] /\ k + 1 \in 1..Len(b)
    BY <1>3
  <2> HIDE DEF u
  <2>u. u \in Seq(R) /\ Len(u) = Len(b) + Len(w) /\ u # <<>>
    <3>1. u \in Seq(R) /\ Len(u) = Len(b) + Len(w)
      BY <1>1 DEF u
    <3> QED BY <1>1, <2>b, <3>1
  <2>1. /\ u # <<>> /\ Head(u) = Head(b) 
    <3>1. u \in Seq(R) /\ Len(u) >= 1 /\ u[1] = b[1]
      BY <1>1, <2>b DEF u
    <3> QED BY <2>b, <3>1
  <2>l. /\ l \in Seq(R) /\ Len(l) = Len(u) - 1
        /\ \A k \in 1..Len(l) : l[k] = u[k + 1]
    BY <2>u
  <2> HIDE DEF t, l
  <2>2. t \o w = l
    <3>1. /\ t \o w \in Seq(R) /\ Len(t \o w) = Len(t) + Len(w)
          /\ \A k \in 1..Len(t) : (t \o w)[k] = t[k]
          /\ \A k \in (Len(t) + 1)..(Len(t) + Len(w)) : (t \o w)[k] = w[k - Len(t)]
      BY <2>b, ConcatParts, ZenonT(30)
    <3>2. Len(t \o w) = Len(l)
      BY <1>1, <2>b, <2>u, <2>l, <3>1
    <3>3. ASSUME NEW k \in 1..Len(t \o w) PROVE (t \o w)[k] = l[k]
      <4>0. l[k] = u[k + 1]
        BY <2>l, <3>2
      <4>1. CASE k \in 1..Len(t)
        <5>1. u[k + 1] = b[k + 1]
          BY <1>1, <2>b, <4>1 DEF u
        <5> QED BY <2>b, <3>1, <4>0, <4>1, <5>1
      <4>2. CASE k \in (Len(t) + 1)..(Len(t) + Len(w))
        <5>1. u[k + 1] = w[k + 1 - Len(b)] /\ k + 1 - Len(b) = k - Len(t)
          BY <1>1, <2>b, <4>2 DEF u
        <5> QED BY <3>1, <4>0, <4>2, <5>1
      <4> QED BY <1>1, <2>b, <3>1, <4>1, <4>2
    <3> HIDE DEF t
    <3> QED BY <2>l, <3>1, <3>2, <3>3, SameElements
  <2>3. ASSUME w # <<>> PROVE Append(t, Head(w)) \o Tail(w) = l
    <3> DEFINE a == Append(t, Head(w))
               z == Tail(w)
               m == a \o z
    <3>1. /\ Head(w) \in R /\ Head(w) = w[1] /\ z \in Seq(R) /\ Len(z) = Len(w) - 1 /\ Len(w) >= 1
          /\ \A k \in 1..Len(z) : z[k] = w[k + 1] /\ k + 1 \in 1..Len(w)
      BY <2>3
    <3>2. /\ a \in Seq(R) /\ Len(a) = Len(t) + 1 /\ a[Len(t) + 1] = w[1]
          /\ \A k \in 1..Len(t) : a[k] = t[k]
      BY <2>b, <3>1
    <3> HIDE DEF a, z
    <3>3. /\ m \in Seq(R) /\ Len(m) = Len(a) + Len(z)
          /\ \A k \in 1..Len(a) : m[k] = a[k]
          /\ \A k \in (Len(a) + 1)..(Len(a) + Len(z)) : m[k] = z[k - Len(a)]
      <4>1. a \in Seq(R) /\ z \in Seq(R)
        BY <3>1, <3>2
      <4> QED BY <4>1, ConcatParts
    <3> HIDE DEF m
    <3>4. Len(m) = Len(l)
      BY <1>1, <2>b, <2>u, <2>l, <3>1, <3>2, <3>3
    <3>5. ASSUME NEW k \in 1..Len(m) PROVE m[k] = l[k]
      <4>0. l[k] = u[k + 1]
        BY <2>l, <3>4
      <4>1. CASE k \in 1..Len(t)
        <5>1. u[k + 1] = b[k + 1]
          BY <1>1, <2>b, <4>1 DEF u
        <5>2. m[k] = a[k]
          BY <2>b, <3>2, <3>3, <4>1
        <5> QED BY <2>b, <3>2, <4>0, <4>1, <5>1, <5>2
      <4>2. CASE k = Len(t) + 1
        <5>1. u[k + 1] = w[1]
          BY <1>1, <2>b, <3>1, <4>2 DEF u
        <5>2. m[k] = a[k]
          BY <2>b, <3>2, <3>3, <4>2
        <5> QED BY <3>2, <4>0, <4>2, <5>1, <5>2
      <4>3. CASE k \in (Len(a) + 1)..(Len(a) + Len(z))
        <5>1. u[k + 1] = w[k + 1 - Len(b)]
          BY <1>1, <2>b, <3>1, <3>2, <4>3 DEF u
        <5>2. m[k] = z[k - Len(a)] /\ k - Len(a) \in 1..Len(z)
          BY <2>b, <3>1, <3>2, <3>3, <4>3
        <5>3. z[k - Len(a)] = w[k - Len(a) + 1]
          BY <3>1, <5>2
        <5>4. k - Len(a) + 1 = k + 1 - Len(b)
          BY <1>1, <2>b, <3>2, <4>3
        <5> QED BY <4>0, <5>1, <5>2, <5>3, <5>4
      <4> QED BY <2>b, <3>1, <3>2, <3>3, <4>1, <4>2, <4>3
    <3>6. m = l
      BY <2>l, <3>3, <3>4, <3>5, SameElements
    <3> QED BY <3>6 DEF m, a, z
  <2> QED BY <2>1, <2>2, <2>3 DEF u, t, l
<1> QED BY <1>0, <1>1, <1>2, <1>3, <1>5

-----------------------------------------------------------------------------
\* In a queue of Keyed members no two have the same key: nobody stands in it
\* twice.
Keyed(s, K) == \A k, l \in 1..Len(s) : K[s[k]] = K[s[l]] => k = l

LEMMA KeyedTail ==
  ASSUME NEW R, NEW K, NEW s \in Seq(R), s # <<>>, Keyed(s, K)
  PROVE  /\ Head(s) \in ToSet(s) /\ Keyed(Tail(s), K)
         /\ \A x \in ToSet(Tail(s)) : K[x] # K[Head(s)]
         /\ \A x : x \in ToSet(Tail(s)) <=> x \in ToSet(s) /\ K[x] # K[Head(s)]
<1>1. /\ Head(s) = s[1] /\ 1 \in 1..Len(s) /\ Tail(s) \in Seq(R)
      /\ \A k \in 1..Len(Tail(s)) :
           k + 1 \in 1..Len(s) /\ k + 1 # 1 /\ Tail(s)[k] = s[k + 1]
  OBVIOUS
<1>2. \A k \in 1..Len(Tail(s)) : K[Tail(s)[k]] # K[Head(s)]
  BY <1>1 DEF Keyed
<1>3. \A x \in ToSet(Tail(s)) : K[x] # K[Head(s)]
  <2> TAKE x \in ToSet(Tail(s))
  <2>1. PICK k \in 1..Len(Tail(s)) : Tail(s)[k] = x
    BY <1>1, SetOfSeq
  <2> QED BY <1>2, <2>1
<1>4. ToSet(s) = ToSet(Tail(s)) \cup {Head(s)}
  BY SetOfSeq
<1>5. Keyed(Tail(s), K)
  <2> SUFFICES ASSUME NEW k \in 1..Len(Tail(s)), NEW l \in 1..Len(Tail(s)),
                      K[Tail(s)[k]] = K[Tail(s)[l]]
               PROVE  k = l
    BY DEF Keyed
  <2>1. k + 1 = l + 1
    BY <1>1 DEF Keyed
  <2> QED BY <2>1
<1> QED BY <1>3, <1>4, <1>5

\* A Keyed queue that loses its head loses one member.
LEMMA KeyedHead ==
  ASSUME NEW R, NEW K, NEW s \in Seq(R), s # <<>>, Keyed(s, K)
  PROVE  Head(s) \in ToSet(s) /\ ToSet(Tail(s)) = ToSet(s) \ {Head(s)}
<1>1. ToSet(s) = ToSet(Tail(s)) \cup {Head(s)}
  BY SetOfSeq
<1>2. \A x \in ToSet(Tail(s)) : K[x] # K[Head(s)]
  BY KeyedTail
<1> QED BY <1>1, <1>2

LEMMA KeyedAppend ==
  ASSUME NEW R, NEW K, NEW s \in Seq(R), Keyed(s, K),
         NEW y \in R, \A x \in ToSet(s) : K[x] # K[y]
  PROVE  Keyed(Append(s, y), K)
<1>1. \A k \in 1..Len(s) : K[s[k]] # K[y]
  BY SetOfSeq
<1>2. \A k \in 1..Len(Append(s, y)) : \/ k \in 1..Len(s) /\ Append(s, y)[k] = s[k]
                                      \/ k = Len(s) + 1 /\ Append(s, y)[k] = y
  BY SeqSteps
<1> QED BY <1>1, <1>2 DEF Keyed

LEMMA KeyedConcat ==
  ASSUME NEW R, NEW K, NEW s \in Seq(R), NEW t \in Seq(R), Keyed(s, K), Keyed(t, K),
         \A x \in ToSet(s), y \in ToSet(t) : K[x] # K[y]
  PROVE  Keyed(s \o t, K)
<1>1. /\ Len(s) \in Nat /\ Len(t) \in Nat
      /\ \A k \in 1..Len(s \o t) :
           \/ k \in 1..Len(s) /\ (s \o t)[k] = s[k]
           \/ k - Len(s) \in 1..Len(t) /\ (s \o t)[k] = t[k - Len(s)]
      /\ \A k \in 1..Len(s \o t) : k \in Int
  OBVIOUS
<1>2. \A k \in 1..Len(s), l \in 1..Len(t) : K[s[k]] # K[t[l]]
  BY SetOfSeq
<1> SUFFICES ASSUME NEW k \in 1..Len(s \o t), NEW l \in 1..Len(s \o t),
                    K[(s \o t)[k]] = K[(s \o t)[l]]
             PROVE  k = l
  BY DEF Keyed
<1>3. CASE k \in 1..Len(s) /\ (s \o t)[k] = s[k]
  <2>1. l \in 1..Len(s) /\ (s \o t)[l] = s[l]
    BY <1>1, <1>2, <1>3
  <2> QED BY <1>3, <2>1 DEF Keyed
<1>4. CASE k - Len(s) \in 1..Len(t) /\ (s \o t)[k] = t[k - Len(s)]
  <2>1. l - Len(s) \in 1..Len(t) /\ (s \o t)[l] = t[l - Len(s)]
    BY <1>1, <1>2, <1>4
  <2>2. k - Len(s) = l - Len(s)
    BY <1>4, <2>1 DEF Keyed
  <2> QED BY <1>1, <2>2
<1> QED BY <1>1, <1>3, <1>4
=============================================================================
