---------------------------- MODULE QueueTheorems ----------------------------
(***************************************************************************)
(* Facts about queues: sequences in which no element occurs twice, as the  *)
(* intrusive thread->next lists of the kernel are.                         *)
(***************************************************************************)
EXTENDS Integers, Sequences, Functions, TLAPS

-----------------------------------------------------------------------------
(* Sequences                                                               *)

\* A sequence is a function on its positions.
LEMMA SeqLen ==
  ASSUME NEW S, NEW q \in Seq(S)
  PROVE  Len(q) \in Nat /\ q \in [1..Len(q) -> S] /\ DOMAIN q = 1..Len(q)
OBVIOUS

\* Only the empty sequence has no positions.
LEMMA SeqEmpty ==
  ASSUME NEW S
  PROVE  /\ <<>> \in Seq(S) /\ Len(<<>>) = 0
         /\ \A q \in Seq(S) : q # <<>> => Len(q) \in Nat \ {0}
OBVIOUS

\* Where an appended element and the old ones are.
LEMMA SeqAppend ==
  ASSUME NEW S, NEW q \in Seq(S), NEW x \in S
  PROVE  /\ Append(q, x) \in Seq(S) /\ Append(q, x) # <<>>
         /\ Len(Append(q, x)) = Len(q) + 1
         /\ \A i \in 1..Len(q) : Append(q, x)[i] = q[i]
         /\ Append(q, x)[Len(q) + 1] = x
OBVIOUS

\* Where the elements of two sequences are in their concatenation.
LEMMA SeqConcat ==
  ASSUME NEW S, NEW p \in Seq(S), NEW q \in Seq(S)
  PROVE  /\ p \o q \in Seq(S) /\ Len(p \o q) = Len(p) + Len(q)
         /\ \A i \in 1..(Len(p) + Len(q)) :
              (p \o q)[i] = IF i <= Len(p) THEN p[i] ELSE q[i - Len(p)]
OBVIOUS

\* The head of a sequence and what follows it.
LEMMA SeqTail ==
  ASSUME NEW S, NEW q \in Seq(S), q # <<>>
  PROVE  /\ Head(q) \in S /\ Head(q) = q[1]
         /\ Tail(q) \in Seq(S) /\ Len(Tail(q)) = Len(q) - 1
         /\ \A i \in 1..Len(Tail(q)) : Tail(q)[i] = q[i + 1]
OBVIOUS

\* A piece of a sequence.
LEMMA SeqSub ==
  ASSUME NEW S, NEW q, NEW m \in Int, NEW n \in Int, \A i \in m..n : q[i] \in S
  PROVE  /\ SubSeq(q, m, n) \in Seq(S)
         /\ Len(SubSeq(q, m, n)) = IF m <= n THEN n - m + 1 ELSE 0
         /\ \A i \in 1..(n - m + 1) : SubSeq(q, m, n)[i] = q[m + i - 1]
OBVIOUS

\* Sequences that agree everywhere.
LEMMA SameSeq ==
  ASSUME NEW S, NEW s \in Seq(S), NEW t \in Seq(S), Len(s) = Len(t),
         \A i \in 1..Len(s) : s[i] = t[i]
  PROVE  s = t
OBVIOUS

\* Concatenation is associative.
LEMMA ConcatThree ==
  ASSUME NEW S, NEW a \in Seq(S), NEW b \in Seq(S), NEW c \in Seq(S)
  PROVE  (a \o b) \o c = a \o (b \o c)
<1>1. PICK k \in Nat, l \in Nat, m \in Nat : k = Len(a) /\ l = Len(b) /\ m = Len(c)
  BY SeqLen
<1>2. PICK d \in Seq(S), e \in Seq(S) :
        /\ d = a \o b /\ Len(d) = k + l
        /\ \A i \in 1..(k + l) : d[i] = IF i <= k THEN a[i] ELSE b[i - k]
        /\ e = b \o c /\ Len(e) = l + m
        /\ \A i \in 1..(l + m) : e[i] = IF i <= l THEN b[i] ELSE c[i - l]
  <2>1. /\ a \o b \in Seq(S) /\ Len(a \o b) = k + l
        /\ \A i \in 1..(k + l) : (a \o b)[i] = IF i <= k THEN a[i] ELSE b[i - k]
    BY <1>1, SeqConcat, Zenon
  <2>2. /\ b \o c \in Seq(S) /\ Len(b \o c) = l + m
        /\ \A i \in 1..(l + m) : (b \o c)[i] = IF i <= l THEN b[i] ELSE c[i - l]
    BY <1>1, SeqConcat, Zenon
  <2> QED BY ONLY <2>1, <2>2, Zenon
<1>3. PICK u \in Seq(S), v \in Seq(S) :
        /\ u = d \o c /\ Len(u) = (k + l) + m
        /\ \A i \in 1..((k + l) + m) : u[i] = IF i <= k + l THEN d[i] ELSE c[i - (k + l)]
        /\ v = a \o e /\ Len(v) = k + (l + m)
        /\ \A i \in 1..(k + (l + m)) : v[i] = IF i <= k THEN a[i] ELSE e[i - k]
  <2>1. /\ d \o c \in Seq(S) /\ Len(d \o c) = Len(d) + Len(c)
        /\ \A i \in 1..(Len(d) + Len(c)) :
             (d \o c)[i] = IF i <= Len(d) THEN d[i] ELSE c[i - Len(d)]
    BY ONLY d \in Seq(S), c \in Seq(S), SeqConcat, Zenon
  <2>2. /\ a \o e \in Seq(S) /\ Len(a \o e) = Len(a) + Len(e)
        /\ \A i \in 1..(Len(a) + Len(e)) :
             (a \o e)[i] = IF i <= Len(a) THEN a[i] ELSE e[i - Len(a)]
    BY ONLY a \in Seq(S), e \in Seq(S), SeqConcat, Zenon
  <2>3. Len(a) = k /\ Len(c) = m /\ Len(d) = k + l /\ Len(e) = l + m
    BY <1>1, <1>2, Zenon
  <2>4. /\ d \o c \in Seq(S) /\ Len(d \o c) = (k + l) + m
        /\ \A i \in 1..((k + l) + m) :
             (d \o c)[i] = IF i <= k + l THEN d[i] ELSE c[i - (k + l)]
    BY ONLY <2>1, <2>3, Zenon
  <2>5. /\ a \o e \in Seq(S) /\ Len(a \o e) = k + (l + m)
        /\ \A i \in 1..(k + (l + m)) : (a \o e)[i] = IF i <= k THEN a[i] ELSE e[i - k]
    BY ONLY <2>2, <2>3, Zenon
  <2> QED BY ONLY <2>4, <2>5, Zenon
<1>4. Len(u) = Len(v) /\ Len(u) = k + l + m
  BY ONLY <1>3, k \in Nat, l \in Nat, m \in Nat
<1>5. ASSUME NEW i \in 1..Len(u) PROVE u[i] = v[i]
  <2>0. i \in 1..(k + l + m) /\ k \in Nat /\ l \in Nat /\ m \in Nat
    BY <1>4, Zenon
  <2>1. CASE i <= k
    <3>1. i \in 1..((k + l) + m) /\ i <= k + l /\ i \in 1..(k + l) /\ i \in 1..(k + (l + m))
      BY ONLY <2>0, <2>1
    <3> QED BY ONLY <1>2, <1>3, <2>1, <3>1, Zenon
  <2>2. CASE ~(i <= k) /\ i <= k + l
    <3>1. /\ i \in 1..((k + l) + m) /\ i \in 1..(k + l) /\ i \in 1..(k + (l + m))
          /\ i - k \in 1..(l + m) /\ i - k <= l
      BY ONLY <2>0, <2>2
    <3> QED BY ONLY <1>2, <1>3, <2>2, <3>1, Zenon
  <2>3. CASE ~(i <= k + l)
    <3>1. /\ i \in 1..((k + l) + m) /\ i \in 1..(k + (l + m)) /\ ~(i <= k)
          /\ i - k \in 1..(l + m) /\ ~(i - k <= l) /\ (i - k) - l = i - (k + l)
      BY ONLY <2>0, <2>3
    <3> QED BY ONLY <1>2, <1>3, <2>3, <3>1, Zenon
  <2> QED BY <2>1, <2>2, <2>3, Zenon
<1> QED BY ONLY <1>2, <1>3, <1>4, <1>5, SameSeq, Zenon

-----------------------------------------------------------------------------
(* Queues                                                                  *)

\* The elements of a sequence, by position.
LEMMA RangeAt ==
  ASSUME NEW S, NEW q \in Seq(S)
  PROVE  /\ \A x : x \in Range(q) <=> \E i \in 1..Len(q) : q[i] = x
         /\ IsInjective(q) <=> \A i, j \in 1..Len(q) : q[i] = q[j] => i = j
         /\ Len(q) \in Nat
         /\ \A i \in 1..Len(q) : q[i] \in S
BY SeqLen, Zenon DEF IsInjective, Range

\* Appending a new element keeps a queue free of repetition.
LEMMA AppendQueue ==
  ASSUME NEW S, NEW q \in Seq(S), NEW x \in S, IsInjective(q), x \notin Range(q)
  PROVE  /\ Append(q, x) \in Seq(S) /\ Append(q, x) # <<>>
         /\ IsInjective(Append(q, x))
         /\ \A y : y \in Range(Append(q, x)) <=> y \in Range(q) \/ y = x
<1> DEFINE r == Append(q, x)
<1>1. /\ r \in Seq(S) /\ r # <<>> /\ Len(r) = Len(q) + 1 /\ r[Len(q) + 1] = x
      /\ \A i \in 1..Len(q) : r[i] = q[i]
  BY SeqAppend
<1>2. \A i \in 1..Len(q) : q[i] # x
  BY RangeAt
<1> HIDE DEF r
<1>3. /\ \A i \in 1..Len(r) : i = Len(q) + 1 \/ i \in 1..Len(q)
      /\ \A i \in 1..Len(q) : i \in 1..Len(r)
      /\ Len(q) + 1 \in 1..Len(r)
  BY <1>1, RangeAt
<1>4. IsInjective(r)
  BY <1>1, <1>2, <1>3, RangeAt
<1>5. \A y : y \in Range(r) <=> y \in Range(q) \/ y = x
  BY <1>1, <1>3, RangeAt
<1> QED BY <1>1, <1>4, <1>5 DEF r

\* Taking the head off removes exactly it.
LEMMA TailQueue ==
  ASSUME NEW S, NEW q \in Seq(S), q # <<>>, IsInjective(q)
  PROVE  /\ Head(q) \in S /\ Head(q) \in Range(q) /\ Head(q) = q[1]
         /\ Tail(q) \in Seq(S)
         /\ IsInjective(Tail(q))
         /\ \A y : y \in Range(Tail(q)) <=> y \in Range(q) /\ y # Head(q)
<1> DEFINE r == Tail(q)
<1>1. /\ Head(q) \in S /\ r \in Seq(S) /\ Len(r) = Len(q) - 1 /\ Head(q) = q[1]
      /\ \A i \in 1..Len(r) : r[i] = q[i + 1]
  BY SeqTail
<1>2. Len(q) \in Nat \ {0}
  BY SeqEmpty
<1> HIDE DEF r
<1>3. /\ \A i \in 1..Len(r) : i + 1 \in 1..Len(q) /\ i + 1 # 1
      /\ \A i \in 1..Len(q) : i # 1 => i - 1 \in 1..Len(r) /\ (i - 1) + 1 = i
      /\ \A i, j \in 1..Len(r) : i + 1 = j + 1 => i = j
      /\ 1 \in 1..Len(q)
  BY <1>1, <1>2
<1>4. IsInjective(r)
  <2>1. \A i, j \in 1..Len(q) : q[i] = q[j] => i = j
    BY RangeAt
  <2>2. \A i, j \in 1..Len(r) : r[i] = r[j] => i = j
    BY <1>1, <1>3, <2>1
  <2> QED BY <1>1, <2>2, RangeAt, Zenon
<1>5. Head(q) \in Range(q)
  BY <1>1, <1>3, RangeAt
<1>6. ASSUME NEW y PROVE y \in Range(r) <=> y \in Range(q) /\ y # Head(q)
  <2>1. ASSUME y \in Range(r) PROVE y \in Range(q) /\ y # Head(q)
    <3>1. PICK i \in 1..Len(r) : r[i] = y
      BY <1>1, <2>1, RangeAt
    <3>2. q[i + 1] = y /\ i + 1 \in 1..Len(q) /\ i + 1 # 1 /\ 1 \in 1..Len(q) /\ Head(q) = q[1]
      BY <1>1, <1>3, <3>1, Zenon
    <3>3. Len(q) \in Nat /\ q[i + 1] # q[1]
      BY <3>2, RangeAt
    <3> QED BY <3>2, <3>3, RangeAt
  <2>2. ASSUME y \in Range(q), y # Head(q) PROVE y \in Range(r)
    <3>1. PICK i \in 1..Len(q) : q[i] = y
      BY <2>2, RangeAt
    <3>2. r[i - 1] = y /\ i - 1 \in 1..Len(r)
      BY <1>1, <1>3, <2>2, <3>1
    <3> QED BY <1>1, <3>2, RangeAt
  <2> QED BY <2>1, <2>2
<1> QED BY <1>1, <1>4, <1>5, <1>6 DEF r

\* Chaining two queues with no common element.
LEMMA ConcatQueue ==
  ASSUME NEW S, NEW p \in Seq(S), NEW q \in Seq(S),
         IsInjective(p), IsInjective(q), \A x : ~(x \in Range(p) /\ x \in Range(q))
  PROVE  /\ p \o q \in Seq(S) /\ IsInjective(p \o q)
         /\ \A y : y \in Range(p \o q) <=> y \in Range(p) \/ y \in Range(q)
<1> DEFINE r == p \o q
<1>1. /\ r \in Seq(S) /\ Len(r) = Len(p) + Len(q)
      /\ \A i \in 1..Len(r) : r[i] = IF i <= Len(p) THEN p[i] ELSE q[i - Len(p)]
  BY SeqConcat
<1> HIDE DEF r
<1>2. /\ \A i \in 1..Len(p) : i \in 1..Len(r) /\ r[i] = p[i]
      /\ \A i \in 1..Len(q) : Len(p) + i \in 1..Len(r) /\ r[Len(p) + i] = q[i]
  <2>1. PICK k \in Nat, l \in Nat : k = Len(p) /\ l = Len(q)
    BY SeqLen, Zenon
  <2>2. /\ Len(r) = k + l
        /\ \A i \in 1..(k + l) : r[i] = IF i <= k THEN p[i] ELSE q[i - k]
    BY <1>1, <2>1, Zenon
  <2>3. /\ \A i \in 1..k : i \in 1..(k + l) /\ i <= k
        /\ \A i \in 1..l : k + i \in 1..(k + l) /\ ~(k + i <= k) /\ (k + i) - k = i
    BY ONLY k \in Nat, l \in Nat
  <2>4. ASSUME NEW i \in 1..k PROVE i \in 1..(k + l) /\ r[i] = p[i]
    BY ONLY <2>2, <2>3, i \in 1..k, Zenon
  <2>5. ASSUME NEW i \in 1..l PROVE k + i \in 1..(k + l) /\ r[k + i] = q[i]
    <3>1. k + i \in 1..(k + l) /\ ~(k + i <= k) /\ (k + i) - k = i
      BY ONLY <2>3, i \in 1..l, Zenon
    <3> QED BY ONLY <2>2, <3>1, Zenon
  <2> QED BY ONLY <2>1, <2>2, <2>4, <2>5, Zenon
<1>3. \A i \in 1..Len(r) : i \in 1..Len(p) \/ (~(i <= Len(p)) /\ i - Len(p) \in 1..Len(q))
  BY <1>1, RangeAt
<1>4. ASSUME NEW i \in 1..Len(r), NEW j \in 1..Len(r), r[i] = r[j]
      PROVE  i = j
  <2>1. CASE i <= Len(p) /\ j <= Len(p)
    <3>1. i \in 1..Len(p) /\ j \in 1..Len(p) /\ p[i] = p[j]
      BY <1>1, <1>4, <2>1, RangeAt
    <3> QED BY <3>1, RangeAt
  <2>2. CASE ~(i <= Len(p)) /\ ~(j <= Len(p))
    <3>1. i - Len(p) \in 1..Len(q) /\ j - Len(p) \in 1..Len(q) /\ q[i - Len(p)] = q[j - Len(p)]
      BY <1>1, <1>3, <1>4, <2>2, RangeAt
    <3>2. i - Len(p) = j - Len(p)
      BY <3>1, RangeAt, Zenon
    <3> QED BY <3>2, RangeAt
  <2>3. CASE i <= Len(p) /\ ~(j <= Len(p))
    <3>1. i \in 1..Len(p) /\ r[i] = p[i]
      BY <1>1, <2>3, RangeAt
    <3>2. j - Len(p) \in 1..Len(q) /\ r[j] = q[j - Len(p)]
      BY <1>1, <1>3, <2>3
    <3>3. r[i] \in Range(p) /\ r[j] \in Range(q)
      BY <3>1, <3>2, RangeAt, Zenon
    <3> QED BY <1>4, <3>3, Zenon
  <2>4. CASE ~(i <= Len(p)) /\ j <= Len(p)
    <3>1. j \in 1..Len(p) /\ r[j] = p[j]
      BY <1>1, <2>4, RangeAt
    <3>2. i - Len(p) \in 1..Len(q) /\ r[i] = q[i - Len(p)]
      BY <1>1, <1>3, <2>4
    <3>3. r[j] \in Range(p) /\ r[i] \in Range(q)
      BY <3>1, <3>2, RangeAt, Zenon
    <3> QED BY <1>4, <3>3, Zenon
  <2> QED BY <2>1, <2>2, <2>3, <2>4
<1>5. IsInjective(r)
  BY <1>1, <1>4, RangeAt
<1>6. ASSUME NEW y PROVE y \in Range(r) <=> y \in Range(p) \/ y \in Range(q)
  <2>0. r \in Seq(S)
    BY <1>1, Zenon
  <2>1. ASSUME NEW i \in 1..Len(r) PROVE r[i] \in Range(p) \/ r[i] \in Range(q)
    <3>1. CASE i \in 1..Len(p)
      BY <1>2, <3>1, RangeAt, Zenon
    <3>2. CASE ~(i <= Len(p)) /\ i - Len(p) \in 1..Len(q)
      BY <1>1, <3>2, RangeAt, Zenon
    <3> QED BY <1>3, <3>1, <3>2, Zenon
  <2>2. ASSUME y \in Range(p) PROVE y \in Range(r)
    <3>1. PICK i \in 1..Len(p) : p[i] = y
      BY <2>2, RangeAt, Zenon
    <3>2. \E j \in 1..Len(r) : r[j] = y
      BY ONLY <1>2, <3>1, Zenon
    <3> QED BY ONLY <2>0, <3>2, RangeAt, Zenon
  <2>3. ASSUME y \in Range(q) PROVE y \in Range(r)
    <3>1. PICK i \in 1..Len(q) : q[i] = y
      BY <2>3, RangeAt, Zenon
    <3>2. \E j \in 1..Len(r) : r[j] = y
      BY ONLY <1>2, <3>1, Zenon
    <3> QED BY ONLY <2>0, <3>2, RangeAt, Zenon
  <2>4. ASSUME y \in Range(r) PROVE y \in Range(p) \/ y \in Range(q)
    <3>1. PICK i \in 1..Len(r) : r[i] = y
      BY ONLY <2>0, <2>4, RangeAt, Zenon
    <3> QED BY <2>1, <3>1, Zenon
  <2> QED BY <2>2, <2>3, <2>4, Zenon
<1> QED BY <1>1, <1>5, <1>6, Zenon DEF r

\* The sequence q over S, cut after its first k elements into p and r.
Cut(S, q, k, p, r) ==
  /\ p \in Seq(S) /\ Len(p) = k /\ \A i \in 1..k : p[i] = q[i]
  /\ r \in Seq(S) /\ Len(r) = Len(q) - k /\ \A i \in 1..(Len(q) - k) : r[i] = q[i + k]

\* What the two halves of a sequence cut after its first k elements hold.
LEMMA SubSeqHalves ==
  ASSUME NEW S, NEW q \in Seq(S), NEW k \in 0..Len(q)
  PROVE  Cut(S, q, k, SubSeq(q, 1, k), SubSeq(q, k + 1, Len(q)))
<1>1. /\ k \in Nat /\ Len(q) \in Nat /\ k <= Len(q)
      /\ \A i \in 1..Len(q) : q[i] \in S
  BY RangeAt
<1>2. \A i \in 1..k : q[i] \in S
  BY <1>1
<1>3. /\ SubSeq(q, 1, k) \in Seq(S)
      /\ Len(SubSeq(q, 1, k)) = IF 1 <= k THEN k - 1 + 1 ELSE 0
      /\ \A i \in 1..(k - 1 + 1) : SubSeq(q, 1, k)[i] = q[1 + i - 1]
  BY <1>1, <1>2, SeqSub
<1>4. \A i \in (k + 1)..Len(q) : q[i] \in S
  BY <1>1
<1>5. /\ SubSeq(q, k + 1, Len(q)) \in Seq(S)
      /\ Len(SubSeq(q, k + 1, Len(q))) = IF k + 1 <= Len(q) THEN Len(q) - (k + 1) + 1 ELSE 0
      /\ \A i \in 1..(Len(q) - (k + 1) + 1) : SubSeq(q, k + 1, Len(q))[i] = q[k + 1 + i - 1]
  BY ONLY q \in Seq(S), k + 1 \in Nat, <1>1, <1>4, SeqSub
<1> QED BY <1>1, <1>3, <1>5 DEF Cut

\* Cutting a queue after its k-th element.
LEMMA SplitQueue ==
  ASSUME NEW S, NEW q \in Seq(S), NEW k \in 0..Len(q), IsInjective(q),
         NEW p, NEW r, Cut(S, q, k, p, r)
  PROVE  /\ IsInjective(p) /\ IsInjective(r)
         /\ \A x : ~(x \in Range(p) /\ x \in Range(r))
         /\ \A x : x \in Range(q) <=> x \in Range(p) \/ x \in Range(r)
<1>1. /\ k \in Nat /\ Len(q) \in Nat /\ k <= Len(q)
      /\ \A i \in 1..Len(q) : q[i] \in S
      /\ \A i, j \in 1..Len(q) : q[i] = q[j] => i = j
  BY RangeAt
<1>2. p \in Seq(S) /\ Len(p) = k /\ \A i \in 1..k : p[i] = q[i]
  BY Zenon DEF Cut
<1>3. r \in Seq(S) /\ Len(r) = Len(q) - k /\ \A i \in 1..Len(r) : r[i] = q[i + k]
  BY DEF Cut
<1>p. /\ \A x : x \in Range(p) <=> \E i \in 1..k : p[i] = x
      /\ IsInjective(p) <=> \A i, j \in 1..k : p[i] = p[j] => i = j
  <2>1. /\ \A x : x \in Range(p) <=> \E i \in 1..Len(p) : p[i] = x
        /\ IsInjective(p) <=> \A i, j \in 1..Len(p) : p[i] = p[j] => i = j
    <3>1. p \in Seq(S)
      BY <1>2
    <3> QED BY ONLY <3>1, RangeAt, Zenon
  <2> QED BY ONLY <1>2, <2>1, Zenon
<1>r. /\ \A x : x \in Range(r) <=> \E i \in 1..Len(r) : r[i] = x
      /\ IsInjective(r) <=> \A i, j \in 1..Len(r) : r[i] = r[j] => i = j
  <2>1. r \in Seq(S)
    BY <1>3
  <2> QED BY ONLY <2>1, RangeAt, Zenon
<1>q. \A x : x \in Range(q) <=> \E i \in 1..Len(q) : q[i] = x
  BY RangeAt, Zenon
<1>4. /\ \A i \in 1..k : i \in 1..Len(q)
      /\ \A i \in 1..Len(r) : i + k \in 1..Len(q) /\ i + k \notin 1..k
      /\ \A i \in 1..Len(q) : i \in 1..k \/ (i - k \in 1..Len(r) /\ (i - k) + k = i)
      /\ \A i, j \in 1..Len(r) : i + k = j + k => i = j
  <2>1. PICK l \in Nat, m \in Nat : l = Len(q) /\ m = Len(r) /\ m = l - k /\ k <= l
    BY <1>1, <1>3
  <2>2. /\ \A i \in 1..k : i \in 1..l
        /\ \A i \in 1..m : i + k \in 1..l /\ i + k \notin 1..k
        /\ \A i \in 1..l : i \in 1..k \/ (i - k \in 1..m /\ (i - k) + k = i)
        /\ \A i, j \in 1..m : i + k = j + k => i = j
    <3>1. k \in Nat /\ l \in Nat /\ m \in Nat /\ m = l - k /\ k <= l
      BY <1>1, <2>1
    <3> QED BY ONLY <3>1
  <2> QED BY <2>1, <2>2, Zenon
<1>5. IsInjective(p)
  <2>1. ASSUME NEW i \in 1..k, NEW j \in 1..k, p[i] = p[j] PROVE i = j
    <3>1. i \in 1..Len(q) /\ j \in 1..Len(q)
      BY ONLY <1>4, i \in 1..k, j \in 1..k, Zenon
    <3>2. q[i] = q[j]
      BY ONLY <1>2, <2>1, i \in 1..k, j \in 1..k, Zenon
    <3> QED BY ONLY <1>1, <3>1, <3>2, Zenon
  <2> QED BY ONLY <1>p, <2>1, Zenon
<1>6. IsInjective(r)
  <2>1. ASSUME NEW i \in 1..Len(r), NEW j \in 1..Len(r), r[i] = r[j] PROVE i = j
    <3>1. q[i + k] = q[j + k] /\ i + k \in 1..Len(q) /\ j + k \in 1..Len(q)
      BY <1>3, <1>4, <2>1, Zenon
    <3>2. i + k = j + k
      BY <1>1, <3>1, Zenon
    <3> QED BY <1>4, <3>2, Zenon
  <2> QED BY <1>r, <2>1, Zenon
<1>7. \A x : ~(x \in Range(p) /\ x \in Range(r))
  <2> SUFFICES ASSUME NEW x, x \in Range(p), x \in Range(r) PROVE FALSE
    OBVIOUS
  <2>1. PICK i \in 1..k : p[i] = x
    BY <1>p
  <2>2. PICK j \in 1..Len(r) : r[j] = x
    BY <1>r
  <2>3. q[i] = q[j + k] /\ i \in 1..Len(q) /\ j + k \in 1..Len(q) /\ i # j + k
    BY <1>2, <1>3, <1>4, <2>1, <2>2
  <2> QED BY <1>1, <2>3
<1>8. ASSUME NEW x PROVE x \in Range(q) <=> x \in Range(p) \/ x \in Range(r)
  <2>1. ASSUME x \in Range(q) PROVE x \in Range(p) \/ x \in Range(r)
    <3>1. PICK i \in 1..Len(q) : q[i] = x
      BY <1>q, <2>1
    <3>2. CASE i \in 1..k
      BY <1>2, <1>p, <3>1, <3>2
    <3>3. CASE i - k \in 1..Len(r) /\ (i - k) + k = i
      <4>1. r[i - k] = x
        BY <1>3, <3>1, <3>3
      <4> QED BY <1>r, <3>3, <4>1
    <3> QED BY <1>4, <3>2, <3>3
  <2>2. ASSUME x \in Range(p) PROVE x \in Range(q)
    <3>1. PICK i \in 1..k : p[i] = x
      BY <1>p, <2>2
    <3>2. i \in 1..Len(q) /\ q[i] = x
      BY <1>2, <1>4, <3>1
    <3> QED BY <1>q, <3>2
  <2>3. ASSUME x \in Range(r) PROVE x \in Range(q)
    <3>1. PICK j \in 1..Len(r) : r[j] = x
      BY <1>r, <2>3
    <3>2. j + k \in 1..Len(q) /\ q[j + k] = x
      BY <1>3, <1>4, <3>1
    <3> QED BY <1>q, <3>2
  <2> QED BY <2>1, <2>2, <2>3
<1> QED BY <1>2, <1>3, <1>5, <1>6, <1>7, <1>8, Zenon

\* s is q with x put in behind its first k elements.
Inserted(S, q, k, x, s) ==
  /\ s \in Seq(S) /\ IsInjective(s) /\ Len(s) = Len(q) + 1
  /\ \A y : y \in Range(s) <=> y \in Range(q) \/ y = x
  /\ s[k + 1] = x
  /\ \A i \in 1..k : s[i] = q[i]
  /\ \A i \in (k + 2)..Len(s) : s[i] = q[i - 1]

\* Inserting a new element behind the first k keeps the order of the others.
LEMMA InsertQueue ==
  ASSUME NEW S, NEW q \in Seq(S), NEW k \in 0..Len(q), IsInjective(q),
         NEW x \in S, x \notin Range(q),
         NEW p, NEW r, Cut(S, q, k, p, r),
         NEW s, s = Append(p, x) \o r
  PROVE  Inserted(S, q, k, x, s)
<1>1. /\ p \in Seq(S) /\ Len(p) = k /\ \A i \in 1..k : p[i] = q[i]
      /\ r \in Seq(S) /\ Len(r) = Len(q) - k /\ \A i \in 1..Len(r) : r[i] = q[i + k]
      /\ IsInjective(p) /\ IsInjective(r)
      /\ \A y : ~(y \in Range(p) /\ y \in Range(r))
      /\ \A y : y \in Range(q) <=> y \in Range(p) \/ y \in Range(r)
  <2>3. /\ IsInjective(p) /\ IsInjective(r)
        /\ \A y : ~(y \in Range(p) /\ y \in Range(r))
        /\ \A y : y \in Range(q) <=> y \in Range(p) \/ y \in Range(r)
    BY SplitQueue
  <2> QED BY <2>3 DEF Cut
<1>a. PICK a : a = Append(p, x)
  BY Zenon
<1>2. k \in Nat /\ Len(q) \in Nat /\ k <= Len(q)
  BY RangeAt
<1>4. s = a \o r
  BY <1>a
<1>5. /\ a \in Seq(S) /\ IsInjective(a)
      /\ \A y : y \in Range(a) <=> y \in Range(p) \/ y = x
  <2>1. x \notin Range(p)
    BY <1>1
  <2> QED BY <1>a, <1>1, <2>1, AppendQueue, Zenon
<1>6. Len(a) = k + 1 /\ a[k + 1] = x /\ \A i \in 1..k : a[i] = p[i]
  BY ONLY x \in S, <1>1, <1>a, SeqAppend
<1>7. \A y : ~(y \in Range(a) /\ y \in Range(r))
  BY <1>1, <1>5
<1>8. /\ s \in Seq(S) /\ IsInjective(s)
      /\ \A y : y \in Range(s) <=> y \in Range(a) \/ y \in Range(r)
  <2>1. /\ a \o r \in Seq(S) /\ IsInjective(a \o r)
        /\ \A y : y \in Range(a \o r) <=> y \in Range(a) \/ y \in Range(r)
    BY ONLY <1>1, <1>5, <1>7, ConcatQueue, Zenon
  <2> QED BY ONLY <1>4, <2>1
<1>9. /\ Len(s) = Len(a) + Len(r)
      /\ \A i \in 1..Len(s) : s[i] = IF i <= Len(a) THEN a[i] ELSE r[i - Len(a)]
  <2>1. a \in Seq(S) /\ r \in Seq(S)
    BY <1>1, <1>5
  <2> QED BY ONLY <1>4, <2>1, SeqConcat
<1>10. Len(s) = Len(q) + 1 /\ s[k + 1] = x /\ \A i \in 1..k : s[i] = q[i]
  <2>1. Len(s) = Len(q) + 1
    BY ONLY <1>1, <1>2, <1>6, <1>9
  <2>2. k + 1 \in 1..Len(s) /\ k + 1 <= Len(a)
    BY ONLY <1>2, <1>6, <2>1
  <2>3. s[k + 1] = x
    BY ONLY <1>6, <1>9, <2>2
  <2>4. \A i \in 1..k : i \in 1..Len(s) /\ i <= Len(a)
    BY ONLY <1>2, <1>6, <2>1
  <2>5. \A i \in 1..k : s[i] = q[i]
    BY ONLY <1>1, <1>6, <1>9, <2>4, Zenon
  <2> QED BY ONLY <2>1, <2>3, <2>5
<1>11. ASSUME NEW i \in (k + 2)..Len(s)
       PROVE  s[i] = q[i - 1]
  <2>1. /\ i \in 1..Len(s) /\ ~(i <= Len(a)) /\ i - Len(a) \in 1..Len(r)
        /\ (i - Len(a)) + k = i - 1
    BY ONLY i \in (k + 2)..Len(s), <1>1, <1>2, <1>6, <1>9
  <2> QED BY ONLY <1>1, <1>9, <2>1, Zenon
<1> QED BY <1>1, <1>5, <1>8, <1>10, <1>11, Zenon DEF Inserted
=============================================================================
