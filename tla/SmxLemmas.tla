------------------------------- MODULE SmxLemmas ------------------------------
(***************************************************************************)
(* What the proofs need of numbers and of queues: the least and the        *)
(* greatest of a set, what taking an element out of a queue or putting one *)
(* in does to it, and queues in an order.                                  *)
(***************************************************************************)
EXTENDS SmxSequences, SequenceTheorems, FiniteSetTheorems, WellFoundedInduction,
        TLAPS

-----------------------------------------------------------------------------
(* Numbers. *)

Below == OpToRel(<, Nat)

LEMMA BelowDef == ASSUME NEW x \in Nat, NEW y \in Nat
                  PROVE  <<x, y>> \in Below <=> x < y
  BY SMT DEF Below, OpToRel

\* Every nonempty set of numbers has a least one.
LEMMA LeastNumber ==
  ASSUME NEW S \in SUBSET Nat, S # {}
  PROVE  \E x \in S : \A y \in S : x <= y
  <1>1. IsWellFoundedOn(Below, Nat)
    BY NatLessThanWellFounded DEF Below
  <1>2. PICK x \in S : \A y \in S : ~(<<y, x>> \in Below)
    BY <1>1, WFMin, Zenon
  <1>3. \A y \in S : x <= y
    <2> SUFFICES ASSUME NEW y \in S PROVE x <= y
      OBVIOUS
    <2>1. <<y, x>> \in Below <=> y < x
      BY BelowDef
    <2> QED BY <1>2, <2>1, SMT
  <1> QED BY <1>3

\* Min, of any numbers.
LEMMA MinProperties ==
  ASSUME NEW S \in SUBSET Nat, S # {}
  PROVE  Min(S) \in S /\ \A y \in S : Min(S) <= y
  <1>1. \E x \in S : \A y \in S : x <= y
    BY LeastNumber
  <1> QED BY <1>1 DEF Min

\* Every nonempty set of numbers that are at most n has a greatest one.
LEMMA GreatestNumber ==
  ASSUME NEW n \in Nat, NEW S \in SUBSET (0..n), S # {}
  PROVE  \E x \in S : \A y \in S : x >= y
  <1> DEFINE D == {d \in Nat : \E y \in S : d = n - y}
  <1>1. D \in SUBSET Nat /\ D # {}
    <2>1. PICK y \in S : TRUE
      OBVIOUS
    <2>2. n - y \in D
      BY <2>1
    <2> QED BY <2>2
  <1>2. PICK d \in D : \A e \in D : d <= e
    <2> HIDE DEF D
    <2> QED BY <1>1, LeastNumber
  <1>3. PICK x \in S : d = n - x
    BY <1>2
  <1>4. ASSUME NEW y \in S PROVE x >= y
    <2>1. n - y \in D /\ y \in 0..n /\ x \in 0..n
      BY <1>4
    <2>2. d <= n - y
      BY <1>2, <2>1
    <2> QED BY <1>3, <2>1, <2>2
  <1> QED BY <1>4

-----------------------------------------------------------------------------
(* Queues. *)

Injective(s) == \A i, j \in 1..Len(s) : s[i] = s[j] => i = j

LEMMA RemoveAtProperties ==
  ASSUME NEW S, NEW s \in Seq(S), NEW n \in 1..Len(s)
  PROVE  /\ RemoveAt(s, n) \in Seq(S)
         /\ Len(RemoveAt(s, n)) = Len(s) - 1
         /\ \A i \in 1..Len(s) - 1 : RemoveAt(s, n)[i] = IF i < n THEN s[i] ELSE s[i + 1]
  <1> DEFINE a == SubSeq(s, 1, n - 1)
             b == SubSeq(s, n + 1, Len(s))
  <1>0. Len(s) \in Nat /\ \A i \in 1..Len(s) : s[i] \in S
    BY LenProperties, ElementOfSeq
  <1>1. /\ a \in Seq(S) /\ Len(a) = n - 1
        /\ \A i \in 1..n - 1 : a[i] = s[i]
    <2>1. \A i \in 1..n - 1 : s[i] \in S
      BY <1>0
    <2>2. 1 \in Int /\ n - 1 \in Int
      BY <1>0
    <2> HIDE DEF a
    <2>3. /\ a \in Seq(S)
          /\ Len(a) = IF 1 <= n - 1 THEN (n - 1) - 1 + 1 ELSE 0
          /\ \A i \in 1..(n - 1) - 1 + 1 : a[i] = s[1 + i - 1]
      BY <2>1, <2>2, SubSeqProperties DEF a
    <2> QED BY <2>3, <1>0
  <1>2. /\ b \in Seq(S) /\ Len(b) = Len(s) - n
        /\ \A i \in 1..Len(s) - n : b[i] = s[n + i]
    <2>1. \A i \in n + 1..Len(s) : s[i] \in S
      BY <1>0
    <2>2. n + 1 \in Int /\ Len(s) \in Int
      BY <1>0
    <2> HIDE DEF b
    <2>3. /\ b \in Seq(S)
          /\ Len(b) = IF n + 1 <= Len(s) THEN Len(s) - (n + 1) + 1 ELSE 0
          /\ \A i \in 1..Len(s) - (n + 1) + 1 : b[i] = s[n + 1 + i - 1]
      BY <2>1, <2>2, SubSeqProperties DEF b
    <2> QED BY <2>3, <1>0
  <1> HIDE DEF a, b
  <1>3. /\ a \o b \in Seq(S)
        /\ Len(a \o b) = Len(a) + Len(b)
        /\ \A i \in 1..Len(a) + Len(b) : (a \o b)[i] = IF i <= Len(a) THEN a[i] ELSE b[i - Len(a)]
    BY <1>1, <1>2, ConcatProperties
  <1>4. RemoveAt(s, n) = a \o b
    BY DEF RemoveAt, a, b
  <1>5. \A i \in 1..Len(s) - 1 : (a \o b)[i] = IF i < n THEN s[i] ELSE s[i + 1]
    <2> SUFFICES ASSUME NEW i \in 1..Len(s) - 1
                 PROVE  (a \o b)[i] = IF i < n THEN s[i] ELSE s[i + 1]
      OBVIOUS
    <2>0. Len(a) = n - 1 /\ Len(b) = Len(s) - n /\ n \in Nat /\ i \in 1..Len(a) + Len(b)
      BY <1>0, <1>1, <1>2
    <2>1. CASE i < n
      <3>1. i \in 1..n - 1 /\ i <= Len(a)
        BY <2>0, <2>1, <1>0
      <3> QED BY <2>0, <2>1, <3>1, <1>1, <1>3
    <2>2. CASE ~(i < n)
      <3>1. i - Len(a) \in 1..Len(s) - n /\ n + (i - Len(a)) = i + 1 /\ ~(i <= Len(a))
        BY <2>0, <2>2, <1>0
      <3>2. (a \o b)[i] = b[i - Len(a)]
        BY <2>0, <3>1, <1>3
      <3>3. b[i - Len(a)] = s[n + (i - Len(a))]
        BY <3>1, <1>2
      <3> QED BY <2>2, <3>1, <3>2, <3>3
    <2> QED BY <2>1, <2>2
  <1>6. Len(a \o b) = Len(s) - 1
    BY <1>0, <1>1, <1>2, <1>3
  <1> QED BY <1>3, <1>4, <1>5, <1>6, Zenon

\* What is left of a queue when a task is taken out of it.
LEMMA WithoutProperties ==
  ASSUME NEW S, NEW s \in Seq(S), Injective(s), NEW t \in S
  PROVE  /\ Without(s, t) \in Seq(S)
         /\ Injective(Without(s, t))
         /\ \A u : Contains(Without(s, t), u) <=> Contains(s, u) /\ u # t
         /\ ~Contains(s, t) => Without(s, t) = s
         /\ s # <<>> /\ s[1] # t => Without(s, t) # <<>> /\ Without(s, t)[1] = s[1]
         /\ Contains(s, t) /\ s # <<t>> => Without(s, t) # <<>>
  <1>0. Len(s) \in Nat /\ DOMAIN s = 1..Len(s) /\ (s # <<>> => Len(s) > 0)
    BY LenProperties, EmptySeq
  <1>1. CASE ~Contains(s, t)
    BY <1>1 DEF Without, Contains
  <1>2. CASE Contains(s, t)
    <2> DEFINE n == CHOOSE i \in DOMAIN s : s[i] = t
               w == RemoveAt(s, n)
    <2>1. n \in 1..Len(s) /\ s[n] = t
      BY <1>0, <1>2 DEF Contains
    <2>2. Without(s, t) = w
      BY <1>2 DEF Without
    <2> HIDE DEF n
    <2>3. /\ w \in Seq(S) /\ Len(w) = Len(s) - 1
          /\ \A i \in 1..Len(s) - 1 : w[i] = IF i < n THEN s[i] ELSE s[i + 1]
      BY <2>1, RemoveAtProperties
    <2> HIDE DEF w
    <2>4. Injective(w)
      BY <1>0, <2>1, <2>3 DEF Injective
    <2>5. ASSUME NEW u PROVE Contains(w, u) <=> Contains(s, u) /\ u # t
      <3>1. ASSUME Contains(w, u) PROVE Contains(s, u) /\ u # t
        <4>1. PICK i \in 1..Len(w) : w[i] = u
          BY <3>1 DEF Contains
        <4>2. CASE i < n
          BY <4>1, <4>2, <1>0, <2>1, <2>3 DEF Contains, Injective
        <4>3. CASE ~(i < n)
          BY <4>1, <4>3, <1>0, <2>1, <2>3 DEF Contains, Injective
        <4> QED BY <4>2, <4>3
      <3>2. ASSUME Contains(s, u), u # t PROVE Contains(w, u)
        <4>1. PICK i \in 1..Len(s) : s[i] = u
          BY <3>2 DEF Contains
        <4>2. CASE i < n
          BY <4>1, <4>2, <1>0, <2>1, <2>3 DEF Contains
        <4>3. CASE ~(i < n)
          <5>1. i - 1 \in 1..Len(w) /\ w[i - 1] = u
            BY <4>1, <4>3, <3>2, <1>0, <2>1, <2>3
          <5> QED BY <5>1 DEF Contains
        <4> QED BY <4>2, <4>3
      <3> QED BY <3>1, <3>2
    <2>6. s # <<>> /\ s[1] # t => w # <<>> /\ w[1] = s[1]
      <3> SUFFICES ASSUME s # <<>>, s[1] # t PROVE w # <<>> /\ w[1] = s[1]
        OBVIOUS
      <3>1. n > 1 /\ Len(w) > 0
        BY <1>0, <2>1, <2>3
      <3> QED BY <3>1, <1>0, <2>1, <2>3, EmptySeq
    <2>7. s # <<t>> => w # <<>>
      <3> SUFFICES ASSUME w = <<>> PROVE s = <<t>>
        OBVIOUS
      <3>1. Len(s) = 1
        BY <2>3, <1>0, EmptySeq
      <3>2. s[1] = t
        BY <3>1, <2>1
      <3>3. <<t>> \in Seq(S) /\ Len(<<t>>) = 1 /\ <<t>>[1] = t
        OBVIOUS
      <3> QED BY <3>1, <3>2, <3>3, SeqEqual
    <2> QED BY <1>2, <2>2, <2>3, <2>4, <2>5, <2>6, <2>7
  <1> QED BY <1>1, <1>2

\* A queue with a task put last.
LEMMA AppendContains ==
  ASSUME NEW S, NEW s \in Seq(S), Injective(s), NEW t \in S, ~Contains(s, t)
  PROVE  /\ Append(s, t) \in Seq(S) /\ Append(s, t) # <<>>
         /\ Injective(Append(s, t))
         /\ \A u : Contains(Append(s, t), u) <=> Contains(s, u) \/ u = t
  <1>0. Len(s) \in Nat
    BY LenProperties
  <1> DEFINE a == Append(s, t)
  <1>1. /\ a \in Seq(S) /\ a # <<>> /\ Len(a) = Len(s) + 1
        /\ \A i \in 1..Len(s) : a[i] = s[i]
        /\ a[Len(s) + 1] = t
    BY AppendProperties
  <1> HIDE DEF a
  <1>2. Injective(a)
    BY <1>0, <1>1 DEF Injective, Contains
  <1>3. ASSUME NEW u PROVE Contains(a, u) <=> Contains(s, u) \/ u = t
    <2>1. ASSUME Contains(a, u) PROVE Contains(s, u) \/ u = t
      <3>1. PICK i \in 1..Len(a) : a[i] = u
        BY <2>1 DEF Contains
      <3>2. i \in 1..Len(s) \/ i = Len(s) + 1
        BY <1>0, <1>1
      <3> QED BY <3>1, <3>2, <1>1 DEF Contains
    <2>2. ASSUME Contains(s, u) PROVE Contains(a, u)
      <3>1. PICK i \in 1..Len(s) : s[i] = u
        BY <2>2 DEF Contains
      <3>2. i \in 1..Len(a) /\ a[i] = u
        BY <3>1, <1>0, <1>1
      <3> QED BY <3>2 DEF Contains
    <2>3. ASSUME u = t PROVE Contains(a, u)
      <3>1. Len(s) + 1 \in 1..Len(a)
        BY <1>0, <1>1
      <3> QED BY <2>3, <3>1, <1>1 DEF Contains
    <2> QED BY <2>1, <2>2, <2>3
  <1> QED BY <1>1, <1>2, <1>3 DEF a

\* A queue without its head.
LEMMA TailContains ==
  ASSUME NEW S, NEW s \in Seq(S), s # <<>>, Injective(s)
  PROVE  /\ Head(s) \in S /\ Contains(s, Head(s))
         /\ Tail(s) \in Seq(S) /\ Injective(Tail(s))
         /\ \A u : Contains(Tail(s), u) <=> Contains(s, u) /\ u # Head(s)
  <1>1. Len(s) \in Nat /\ Len(s) > 0 /\ Head(s) = s[1]
    BY LenProperties, EmptySeq
  <1> DEFINE w == Tail(s)
  <1>2. /\ Head(s) \in S /\ w \in Seq(S) /\ Len(w) = Len(s) - 1
        /\ \A i \in 1..Len(s) - 1 : w[i] = s[i + 1]
    BY HeadTailProperties
  <1> HIDE DEF w
  <1>3. Contains(s, Head(s))
    BY <1>1 DEF Contains
  <1>4. Injective(w)
    BY <1>1, <1>2 DEF Injective
  <1>5. ASSUME NEW u PROVE Contains(w, u) <=> Contains(s, u) /\ u # Head(s)
    <2>1. ASSUME Contains(w, u) PROVE Contains(s, u) /\ u # Head(s)
      <3>1. PICK i \in 1..Len(s) - 1 : s[i + 1] = u
        BY <2>1, <1>2 DEF Contains
      <3>2. i + 1 \in 1..Len(s) /\ 1 \in 1..Len(s) /\ i + 1 # 1
        BY <1>1
      <3> QED BY <3>1, <3>2, <1>1 DEF Contains, Injective
    <2>2. ASSUME Contains(s, u), u # Head(s) PROVE Contains(w, u)
      <3>1. PICK i \in 1..Len(s) : s[i] = u
        BY <2>2 DEF Contains
      <3>2. i - 1 \in 1..Len(s) - 1 /\ (i - 1) + 1 = i
        BY <3>1, <2>2, <1>1
      <3> QED BY <3>1, <3>2, <1>2 DEF Contains
    <2> QED BY <2>1, <2>2
  <1> QED BY <1>2, <1>3, <1>4, <1>5 DEF w

\* The elements of a sequence with one put in.
LEMMA InsertAtProperties ==
  ASSUME NEW S, NEW s \in Seq(S), NEW t \in S, NEW n \in 1..Len(s) + 1
  PROVE  /\ InsertAt(s, n, t) \in Seq(S)
         /\ Len(InsertAt(s, n, t)) = Len(s) + 1
         /\ \A i \in 1..Len(s) + 1 :
              InsertAt(s, n, t)[i] = IF i < n THEN s[i] ELSE IF i = n THEN t ELSE s[i - 1]
  <1> DEFINE a == SubSeq(s, 1, n - 1)
             b == SubSeq(s, n, Len(s))
             c == a \o <<t>>
             w == c \o b
  <1>0. Len(s) \in Nat /\ \A i \in 1..Len(s) : s[i] \in S
    BY LenProperties, ElementOfSeq
  <1>1. /\ a \in Seq(S) /\ Len(a) = n - 1
        /\ \A i \in 1..n - 1 : a[i] = s[i]
    <2>1. \A i \in 1..n - 1 : s[i] \in S
      BY <1>0
    <2>2. 1 \in Int /\ n - 1 \in Int
      BY <1>0
    <2> HIDE DEF a
    <2>3. /\ a \in Seq(S)
          /\ Len(a) = IF 1 <= n - 1 THEN (n - 1) - 1 + 1 ELSE 0
          /\ \A i \in 1..(n - 1) - 1 + 1 : a[i] = s[1 + i - 1]
      BY <2>1, <2>2, SubSeqProperties DEF a
    <2> QED BY <2>3, <1>0
  <1>2. /\ b \in Seq(S) /\ Len(b) = Len(s) - n + 1
        /\ \A i \in 1..Len(s) - n + 1 : b[i] = s[n + i - 1]
    <2>1. \A i \in n..Len(s) : s[i] \in S
      BY <1>0
    <2>2. n \in Int /\ Len(s) \in Int
      BY <1>0
    <2> HIDE DEF b
    <2>3. /\ b \in Seq(S)
          /\ Len(b) = IF n <= Len(s) THEN Len(s) - n + 1 ELSE 0
          /\ \A i \in 1..Len(s) - n + 1 : b[i] = s[n + i - 1]
      BY <2>1, <2>2, SubSeqProperties DEF b
    <2> QED BY <2>3, <1>0
  <1> HIDE DEF a, b
  <1>3. /\ c \in Seq(S) /\ Len(c) = n
        /\ \A i \in 1..n : c[i] = IF i < n THEN s[i] ELSE t
    <2>1. <<t>> \in Seq(S) /\ Len(<<t>>) = 1 /\ <<t>>[1] = t
      OBVIOUS
    <2>2. /\ a \o <<t>> \in Seq(S) /\ Len(a \o <<t>>) = Len(a) + Len(<<t>>)
          /\ \A i \in 1..Len(a) + Len(<<t>>) :
               (a \o <<t>>)[i] = IF i <= Len(a) THEN a[i] ELSE <<t>>[i - Len(a)]
      BY <1>1, <2>1, ConcatProperties
    <2> HIDE DEF c
    <2>3. /\ c \in Seq(S) /\ Len(c) = n
          /\ \A i \in 1..n : c[i] = IF i <= n - 1 THEN a[i] ELSE <<t>>[i - (n - 1)]
      BY <1>0, <1>1, <2>1, <2>2 DEF c
    <2>4. ASSUME NEW i \in 1..n PROVE c[i] = IF i < n THEN s[i] ELSE t
      <3>1. CASE i < n
        BY <1>0, <1>1, <2>3, <3>1
      <3>2. CASE ~(i < n)
        <4>1. i - (n - 1) = 1 /\ ~(i <= n - 1)
          BY <3>2, <1>0
        <4> QED BY <4>1, <2>1, <2>3, <3>2
      <3> QED BY <3>1, <3>2
    <2> QED BY <2>3, <2>4
  <1> HIDE DEF c
  <1>4. /\ w \in Seq(S) /\ Len(w) = Len(s) + 1
        /\ \A i \in 1..Len(s) + 1 :
             w[i] = IF i < n THEN s[i] ELSE IF i = n THEN t ELSE s[i - 1]
    <2>1. /\ c \o b \in Seq(S) /\ Len(c \o b) = Len(c) + Len(b)
          /\ \A i \in 1..Len(c) + Len(b) : (c \o b)[i] = IF i <= Len(c) THEN c[i] ELSE b[i - Len(c)]
      BY <1>2, <1>3, ConcatProperties
    <2> HIDE DEF w
    <2>2. /\ w \in Seq(S) /\ Len(w) = Len(s) + 1
          /\ \A i \in 1..Len(s) + 1 : w[i] = IF i <= n THEN c[i] ELSE b[i - n]
      BY <1>0, <1>2, <1>3, <2>1 DEF w
    <2>3. ASSUME NEW i \in 1..Len(s) + 1
          PROVE  w[i] = IF i < n THEN s[i] ELSE IF i = n THEN t ELSE s[i - 1]
      <3>1. CASE i <= n
        BY <1>0, <1>3, <2>2, <3>1
      <3>2. CASE ~(i <= n)
        <4>1. i - n \in 1..Len(s) - n + 1 /\ n + (i - n) - 1 = i - 1
          BY <3>2, <1>0
        <4>2. b[i - n] = s[i - 1]
          BY <4>1, <1>2
        <4> QED BY <4>2, <2>2, <3>2, <1>0
      <3> QED BY <3>1, <3>2
    <2> QED BY <2>2, <2>3
  <1> HIDE DEF w
  <1>5. InsertAt(s, n, t) = w
    BY DEF InsertAt, w, c, a, b
  <1> QED BY <1>4, <1>5, Zenon

\* A queue with a task put anywhere in it.
LEMMA InsertContains ==
  ASSUME NEW S, NEW s \in Seq(S), Injective(s), NEW t \in S, ~Contains(s, t),
         NEW n \in 1..Len(s) + 1
  PROVE  /\ InsertAt(s, n, t) \in Seq(S)
         /\ Injective(InsertAt(s, n, t))
         /\ \A u : Contains(InsertAt(s, n, t), u) <=> Contains(s, u) \/ u = t
  <1> DEFINE w == InsertAt(s, n, t)
  <1>0. Len(s) \in Nat /\ \A i \in 1..Len(s) : s[i] \in S
    BY LenProperties, ElementOfSeq
  <1>4. /\ w \in Seq(S) /\ Len(w) = Len(s) + 1
        /\ \A i \in 1..Len(s) + 1 :
             w[i] = IF i < n THEN s[i] ELSE IF i = n THEN t ELSE s[i - 1]
    <2>1. w \in Seq(S) /\ Len(w) = Len(s) + 1
      BY InsertAtProperties
    <2>2. ASSUME NEW i \in 1..Len(s) + 1
          PROVE  w[i] = IF i < n THEN s[i] ELSE IF i = n THEN t ELSE s[i - 1]
      BY ONLY InsertAtProperties, s \in Seq(S), t \in S, n \in 1..Len(s) + 1, i \in 1..Len(s) + 1
    <2> QED BY <2>1, <2>2
  <1> HIDE DEF w
  <1>5. Injective(w)
    <2> SUFFICES ASSUME NEW i \in 1..Len(s) + 1, NEW j \in 1..Len(s) + 1, w[i] = w[j]
                 PROVE  i = j
      BY <1>4 DEF Injective
    <2>1. \A x \in 1..Len(s) : s[x] # t
      BY DEF Contains
    <2>2. ASSUME NEW x \in 1..Len(s), NEW y \in 1..Len(s), s[x] = s[y] PROVE x = y
      BY <2>2 DEF Injective
    <2>3. /\ i < n => i \in 1..Len(s) /\ w[i] = s[i]
          /\ i = n => w[i] = t
          /\ i > n => i - 1 \in 1..Len(s) /\ w[i] = s[i - 1]
      BY <1>0, <1>4
    <2>4. /\ j < n => j \in 1..Len(s) /\ w[j] = s[j]
          /\ j = n => w[j] = t
          /\ j > n => j - 1 \in 1..Len(s) /\ w[j] = s[j - 1]
      BY <1>0, <1>4
    <2>5. CASE i = n \/ j = n
      BY <2>1, <2>3, <2>4, <2>5, <1>0
    <2>6. CASE i < n /\ j < n
      BY <2>2, <2>3, <2>4, <2>6
    <2>7. CASE i > n /\ j > n
      <3>1. i - 1 = j - 1
        BY <2>2, <2>3, <2>4, <2>7
      <3> QED BY <3>1
    <2>8. CASE i < n /\ j > n
      <3>1. i = j - 1
        BY <2>2, <2>3, <2>4, <2>8
      <3> QED BY <3>1, <2>8
    <2>9. CASE i > n /\ j < n
      <3>1. i - 1 = j
        BY <2>2, <2>3, <2>4, <2>9
      <3> QED BY <3>1, <2>9
    <2> QED BY <2>5, <2>6, <2>7, <2>8, <2>9, <1>0
  <1>6. ASSUME NEW u PROVE Contains(w, u) <=> Contains(s, u) \/ u = t
    <2>1. ASSUME Contains(w, u) PROVE Contains(s, u) \/ u = t
      <3>1. PICK i \in 1..Len(s) + 1 : w[i] = u
        BY <2>1, <1>4 DEF Contains
      <3>2. CASE i < n
        BY <3>1, <3>2, <1>0, <1>4 DEF Contains
      <3>3. CASE i = n
        BY <3>1, <3>3, <1>4
      <3>4. CASE i > n
        <4>1. i - 1 \in 1..Len(s) /\ s[i - 1] = u
          BY <3>1, <3>4, <1>0, <1>4
        <4> QED BY <4>1 DEF Contains
      <3> QED BY <3>2, <3>3, <3>4, <1>0
    <2>2. ASSUME Contains(s, u) PROVE Contains(w, u)
      <3>1. PICK i \in 1..Len(s) : s[i] = u
        BY <2>2 DEF Contains
      <3>2. CASE i < n
        <4>1. i \in 1..Len(w) /\ w[i] = u
          BY <3>1, <3>2, <1>0, <1>4
        <4> QED BY <4>1 DEF Contains
      <3>3. CASE ~(i < n)
        <4>1. i + 1 \in 1..Len(w) /\ (i + 1) - 1 = i /\ ~(i + 1 < n) /\ i + 1 # n
          BY <3>3, <1>0, <1>4
        <4>2. w[i + 1] = u
          BY <4>1, <3>1, <1>4
        <4> QED BY <4>1, <4>2 DEF Contains
      <3> QED BY <3>2, <3>3
    <2>3. Contains(w, t)
      <3>1. n \in 1..Len(w) /\ w[n] = t
        BY <1>0, <1>4
      <3> QED BY <3>1 DEF Contains
    <2> QED BY <2>1, <2>2, <2>3
  <1> QED BY <1>4, <1>5, <1>6 DEF w

\* The elements of a queue.
LEMMA RangeContains ==
  ASSUME NEW S, NEW s \in Seq(S)
  PROVE  /\ \A u : u \in Range(s) <=> Contains(s, u)
         /\ IsInjective(s) <=> Injective(s)
  <1>1. Len(s) \in Nat /\ DOMAIN s = 1..Len(s)
    BY LenProperties
  <1> QED BY <1>1 DEF Range, Contains, IsInjective, Injective

-----------------------------------------------------------------------------
(* Queues in the order of a priority f, the greatest first. *)

Descending(s, f) == \A i, j \in 1..Len(s) : i < j => f[s[i]] >= f[s[j]]

LEMMA DescendingAgrees ==
  ASSUME NEW S, NEW s \in Seq(S), NEW f, NEW g, Descending(s, f),
         \A u \in S : Contains(s, u) => g[u] = f[u]
  PROVE  Descending(s, g)
  <1>1. \A i \in 1..Len(s) : s[i] \in S /\ Contains(s, s[i])
    BY LenProperties, ElementOfSeq DEF Contains
  <1> QED BY <1>1 DEF Descending

\* Removing t keeps the order, even if t has a new priority.
LEMMA WithoutDescending ==
  ASSUME NEW S, NEW s \in Seq(S), Injective(s), NEW t \in S,
         NEW f, NEW g, Descending(s, f), \A u \in S \ {t} : g[u] = f[u]
  PROVE  Descending(Without(s, t), g)
  <1> DEFINE w == Without(s, t)
  <1>1. /\ w \in Seq(S)
        /\ \A u : Contains(w, u) <=> Contains(s, u) /\ u # t
    BY WithoutProperties
  <1>2. Descending(w, f)
    <2>1. CASE Contains(s, t)
      <3> DEFINE n == CHOOSE i \in DOMAIN s : s[i] = t
      <3>1. DOMAIN s = 1..Len(s) /\ Len(s) \in Nat
        BY LenProperties
      <3>2. n \in 1..Len(s)
        BY <2>1, <3>1 DEF Contains
      <3>3. w = RemoveAt(s, n)
        BY <2>1 DEF Without
      <3> HIDE DEF n, w
      <3>4. /\ Len(w) = Len(s) - 1
            /\ \A i \in 1..Len(s) - 1 : w[i] = IF i < n THEN s[i] ELSE s[i + 1]
        BY <3>2, <3>3, RemoveAtProperties
      <3> SUFFICES ASSUME NEW i \in 1..Len(w), NEW j \in 1..Len(w), i < j
                   PROVE  f[w[i]] >= f[w[j]]
        BY DEF Descending
      <3> DEFINE i2 == IF i < n THEN i ELSE i + 1
                 j2 == IF j < n THEN j ELSE j + 1
      <3>5. i2 \in 1..Len(s) /\ j2 \in 1..Len(s) /\ i2 < j2
        BY <3>1, <3>2, <3>4
      <3>6. w[i] = s[i2] /\ w[j] = s[j2]
        BY <3>1, <3>4
      <3> QED BY <3>5, <3>6 DEF Descending
    <2>2. CASE ~Contains(s, t)
      BY <2>2 DEF Without
    <2> QED BY <2>1, <2>2
  <1> HIDE DEF w
  <1>3. \A u \in S : Contains(w, u) => g[u] = f[u]
    BY <1>1
  <1>4. Descending(w, g)
    BY <1>1, <1>2, <1>3, DescendingAgrees
  <1> QED BY <1>4 DEF w

LEMMA TailDescending ==
  ASSUME NEW S, NEW s \in Seq(S), s # <<>>, NEW f, Descending(s, f)
  PROVE  Descending(Tail(s), f)
  <1> DEFINE w == Tail(s)
  <1>1. /\ Len(s) \in Nat /\ Len(w) = Len(s) - 1
        /\ \A i \in 1..Len(s) - 1 : w[i] = s[i + 1]
    BY LenProperties, EmptySeq, HeadTailProperties
  <1> HIDE DEF w
  <1>2. ASSUME NEW i \in 1..Len(w), NEW j \in 1..Len(w), i < j
        PROVE  f[w[i]] >= f[w[j]]
    <2>1. i + 1 \in 1..Len(s) /\ j + 1 \in 1..Len(s) /\ i + 1 < j + 1
      BY <1>1, <1>2
    <2> QED BY <1>1, <2>1 DEF Descending
  <1>3. Descending(w, f)
    BY <1>2 DEF Descending
  <1> QED BY <1>3 DEF w

\* t goes behind all that are not below it and ahead of one that is.
LEMMA InsertDescending ==
  ASSUME NEW S, NEW s \in Seq(S), NEW t \in S, NEW n \in 1..Len(s) + 1,
         NEW f \in [S -> Int], Descending(s, f),
         \A i \in 1..n - 1 : f[s[i]] >= f[t],
         n <= Len(s) => f[t] >= f[s[n]]
  PROVE  Descending(InsertAt(s, n, t), f)
  <1> DEFINE w == InsertAt(s, n, t)
  <1>1. /\ Len(s) \in Nat /\ Len(w) = Len(s) + 1
        /\ \A i \in 1..Len(s) : f[s[i]] \in Int
        /\ f[t] \in Int
    BY LenProperties, ElementOfSeq, InsertAtProperties
  <1>2. \A i \in 1..Len(s) + 1 :
           w[i] = IF i < n THEN s[i] ELSE IF i = n THEN t ELSE s[i - 1]
    BY InsertAtProperties
  <1> HIDE DEF w
  <1>3. ASSUME NEW i \in n..Len(s) PROVE f[t] >= f[s[i]]
    <2>1. n \in 1..Len(s) /\ i \in 1..Len(s) /\ f[t] >= f[s[n]]
      BY <1>1
    <2>2. f[s[n]] >= f[s[i]]
      BY <1>1, <2>1 DEF Descending
    <2> QED BY <1>1, <2>1, <2>2
  <1>4. ASSUME NEW i \in 1..Len(w), NEW j \in 1..Len(w), i < j
        PROVE  f[w[i]] >= f[w[j]]
    <2>0. i \in 1..Len(s) + 1 /\ j \in 1..Len(s) + 1
      BY <1>1
    <2>1. CASE j < n
      <3>1. i < n /\ i \in 1..Len(s) /\ j \in 1..Len(s)
        BY <1>1, <2>0, <2>1, <1>4
      <3>2. w[i] = s[i] /\ w[j] = s[j]
        BY <1>2, <2>0, <2>1, <3>1
      <3> QED BY <3>1, <3>2, <1>4 DEF Descending
    <2>2. CASE j = n
      <3>1. i \in 1..n - 1 /\ i < n
        BY <1>1, <2>0, <2>2, <1>4
      <3>2. w[i] = s[i] /\ w[j] = t
        BY <1>2, <2>0, <2>2, <3>1
      <3> QED BY <3>1, <3>2
    <2>3. CASE j > n /\ i < n
      <3>1. i \in 1..n - 1 /\ i \in 1..Len(s) /\ j - 1 \in n..Len(s) /\ j - 1 \in 1..Len(s)
        BY <1>1, <2>0, <2>3
      <3>2. w[i] = s[i] /\ w[j] = s[j - 1]
        BY <1>2, <2>0, <2>3
      <3> QED BY <1>1, <1>3, <3>1, <3>2
    <2>4. CASE j > n /\ i = n
      <3>1. j - 1 \in n..Len(s)
        BY <1>1, <2>0, <2>4
      <3>2. w[i] = t /\ w[j] = s[j - 1]
        BY <1>2, <2>0, <2>4
      <3> QED BY <1>3, <3>1, <3>2
    <2>5. CASE j > n /\ i > n
      <3>1. i - 1 \in 1..Len(s) /\ j - 1 \in 1..Len(s) /\ i - 1 < j - 1
        BY <1>1, <2>0, <2>5, <1>4
      <3>2. w[i] = s[i - 1] /\ w[j] = s[j - 1]
        BY <1>2, <2>0, <2>5
      <3> QED BY <3>1, <3>2 DEF Descending
    <2> QED BY <1>1, <2>0, <2>1, <2>2, <2>3, <2>4, <2>5
  <1>5. Descending(w, f)
    BY <1>4 DEF Descending
  <1> QED BY <1>5 DEF w

\* A sequence with an element put first.
LEMMA PrependContains ==
  ASSUME NEW S, NEW s \in Seq(S), Injective(s), NEW t \in S, ~Contains(s, t)
  PROVE  /\ <<t>> \o s \in Seq(S) /\ Injective(<<t>> \o s)
         /\ \A u : Contains(<<t>> \o s, u) <=> Contains(s, u) \/ u = t
  <1> DEFINE w == <<t>> \o s
  <1>1. <<t>> \in Seq(S) /\ Len(<<t>>) = 1 /\ <<t>>[1] = t /\ Len(s) \in Nat
    BY LenProperties
  <1>2. /\ w \in Seq(S) /\ Len(w) = 1 + Len(s)
        /\ \A i \in 1..1 + Len(s) : w[i] = IF i <= 1 THEN <<t>>[i] ELSE s[i - 1]
    BY <1>1, ConcatProperties
  <1> HIDE DEF w
  <1>3. w[1] = t /\ \A i \in 1..Len(s) : w[i + 1] = s[i]
    <2>1. 1 \in 1..1 + Len(s)
      BY <1>1
    <2>2. \A i \in 1..Len(s) : i + 1 \in 1..1 + Len(s) /\ ~(i + 1 <= 1) /\ (i + 1) - 1 = i
      BY <1>1
    <2> QED BY <1>1, <1>2, <2>1, <2>2
  <1>4. \A i \in 1..Len(w) : i = 1 \/ (i - 1 \in 1..Len(s) /\ w[i] = s[i - 1])
    <2> SUFFICES ASSUME NEW i \in 1..Len(w), i # 1 PROVE i - 1 \in 1..Len(s) /\ w[i] = s[i - 1]
      OBVIOUS
    <2>1. i - 1 \in 1..Len(s) /\ (i - 1) + 1 = i
      BY <1>1, <1>2
    <2> QED BY <1>3, <2>1
  <1>5. ASSUME NEW i \in 1..Len(w), NEW j \in 1..Len(w), w[i] = w[j] PROVE i = j
    <2>1. \A k \in 1..Len(s) : s[k] # t
      BY DEF Contains
    <2>2. CASE i = 1 \/ j = 1
      BY <1>3, <1>4, <1>5, <2>1, <2>2
    <2>3. CASE i # 1 /\ j # 1
      <3>1. i - 1 \in 1..Len(s) /\ j - 1 \in 1..Len(s) /\ s[i - 1] = s[j - 1]
        BY <1>4, <1>5, <2>3
      <3>2. i - 1 = j - 1
        BY <3>1 DEF Injective
      <3> QED BY <1>1, <1>2, <3>2
    <2> QED BY <2>2, <2>3
  <1>6. ASSUME NEW u PROVE Contains(w, u) <=> Contains(s, u) \/ u = t
    <2>1. ASSUME Contains(w, u), u # t PROVE Contains(s, u)
      <3>1. PICK i \in 1..Len(w) : w[i] = u
        BY <2>1 DEF Contains
      <3>2. i - 1 \in 1..Len(s) /\ s[i - 1] = u
        BY <1>3, <1>4, <2>1, <3>1
      <3> QED BY <3>2 DEF Contains
    <2>2. ASSUME Contains(s, u) PROVE Contains(w, u)
      <3>1. PICK i \in 1..Len(s) : s[i] = u
        BY <2>2 DEF Contains
      <3>2. i + 1 \in 1..Len(w) /\ w[i + 1] = u
        BY <1>1, <1>2, <1>3, <3>1
      <3> QED BY <3>2 DEF Contains
    <2>3. 1 \in 1..Len(w)
      BY <1>1, <1>2
    <2> QED BY <1>3, <2>1, <2>2, <2>3 DEF Contains
  <1> QED BY <1>2, <1>5, <1>6 DEF Injective, w

\* The sequence of a finite set.
LEMMA SetToSeqProperties ==
  ASSUME NEW S, IsFiniteSet(S)
  PROVE  /\ SetToSeq(S) \in Seq(S) /\ Injective(SetToSeq(S))
         /\ Len(SetToSeq(S)) = Cardinality(S)
  <1>1. Cardinality(S) \in Nat /\ ExistsBijection(1..Cardinality(S), S)
    BY FS_CardinalityType
  <1> DEFINE n == Cardinality(S)
  <1>2. \E f \in [1..n -> S] : IsInjective(f)
    BY <1>1 DEF ExistsBijection, Bijection, Injection
  <1> DEFINE f == CHOOSE f \in [1..n -> S] : IsInjective(f)
  <1>3. f \in [1..n -> S] /\ IsInjective(f)
    BY <1>2
  <1>4. SetToSeq(S) = f
    BY DEF SetToSeq
  <1> HIDE DEF f
  <1>5. f \in Seq(S) /\ Len(f) = n
    BY <1>1, <1>3
  <1>6. Injective(f)
    BY <1>3, <1>5 DEF Injective, IsInjective
  <1> QED BY <1>4, <1>5, <1>6
=============================================================================
