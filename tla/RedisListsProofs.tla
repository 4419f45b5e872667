-------------------------- MODULE RedisListsProofs --------------------------
(***************************************************************************)
(* What the Redis list commands do to membership, to the multiplicity of   *)
(* an element and to the order of two.                                     *)
(***************************************************************************)
EXTENDS RedisLists, WellFoundedInduction, SequenceTheorems, TLAPS

\* Every non-empty set of naturals has a least element.
LEMMA LeastElement ==
    ASSUME NEW I, I \subseteq Nat, I # {}
    PROVE  \E x \in I : \A y \in I : x <= y
<1> DEFINE R == OpToRel(<, Nat)
<1>1. PICK x \in I : \A y \in I : ~ (<<y, x>> \in R)
  <2>1. IsWellFoundedOn(R, Nat)
    BY NatLessThanWellFounded, Zenon
  <2> HIDE DEF R
  <2> QED BY <2>1, WFMin
<1>2. \A y \in I : ~ (y < x)
  BY <1>1 DEF OpToRel
<1> QED BY <1>2

\* LPUSH adds its element and nothing else, and duplicates it only if the list
\* held it already.
LEMMA LPushList ==
    ASSUME NEW S, NEW s \in Seq(S), NEW c \in S
    PROVE  /\ LPush(c, s) \in Seq(S)
           /\ In(c, LPush(c, s))
           /\ \A d : In(d, LPush(c, s)) <=> d = c \/ In(d, s)
           /\ \A d : AtMostOnce(d, s) /\ (d = c => ~In(c, s))
                       => AtMostOnce(d, LPush(c, s))
<1> DEFINE t == LPush(c, s)
<1>1. /\ t \in Seq(S)
      /\ Len(t) = Len(s) + 1
      /\ t[1] = c
      /\ \A i \in 1..Len(s) : t[i + 1] = s[i]
      /\ \A i \in 1..Len(t) : i # 1 => i - 1 \in 1..Len(s) /\ t[i] = s[i - 1]
  BY DEF LPush
<1> HIDE DEF t
<1>2. \A d : In(d, t) <=> d = c \/ In(d, s)
  <2> TAKE d
  <2>1. ASSUME In(d, t) PROVE d = c \/ In(d, s)
    BY <1>1, <2>1 DEF In
  <2>2. ASSUME d = c PROVE In(d, t)
    BY <1>1, <2>2 DEF In
  <2>3. ASSUME In(d, s) PROVE In(d, t)
    <3>1. PICK i \in 1..Len(s) : s[i] = d
      BY <2>3 DEF In
    <3>2. i + 1 \in 1..Len(t) /\ t[i + 1] = d
      BY <1>1, <3>1
    <3> QED BY <3>2 DEF In
  <2> QED BY <2>1, <2>2, <2>3
<1>3. ASSUME NEW d, AtMostOnce(d, s), d = c => ~In(c, s)
      PROVE  AtMostOnce(d, t)
  <2> SUFFICES ASSUME NEW i \in 1..Len(t), NEW j \in 1..Len(t),
                      t[i] = d, t[j] = d
               PROVE  i = j
    BY DEF AtMostOnce
  <2>1. CASE i = 1 \/ j = 1
    <3>1. d = c /\ ~In(c, s)
      BY <1>1, <1>3, <2>1
    <3> QED BY <1>1, <3>1 DEF In
  <2>2. CASE i # 1 /\ j # 1
    <3>1. i - 1 = j - 1
      BY <1>1, <1>3, <2>2 DEF AtMostOnce
    <3> QED BY <1>1, <3>1
  <2> QED BY <2>1, <2>2
<1> QED BY <1>1, <1>2, <1>3 DEF t

\* RPUSH, likewise.
LEMMA RPushList ==
    ASSUME NEW S, NEW s \in Seq(S), NEW c \in S
    PROVE  /\ RPush(s, c) \in Seq(S)
           /\ \A d : In(d, RPush(s, c)) <=> d = c \/ In(d, s)
           /\ \A d : AtMostOnce(d, s) /\ (d = c => ~In(c, s))
                       => AtMostOnce(d, RPush(s, c))
<1> DEFINE t == RPush(s, c)
<1>1. /\ t \in Seq(S)
      /\ Len(t) = Len(s) + 1
      /\ t[Len(s) + 1] = c
      /\ \A i \in 1..Len(s) : t[i] = s[i]
  BY DEF RPush
<1> HIDE DEF t
<1>2. \A d : In(d, t) <=> d = c \/ In(d, s)
  BY <1>1 DEF In
<1>3. ASSUME NEW d, AtMostOnce(d, s), d = c => ~In(c, s)
      PROVE  AtMostOnce(d, t)
  BY <1>1, <1>3 DEF AtMostOnce, In
<1> QED BY <1>1, <1>2, <1>3 DEF t

\* RPOP keeps every element but the last, each in its place.
LEMMA RPopElements ==
    ASSUME NEW S, NEW s \in Seq(S), s # <<>>
    PROVE  /\ Len(s) \in Nat \ {0}
           /\ RPop(s) \in Seq(S)
           /\ Len(RPop(s)) = Len(s) - 1
           /\ \A i \in 1..Len(RPop(s)) : RPop(s)[i] = s[i]
<1> DEFINE t == RPop(s)
<1>0. Len(s) \in Nat \ {0}
  OBVIOUS
<1>1. /\ t \in Seq(S)
      /\ Len(t) = Len(s) - 1
      /\ \A i \in 1..Len(t) : t[i] = s[i]
  <2>1. \A i \in 1..(Len(s) - 1) : s[i] \in S
    BY <1>0
  <2> DEFINE n == Len(s) - 1
  <2>2. 1 \in Int /\ n \in Int /\ 1 <= n + 1
    BY <1>0
  <2>3. t = SubSeq(s, 1, n)
    BY DEF RPop
  <2>4. \A i \in 1..n : s[i] \in S
    BY <2>1
  <2> HIDE DEF n
  <2>5. /\ t \in Seq(S)
        /\ Len(t) = IF 1 <= n THEN n - 1 + 1 ELSE 0
        /\ \A i \in 1..(n - 1 + 1) : t[i] = s[1 + i - 1]
    BY <2>2, <2>3, <2>4, SubSeqProperties
  <2>6. Len(t) = n /\ n - 1 + 1 = n
    BY <2>2, <2>5
  <2> QED BY <2>5, <2>6 DEF n
<1> QED BY <1>0, <1>1

\* RPOP takes the last element away and leaves the others as they were.
LEMMA RPopList ==
    ASSUME NEW S, NEW s \in Seq(S), s # <<>>
    PROVE  /\ RPop(s) \in Seq(S)
           /\ s[Len(s)] \in S
           /\ In(s[Len(s)], s)
           /\ \A d : In(d, RPop(s)) => In(d, s)
           /\ \A d : AtMostOnce(d, s) => AtMostOnce(d, RPop(s))
           /\ AtMostOnce(s[Len(s)], s) => ~In(s[Len(s)], RPop(s))
<1> DEFINE t == RPop(s)
<1>0. Len(s) \in Nat \ {0}
  OBVIOUS
<1>1. /\ t \in Seq(S)
      /\ Len(t) = Len(s) - 1
      /\ \A i \in 1..Len(t) : t[i] = s[i]
  BY RPopElements
<1> HIDE DEF t
<1>2. s[Len(s)] \in S /\ In(s[Len(s)], s)
  BY <1>0 DEF In
<1>3. \A d : In(d, t) => In(d, s)
  BY <1>0, <1>1 DEF In
<1>4. \A d : AtMostOnce(d, s) => AtMostOnce(d, t)
  BY <1>0, <1>1 DEF AtMostOnce
<1>5. ASSUME AtMostOnce(s[Len(s)], s), In(s[Len(s)], t) PROVE FALSE
  <2>1. PICK i \in 1..Len(t) : t[i] = s[Len(s)]
    BY <1>5 DEF In
  <2>2. i \in 1..Len(s) /\ i # Len(s) /\ s[i] = s[Len(s)]
    BY <1>0, <1>1, <2>1
  <2> QED BY <1>0, <1>5, <2>2 DEF AtMostOnce
<1> QED BY <1>1, <1>2, <1>3, <1>4, <1>5 DEF t

\* LREM 1 takes the first copy away, if there is one, and closes the gap.
LEMMA LRemElements ==
    ASSUME NEW S, NEW s \in Seq(S), NEW c
    PROVE  /\ ~In(c, s) => LRem(s, c) = s
           /\ In(c, s) =>
                \E k \in 1..Len(s) :
                    /\ s[k] = c
                    /\ LRem(s, c) \in Seq(S)
                    /\ Len(LRem(s, c)) = Len(s) - 1
                    /\ \A i \in 1..Len(LRem(s, c)) :
                          LRem(s, c)[i] = IF i < k THEN s[i] ELSE s[i + 1]
<1> DEFINE t == LRem(s, c)
<1>1. CASE ~ In(c, s)
  <2>1. t = s
    BY <1>1 DEF LRem, RemoveFirst, In
  <2> QED BY <1>1, <2>1
<1>2. CASE In(c, s)
  <2> DEFINE I == {i \in 1..Len(s) : s[i] = c}
             k == CHOOSE x \in I : \A y \in I : x <= y
  <2>1. \E x \in I : \A y \in I : x <= y
    <3>1. I # {} /\ I \subseteq Nat
      BY <1>2 DEF In
    <3> QED BY <3>1, LeastElement
  <2>2. k \in 1..Len(s) /\ s[k] = c
    BY <2>1
  <2>3. t = RemoveAt(s, k)
    <3>1. SelectInSeq(s, LAMBDA v : v = c) = k
      BY <2>1, <1>2 DEF SelectInSeq, Min, In
    <3> QED BY <3>1, <1>2 DEF LRem, RemoveFirst, In
  <2> HIDE DEF k
  <2>4. /\ t \in Seq(S)
        /\ Len(t) = Len(s) - 1
        /\ \A i \in 1..Len(t) : t[i] = IF i < k THEN s[i] ELSE s[i + 1]
    <3> DEFINE a == SubSeq(s, 1, k - 1)
               b == SubSeq(s, k + 1, Len(s))
    <3>0. Len(s) \in Nat /\ \A i \in 1..Len(s) : s[i] \in S
      OBVIOUS
    <3>1. /\ a \in Seq(S)
          /\ Len(a) = k - 1
          /\ \A i \in 1..(k - 1) : a[i] = s[i]
      <4>1. 1 \in Int /\ k - 1 \in Int /\ \A i \in 1..(k - 1) : s[i] \in S
        BY <2>2, <3>0
      <4> QED BY <2>2, <4>1, SubSeqProperties
    <3>2. /\ b \in Seq(S)
          /\ Len(b) = Len(s) - k
          /\ \A i \in 1..(Len(s) - k) : b[i] = s[k + i]
      <4>1. k + 1 \in Int /\ Len(s) \in Int /\ \A i \in (k + 1)..Len(s) : s[i] \in S
        BY <2>2, <3>0
      <4> QED BY <2>2, <4>1, SubSeqProperties
    <3>3. t = a \o b
      BY <2>3 DEF RemoveAt
    <3> HIDE DEF a, b
    <3>4. /\ a \o b \in Seq(S)
          /\ Len(a \o b) = Len(a) + Len(b)
          /\ \A i \in 1..(Len(a) + Len(b)) :
                (a \o b)[i] = IF i <= Len(a) THEN a[i] ELSE b[i - Len(a)]
      BY <3>1, <3>2, ConcatProperties
    <3>5. k \in Nat /\ Len(a) = k - 1 /\ Len(b) = Len(s) - k
      BY <2>2, <3>1, <3>2
    <3>6. Len(t) = Len(s) - 1
      BY <3>0, <3>3, <3>4, <3>5
    <3>7. ASSUME NEW i \in 1..Len(t)
          PROVE  t[i] = IF i < k THEN s[i] ELSE s[i + 1]
      <4>1. i \in 1..(Len(a) + Len(b)) /\ i \in Int
        BY <3>0, <3>5, <3>6
      <4>2. t[i] = IF i <= Len(a) THEN a[i] ELSE b[i - Len(a)]
        BY <3>3, <3>4, <4>1
      <4>3. CASE i < k
        <5>1. i <= Len(a) /\ i \in 1..(k - 1)
          BY <3>5, <4>1, <4>3
        <5> QED BY <3>1, <4>2, <4>3, <5>1
      <4>4. CASE ~(i < k)
        <5>1. ~(i <= Len(a)) /\ i - Len(a) \in 1..(Len(s) - k)
          BY <3>0, <3>5, <4>1, <4>4
        <5>2. k + (i - Len(a)) = i + 1
          BY <3>5, <4>1
        <5> QED BY <3>2, <4>2, <4>4, <5>1, <5>2
      <4> QED BY <4>3, <4>4
    <3> QED BY <3>3, <3>4, <3>6, <3>7
  <2> QED BY <1>2, <2>2, <2>4
<1> QED BY <1>1, <1>2

\* LREM 1 adds nothing, keeps every multiplicity, and removes the only copy.
LEMMA LRemList ==
    ASSUME NEW S, NEW s \in Seq(S), NEW c
    PROVE  /\ LRem(s, c) \in Seq(S)
           /\ \A d : In(d, LRem(s, c)) => In(d, s)
           /\ \A d : AtMostOnce(d, s) => AtMostOnce(d, LRem(s, c))
           /\ AtMostOnce(c, s) => ~In(c, LRem(s, c))
<1> DEFINE t == LRem(s, c)
<1>1. CASE ~In(c, s)
  <2>1. t = s
    BY <1>1, LRemElements
  <2> QED BY <1>1, <2>1
<1>2. CASE In(c, s)
  <2>1. PICK k \in 1..Len(s) :
          /\ s[k] = c
          /\ t \in Seq(S)
          /\ Len(t) = Len(s) - 1
          /\ \A i \in 1..Len(t) : t[i] = IF i < k THEN s[i] ELSE s[i + 1]
    BY <1>2, LRemElements
  <2> HIDE DEF t
  <2>2. \A d : In(d, t) => In(d, s)
    BY <2>1 DEF In
  <2>3. \A d : AtMostOnce(d, s) => AtMostOnce(d, t)
    BY <2>1 DEF AtMostOnce
  <2>4. AtMostOnce(c, s) => ~In(c, t)
    BY <2>1 DEF AtMostOnce, In
  <2> QED BY <2>1, <2>2, <2>3, <2>4 DEF t
<1> QED BY <1>1, <1>2

\* What LPUSH, RPUSH, RPOP and LREM do to the order of two elements.
LEMMA LPushOrder ==
    ASSUME NEW S, NEW s \in Seq(S), NEW c \in S, NEW a, NEW b,
           a # c, Before(a, b, s)
    PROVE  Before(a, b, LPush(c, s))
<1> DEFINE t == LPush(c, s)
<1>1. /\ Len(s) \in Nat
      /\ Len(t) = Len(s) + 1
      /\ t[1] = c
      /\ \A i \in 1..Len(t) : i # 1 => i - 1 \in 1..Len(s) /\ t[i] = s[i - 1]
  BY DEF LPush
<1> HIDE DEF t
<1>2. SUFFICES ASSUME NEW i \in 1..Len(t), NEW j \in 1..Len(t),
                      t[i] = a, t[j] = b
               PROVE  j < i
  BY DEF Before, t
<1>3. i # 1 /\ i - 1 \in 1..Len(s) /\ s[i - 1] = a
  BY <1>1, <1>2
<1>4. CASE j = 1
  BY <1>1, <1>3, <1>4
<1>5. CASE j # 1
  <2>1. j - 1 \in 1..Len(s) /\ s[j - 1] = b
    BY <1>1, <1>2, <1>5
  <2>2. j - 1 < i - 1
    BY <1>3, <2>1 DEF Before
  <2> QED BY <1>1, <1>3, <2>1, <2>2
<1> QED BY <1>4, <1>5

LEMMA RPushOrder ==
    ASSUME NEW S, NEW s \in Seq(S), NEW c \in S, NEW a, NEW b,
           a # c, b # c, Before(a, b, s)
    PROVE  Before(a, b, RPush(s, c))
<1> DEFINE t == RPush(s, c)
<1>1. /\ Len(t) = Len(s) + 1
      /\ t[Len(s) + 1] = c
      /\ \A i \in 1..Len(s) : t[i] = s[i]
  BY DEF RPush
<1> HIDE DEF t
<1>2. Before(a, b, t)
  BY <1>1 DEF Before
<1> QED BY <1>2 DEF t

LEMMA RPopOrder ==
    ASSUME NEW S, NEW s \in Seq(S), s # <<>>, NEW a, NEW b, Before(a, b, s)
    PROVE  /\ Before(a, b, RPop(s))
           /\ In(a, s) => s[Len(s)] # b
<1> DEFINE t == RPop(s)
<1>1. /\ Len(s) \in Nat \ {0}
      /\ Len(t) = Len(s) - 1
      /\ \A i \in 1..Len(t) : t[i] = s[i]
  BY RPopElements
<1> HIDE DEF t
<1>2. Before(a, b, t)
  BY <1>1 DEF Before
<1>3. In(a, s) => s[Len(s)] # b
  BY <1>1 DEF In, Before
<1> QED BY <1>2, <1>3 DEF t

LEMMA LRemOrder ==
    ASSUME NEW S, NEW s \in Seq(S), NEW c, NEW a, NEW b, Before(a, b, s)
    PROVE  Before(a, b, LRem(s, c))
<1> DEFINE t == LRem(s, c)
<1>1. CASE t = s
  BY <1>1
<1>2. CASE t # s
  <2>1. PICK k \in 1..Len(s) :
          /\ Len(t) = Len(s) - 1
          /\ \A i \in 1..Len(t) : t[i] = IF i < k THEN s[i] ELSE s[i + 1]
    BY <1>2, LRemElements
  <2> HIDE DEF t
  <2>2. SUFFICES ASSUME NEW i \in 1..Len(t), NEW j \in 1..Len(t),
                        t[i] = a, t[j] = b
                 PROVE  j < i
    BY DEF Before, t
  <2> DEFINE Old(n) == IF n < k THEN n ELSE n + 1
  <2>3. /\ Old(i) \in 1..Len(s) /\ s[Old(i)] = a
        /\ Old(j) \in 1..Len(s) /\ s[Old(j)] = b
    BY <2>1, <2>2
  <2>4. Old(j) < Old(i)
    BY <2>3 DEF Before
  <2> QED BY <2>1, <2>2, <2>4
<1> QED BY <1>1, <1>2

\* RPOP takes the last element away, every other is still there.
LEMMA RPopKeeps ==
    ASSUME NEW S, NEW s \in Seq(S), s # <<>>, NEW d, In(d, s), d # s[Len(s)]
    PROVE  In(d, RPop(s))
<1> DEFINE t == RPop(s)
<1>1. /\ Len(s) \in Nat \ {0}
      /\ Len(t) = Len(s) - 1
      /\ \A i \in 1..Len(t) : t[i] = s[i]
  BY RPopElements
<1> HIDE DEF t
<1>2. In(d, t)
  BY <1>1 DEF In
<1> QED BY <1>2 DEF t

\* LREM takes copies of its element away, every other is still there.
LEMMA LRemKeeps ==
    ASSUME NEW S, NEW s \in Seq(S), NEW c, NEW d, In(d, s), d # c
    PROVE  In(d, LRem(s, c))
<1> DEFINE t == LRem(s, c)
<1>1. CASE ~In(c, s)
  BY <1>1, LRemElements
<1>2. CASE In(c, s)
  <2>1. PICK k \in 1..Len(s) :
          /\ s[k] = c
          /\ Len(t) = Len(s) - 1
          /\ \A i \in 1..Len(t) : t[i] = IF i < k THEN s[i] ELSE s[i + 1]
    BY <1>2, LRemElements
  <2>2. PICK i \in 1..Len(s) : s[i] = d
    BY DEF In
  <2> HIDE DEF t
  <2>3. CASE i < k
    <3>1. i \in 1..Len(t) /\ t[i] = d
      BY <2>1, <2>2, <2>3
    <3>2. In(d, t)
      BY <3>1 DEF In
    <3> QED BY <3>2 DEF t
  <2>4. CASE i > k
    <3>1. i - 1 \in 1..Len(t) /\ t[i - 1] = d
      BY <2>1, <2>2, <2>4
    <3>2. In(d, t)
      BY <3>1 DEF In
    <3> QED BY <3>2 DEF t
  <2> QED BY <2>1, <2>2, <2>3, <2>4 DEF t
<1> QED BY <1>1, <1>2
=============================================================================
