---------------------------- MODULE SequenceFacts ----------------------------
(***************************************************************************)
(* The elements of a queue, when it grows or is consumed, and of a list    *)
(* that holds each element once: the list of a set, and the list without   *)
(* one of its elements.                                                    *)
(***************************************************************************)
EXTENDS SequencesExt, SequenceTheorems, FiniteSetTheorems, TLAPS

\* Append adds one element, Tail drops the first.
LEMMA SetOfSeq ==
  ASSUME NEW S, NEW s \in Seq(S)
  PROVE  /\ ToSet(s) = {s[i] : i \in 1..Len(s)}
         /\ \A e \in S : ToSet(Append(s, e)) = ToSet(s) \cup {e}
         /\ s # <<>> => ToSet(s) = {Head(s)} \cup ToSet(Tail(s))
<1>1. ToSet(s) = {s[i] : i \in 1..Len(s)}
  BY DEF ToSet
<1>2. ASSUME NEW e \in S PROVE ToSet(Append(s, e)) = ToSet(s) \cup {e}
  <2>1. ToSet(Append(s, e)) = {Append(s, e)[i] : i \in 1..Len(s) + 1}
    BY DEF ToSet
  <2> QED
    BY <1>1, <2>1
<1>3. ASSUME s # <<>> PROVE ToSet(s) = {Head(s)} \cup ToSet(Tail(s))
  <2>1. ToSet(Tail(s)) = {Tail(s)[i] : i \in 1..Len(s) - 1}
    BY <1>3 DEF ToSet
  <2>2. /\ \A i \in 1..Len(s) - 1 : Tail(s)[i] = s[i + 1]
        /\ Head(s) = s[1] /\ Len(s) \in Nat /\ Len(s) >= 1
    BY <1>3
  <2>3. \A i \in 1..Len(s) : s[i] = Head(s) \/ s[i] \in ToSet(Tail(s))
    <3> TAKE i \in 1..Len(s)
    <3>1. CASE i = 1
      BY <2>2, <3>1
    <3>2. CASE i # 1
      <4>1. i - 1 \in 1..Len(s) - 1 /\ s[i] = Tail(s)[i - 1]
        BY <2>2, <3>2
      <4> QED
        BY <2>1, <4>1
    <3> QED
      BY <3>1, <3>2
  <2>4. ToSet(s) \subseteq {Head(s)} \cup ToSet(Tail(s))
    BY <1>1, <2>3
  <2>5. {Head(s)} \cup ToSet(Tail(s)) \subseteq ToSet(s)
    BY <1>1, <2>1, <2>2
  <2> QED
    BY <2>4, <2>5
<1> QED
  BY <1>1, <1>2, <1>3

LEMMA ContainsIsMember ==
  ASSUME NEW S, NEW s \in Seq(S), NEW e
  PROVE  Contains(s, e) <=> e \in ToSet(s)
BY DEF Contains, ToSet

\* A new element is added to a list.
LEMMA AppendNew ==
  ASSUME NEW S, NEW s \in Seq(S), IsInjective(s), NEW e \in S, e \notin ToSet(s)
  PROVE  IsInjective(Append(s, e))
<1>1. \A i \in 1..Len(s) : s[i] # e
  BY DEF ToSet
<1>2. /\ DOMAIN Append(s, e) = 1..Len(s) + 1 /\ Len(s) \in Nat
      /\ \A i \in 1..Len(s) : Append(s, e)[i] = s[i]
      /\ Append(s, e)[Len(s) + 1] = e
  OBVIOUS
<1>3. \A i \in 1..Len(s) + 1 : i \in 1..Len(s) \/ i = Len(s) + 1
  BY <1>2
<1>4. \A i, j \in 1..Len(s) : s[i] = s[j] => i = j
  BY DEF IsInjective
<1> QED
  BY <1>1, <1>2, <1>3, <1>4 DEF IsInjective

\* SetToSeq lists each element of a finite set once.
LEMMA ListOfSet ==
  ASSUME NEW S, IsFiniteSet(S)
  PROVE  /\ SetToSeq(S) \in Seq(S) /\ IsInjective(SetToSeq(S))
         /\ ToSet(SetToSeq(S)) = S
         /\ S # {} => SetToSeq(S) # <<>>
<1> DEFINE n == Cardinality(S)
           s == SetToSeq(S)
<1>1. n \in Nat /\ \E f : f \in Bijection(1..n, S)
  BY FS_CardinalityType DEF ExistsBijection
<1>2. \E f \in [1..n -> S] : IsInjective(f)
  BY <1>1 DEF Bijection, Injection, IsInjective
<1>3. s \in [1..n -> S] /\ IsInjective(s)
  BY <1>2 DEF SetToSeq
<1>4. s \in Injection(1..n, S)
  BY <1>3 DEF Injection, IsInjective
<1>5. IsFiniteSet(1..n) /\ Cardinality(1..n) = n
  <2>1. Cardinality(1..n) = IF 1 > n THEN 0 ELSE n - 1 + 1
    BY <1>1, FS_Interval
  <2> QED
    BY <1>1, <2>1, FS_Interval
<1>6. s \in Surjection(1..n, S)
  BY <1>4, <1>5, FS_Injection
<1>7. ToSet(s) = S
  BY <1>3, <1>6 DEF Surjection, ToSet
<1>8. s \in Seq(S)
  BY <1>1, <1>3
<1>9. S # {} => s # <<>>
  BY <1>7 DEF ToSet
<1> QED
  BY <1>3, <1>7, <1>8, <1>9

\* RemoveFirst takes an element out of a list that holds it once.
LEMMA ListWithout ==
  ASSUME NEW S, NEW s \in Seq(S), IsInjective(s), NEW e
  PROVE  /\ RemoveFirst(s, e) \in Seq(S) /\ IsInjective(RemoveFirst(s, e))
         /\ ToSet(RemoveFirst(s, e)) = ToSet(s) \ {e}
<1>1. CASE ~\E i \in 1..Len(s) : s[i] = e
  BY <1>1 DEF RemoveFirst, ToSet
<1>2. ASSUME NEW i \in 1..Len(s), s[i] = e
      PROVE  /\ RemoveFirst(s, e) \in Seq(S) /\ IsInjective(RemoveFirst(s, e))
             /\ ToSet(RemoveFirst(s, e)) = ToSet(s) \ {e}
  <2> DEFINE n == Len(s)
             left == SubSeq(s, 1, i - 1)
             right == SubSeq(s, i + 1, n)
             r == left \o right
  <2>1. \A j \in 1..n : s[j] = e <=> j = i
    BY <1>2 DEF IsInjective
  <2>2. SelectInSeq(s, LAMBDA v : v = e) = i
    <3>1. {j \in 1..Len(s) : s[j] = e} = {i}
      BY <2>1
    <3>2. Min({i}) = i
      BY DEF Min
    <3> QED
      BY <3>1, <3>2 DEF SelectInSeq
  <2>3. RemoveFirst(s, e) = r
    BY <1>2, <2>2 DEF RemoveFirst, RemoveAt
  <2>4. /\ left \in Seq(S) /\ Len(left) = i - 1
        /\ \A j \in 1..i - 1 : left[j] = s[j]
    <3>1. \A j \in 1..i - 1 : s[j] \in S
      OBVIOUS
    <3> QED
      BY <3>1, SubSeqProperties
  <2>5. /\ right \in Seq(S) /\ Len(right) = n - i
        /\ \A j \in 1..n - i : right[j] = s[i + j]
    <3>1. \A j \in i + 1..n : s[j] \in S
      OBVIOUS
    <3> QED
      BY <3>1, SubSeqProperties
  <2>6. /\ r \in Seq(S) /\ Len(r) = n - 1
        /\ \A j \in 1..n - 1 : r[j] = IF j < i THEN s[j] ELSE s[j + 1]
    <3>1. n \in Nat /\ i \in 1..n
      OBVIOUS
    <3> HIDE DEF n, left, right
    <3>2. /\ r \in Seq(S) /\ Len(r) = n - 1
          /\ \A j \in 1..n - 1 :
               r[j] = IF j <= i - 1 THEN left[j] ELSE right[j - (i - 1)]
      <4>1. /\ r \in Seq(S) /\ Len(r) = Len(left) + Len(right)
            /\ \A j \in 1..Len(left) + Len(right) :
                 r[j] = IF j <= Len(left) THEN left[j] ELSE right[j - Len(left)]
        BY <2>4, <2>5, ConcatProperties
      <4>2. Len(left) + Len(right) = n - 1
        BY <2>4, <2>5, <3>1
      <4> HIDE DEF r
      <4> QED
        BY <2>4, <4>1, <4>2
    <3> HIDE DEF r
    <3>3. ASSUME NEW j \in 1..n - 1
          PROVE  r[j] = IF j < i THEN s[j] ELSE s[j + 1]
      <4>1. CASE j < i
        BY <2>4, <3>1, <3>2, <4>1
      <4>2. CASE j >= i
        <5>1. j - (i - 1) \in 1..n - i /\ i + (j - (i - 1)) = j + 1
          BY <3>1, <4>2
        <5>2. right[j - (i - 1)] = s[j + 1]
          BY <2>5, <5>1
        <5> QED
          BY <3>1, <3>2, <4>2, <5>2
      <4> QED
        BY <3>1, <4>1, <4>2
    <3> QED
      BY <3>1, <3>2, <3>3
  <2>9. n \in Nat /\ i \in 1..n /\ DOMAIN r = 1..n - 1 /\ DOMAIN s = 1..n
    <3> HIDE DEF r
    <3> QED
      BY <2>6
  <2>7. IsInjective(r)
    <3>1. \A j, k \in 1..n : s[j] = s[k] => j = k
      BY <2>9 DEF IsInjective
    <3> HIDE DEF n, r
    <3>2. ASSUME NEW j \in 1..n - 1, NEW k \in 1..n - 1, r[j] = r[k]
          PROVE  j = k
      <4>1. j \in 1..n /\ j + 1 \in 1..n /\ k \in 1..n /\ k + 1 \in 1..n
        BY <2>9
      <4> QED
        BY <2>6, <2>9, <3>1, <3>2, <4>1
    <3> QED
      BY <2>9, <3>2 DEF IsInjective
  <2>8. ToSet(r) = ToSet(s) \ {e}
    <3> HIDE DEF n, r
    <3>1. \A j \in 1..n - 1 : \E k \in 1..n : k # i /\ r[j] = s[k]
      <4> TAKE j \in 1..n - 1
      <4>1. CASE j < i
        BY <2>6, <2>9, <4>1
      <4>2. CASE j >= i
        <5>1. j + 1 \in 1..n /\ j + 1 # i /\ r[j] = s[j + 1]
          BY <2>6, <2>9, <4>2
        <5> QED
          BY <5>1
      <4> QED
        BY <2>9, <4>1, <4>2
    <3>2. \A k \in 1..n : k # i => \E j \in 1..n - 1 : r[j] = s[k]
      <4> SUFFICES ASSUME NEW k \in 1..n, k # i
                   PROVE  \E j \in 1..n - 1 : r[j] = s[k]
        OBVIOUS
      <4>1. CASE k < i
        <5>1. k \in 1..n - 1 /\ r[k] = s[k]
          BY <2>6, <2>9, <4>1
        <5> QED
          BY <5>1
      <4>2. CASE k > i
        <5>1. k - 1 \in 1..n - 1 /\ k - 1 + 1 = k /\ ~(k - 1 < i)
          BY <2>9, <4>2
        <5>2. r[k - 1] = s[k]
          BY <2>6, <5>1
        <5> QED
          BY <5>1, <5>2
      <4> QED
        BY <2>9, <4>1, <4>2
    <3>3. ToSet(r) = {r[j] : j \in 1..n - 1} /\ ToSet(s) = {s[k] : k \in 1..n}
      BY <2>9 DEF ToSet
    <3>4. ToSet(r) \subseteq ToSet(s) \ {e}
      BY <2>1, <3>1, <3>3
    <3>5. ToSet(s) \ {e} \subseteq ToSet(r)
      BY <1>2, <3>2, <3>3
    <3> QED
      BY <3>4, <3>5
  <2> QED
    BY <2>3, <2>6, <2>7, <2>8
<1> QED
  BY <1>1, <1>2
=============================================================================
