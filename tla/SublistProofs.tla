---------------------------- MODULE SublistProofs ----------------------------
(***************************************************************************)
(* Lemmas about sublists, about a list that an element enters in front or  *)
(* leaves, and about the first elements of a sequence.                     *)
(***************************************************************************)
EXTENDS Sublists, Integers, SequencesExt, FiniteSetTheorems, SequenceTheorems, TLAPS

UpTo(I, i) == {x \in I : x <= i}

(* What lies at or below i is finite, and is counted by a natural number. *)
LEMMA UpToFinite ==
    ASSUME NEW I, IsFiniteSet(I), NEW i
    PROVE  IsFiniteSet(UpTo(I, i)) /\ Cardinality(UpTo(I, i)) \in Nat
<1>1. UpTo(I, i) \in SUBSET I
  BY DEF UpTo
<1> QED
  BY <1>1, FS_Subset, FS_CardinalityType

(* A larger member of I has more members of I up to it. *)
LEMMA UpToGrows ==
    ASSUME NEW I \in SUBSET Int, IsFiniteSet(I), NEW i \in I, NEW m \in I, i < m
    PROVE  Cardinality(UpTo(I, i)) < Cardinality(UpTo(I, m))
<1>1. UpTo(I, i) \in SUBSET UpTo(I, m) /\ m \in UpTo(I, m) /\ m \notin UpTo(I, i)
  <2>1. i \in Int /\ m \in Int /\ \A x \in I : x \in Int
    OBVIOUS
  <2>2. \A x \in I : x <= i => x <= m
    BY <2>1
  <2>3. m <= m /\ ~(m <= i)
    BY <2>1
  <2> QED
    BY <2>2, <2>3 DEF UpTo
<1>2. /\ IsFiniteSet(UpTo(I, m))
      /\ Cardinality(UpTo(I, i)) \in Nat /\ Cardinality(UpTo(I, m)) \in Nat
  BY UpToFinite
<1>3. /\ Cardinality(UpTo(I, i)) <= Cardinality(UpTo(I, m))
      /\ Cardinality(UpTo(I, m)) = Cardinality(UpTo(I, i)) => UpTo(I, m) = UpTo(I, i)
  BY <1>1, <1>2, FS_Subset
<1> QED
  BY <1>1, <1>2, <1>3

(* Nth is defined for every k up to the size of the set: ranks are         *)
(* different, and there are as many as members.                            *)
LEMMA NthInSet ==
    ASSUME NEW I \in SUBSET Int, IsFiniteSet(I), NEW k \in 1 .. Cardinality(I)
    PROVE  Nth(I, k) \in I /\ Cardinality(UpTo(I, Nth(I, k))) = k
<1> DEFINE n == Cardinality(I)
           rank == [i \in I |-> Cardinality(UpTo(I, i))]
<1>1. n \in Nat
  BY FS_CardinalityType
<1>2. ASSUME NEW i \in I PROVE rank[i] \in 1 .. n
  <2>1. UpTo(I, i) \in SUBSET I /\ i \in UpTo(I, i)
    BY DEF UpTo
  <2>2. IsFiniteSet(UpTo(I, i)) /\ Cardinality(UpTo(I, i)) \in Nat
    BY UpToFinite
  <2>3. Cardinality(UpTo(I, i)) <= n
    BY <2>1, FS_Subset
  <2>4. Cardinality(UpTo(I, i)) # 0
    BY <2>1, <2>2, FS_EmptySet
  <2> QED
    BY <1>1, <2>2, <2>3, <2>4
<1>3. ASSUME NEW i \in I, NEW m \in I, rank[i] = rank[m] PROVE i = m
  <2>1. rank[i] \in Nat /\ rank[m] \in Nat
    BY <1>1, <1>2
  <2>2. ~(i < m) /\ ~(m < i)
    BY <1>3, <2>1, UpToGrows
  <2> QED
    BY <2>2
<1>4. rank \in Injection(I, 1 .. n)
  BY <1>2, <1>3 DEF Injection, IsInjective
<1>5. IsFiniteSet(1 .. n) /\ Cardinality(1 .. n) = n
  BY <1>1, FS_Interval
<1>6. rank \in Surjection(I, 1 .. n)
  BY <1>4, <1>5, FS_Injection
<1>7. \E i \in I : Cardinality(UpTo(I, i)) = k
  BY <1>6 DEF Surjection
<1> QED
  BY <1>7 DEF Nth, UpTo

(* What is kept of a sequence is a sequence over the same set, one element *)
(* for each position.                                                      *)
LEMMA KeptType ==
    ASSUME NEW S, NEW s \in Seq(S), NEW I \in SUBSET DOMAIN s
    PROVE  /\ Kept(s, I) \in Seq(S) /\ Len(Kept(s, I)) = Cardinality(I)
           /\ IsFiniteSet(I) /\ Cardinality(I) \in Nat
<1>1. I \in SUBSET (1 .. Len(s)) /\ Len(s) \in Nat
  OBVIOUS
<1>2. IsFiniteSet(I) /\ Cardinality(I) \in Nat
  <2>1. IsFiniteSet(1 .. Len(s))
    BY <1>1, FS_Interval
  <2>2. IsFiniteSet(I)
    BY <1>1, <2>1, FS_Subset
  <2> QED
    BY <2>2, FS_CardinalityType
<1>3. ASSUME NEW k \in 1 .. Cardinality(I) PROVE s[Nth(I, k)] \in S
  <2>1. Nth(I, k) \in I
    BY <1>1, <1>2, NthInSet
  <2> QED
    BY <1>1, <2>1
<1> QED
  BY <1>2, <1>3 DEF Kept

(* Kept takes the elements at the positions of I, and no others. *)
LEMMA KeptRange ==
    ASSUME NEW S, NEW s \in Seq(S), NEW I \in SUBSET DOMAIN s
    PROVE  Range(Kept(s, I)) = {s[i] : i \in I}
<1>1. /\ Kept(s, I) \in Seq(S) /\ Len(Kept(s, I)) = Cardinality(I)
      /\ IsFiniteSet(I) /\ Cardinality(I) \in Nat
  BY KeptType
<1>2. I \in SUBSET Int
  OBVIOUS
<1>3. DOMAIN Kept(s, I) = 1 .. Cardinality(I)
      /\ \A k \in 1 .. Cardinality(I) : Kept(s, I)[k] = s[Nth(I, k)]
  BY DEF Kept
<1>4. \A k \in 1 .. Cardinality(I) : Nth(I, k) \in I
  BY <1>1, <1>2, NthInSet
<1>5. ASSUME NEW i \in I
      PROVE  \E k \in 1 .. Cardinality(I) : Nth(I, k) = i
  <2> DEFINE k == Cardinality(UpTo(I, i))
  <2>1. UpTo(I, i) \in SUBSET I /\ i \in UpTo(I, i)
    BY <1>2 DEF UpTo
  <2>2. k \in Nat /\ IsFiniteSet(UpTo(I, i)) /\ k <= Cardinality(I)
    BY <1>1, <2>1, UpToFinite, FS_Subset
  <2>3. k # 0
    BY <2>1, <2>2, FS_EmptySet
  <2>4. k \in 1 .. Cardinality(I)
    BY <1>1, <2>2, <2>3
  <2>5. Nth(I, k) \in I /\ Cardinality(UpTo(I, Nth(I, k))) = Cardinality(UpTo(I, i))
    BY <1>1, <1>2, <2>4, NthInSet
  <2> HIDE DEF k
  <2>6. Nth(I, k) = i
    <3>1. ~(Nth(I, k) < i) /\ ~(i < Nth(I, k))
      <4>1. Nth(I, k) < i => Cardinality(UpTo(I, Nth(I, k))) < Cardinality(UpTo(I, i))
        BY <1>1, <1>2, <2>5, UpToGrows
      <4>2. i < Nth(I, k) => Cardinality(UpTo(I, i)) < Cardinality(UpTo(I, Nth(I, k)))
        BY <1>1, <1>2, <2>5, UpToGrows
      <4>3. Cardinality(UpTo(I, i)) \in Int
        BY <2>2, UpToFinite, <1>1
      <4> QED
        BY <2>5, <4>1, <4>2, <4>3
    <3>2. Nth(I, k) \in Int /\ i \in Int
      BY <1>2, <2>5
    <3> QED
      BY <3>1, <3>2
  <2> QED
    BY <2>4, <2>6
<1>6. \A x : x \in Range(Kept(s, I)) <=> \E k \in 1 .. Cardinality(I) : x = s[Nth(I, k)]
  BY <1>3 DEF Range
<1> QED
  BY <1>4, <1>5, <1>6

-----------------------------------------------------------------------------
(* What a sequence is behind a new first element. *)
LEMMA Prepend ==
    ASSUME NEW S, NEW s \in Seq(S), NEW e \in S
    PROVE  /\ <<e>> \o s \in Seq(S)
           /\ Len(<<e>> \o s) = Len(s) + 1
           /\ (<<e>> \o s)[1] = e
           /\ \A i \in 1 .. Len(s) : (<<e>> \o s)[i + 1] = s[i]
<1>1. <<e>> \in Seq(S) /\ Len(<<e>>) = 1 /\ <<e>>[1] = e
  OBVIOUS
<1>2. /\ <<e>> \o s \in Seq(S) /\ Len(<<e>> \o s) = Len(<<e>>) + Len(s)
      /\ \A i \in 1 .. Len(<<e>>) + Len(s) :
             (<<e>> \o s)[i] = IF i <= Len(<<e>>) THEN <<e>>[i] ELSE s[i - Len(<<e>>)]
  BY <1>1, ConcatProperties
<1>3. Len(s) \in Nat
  OBVIOUS
<1> QED
  BY <1>1, <1>2, <1>3

(* RemoveAt takes one place out and closes the gap. *)
LEMMA RemoveAtPlace ==
    ASSUME NEW S, NEW s \in Seq(S), NEW p \in 1 .. Len(s)
    PROVE  /\ RemoveAt(s, p) \in Seq(S)
           /\ Len(RemoveAt(s, p)) = Len(s) - 1
           /\ \A i \in 1 .. Len(s) - 1 :
                  RemoveAt(s, p)[i] = IF i < p THEN s[i] ELSE s[i + 1]
<1> DEFINE front == SubSeq(s, 1, p - 1)
           back == SubSeq(s, p + 1, Len(s))
<1>1. Len(s) \in Nat /\ \A i \in 1 .. Len(s) : s[i] \in S
  OBVIOUS
<1>2. /\ front \in Seq(S) /\ Len(front) = p - 1
      /\ \A i \in 1 .. p - 1 : front[i] = s[i]
  <2>1. \A i \in 1 .. p - 1 : s[i] \in S
    BY <1>1
  <2>2. /\ front \in Seq(S)
        /\ Len(front) = IF 1 <= p - 1 THEN p - 1 - 1 + 1 ELSE 0
        /\ \A i \in 1 .. p - 1 - 1 + 1 : front[i] = s[1 + i - 1]
    BY <2>1, <1>1, SubSeqProperties
  <2> QED
    BY <2>2, <1>1
<1>3. /\ back \in Seq(S) /\ Len(back) = Len(s) - p
      /\ \A i \in 1 .. Len(s) - p : back[i] = s[p + i]
  <2>1. \A i \in p + 1 .. Len(s) : s[i] \in S
    BY <1>1
  <2>2. /\ back \in Seq(S)
        /\ Len(back) = IF p + 1 <= Len(s) THEN Len(s) - (p + 1) + 1 ELSE 0
        /\ \A i \in 1 .. Len(s) - (p + 1) + 1 : back[i] = s[p + 1 + i - 1]
    BY <2>1, <1>1, SubSeqProperties
  <2> QED
    BY <2>2, <1>1
<1>4. /\ front \o back \in Seq(S) /\ Len(front \o back) = Len(front) + Len(back)
      /\ \A i \in 1 .. Len(front) + Len(back) :
             (front \o back)[i] = IF i <= Len(front) THEN front[i] ELSE back[i - Len(front)]
  BY <1>2, <1>3, ConcatProperties
<1>5. RemoveAt(s, p) = front \o back
  BY DEF RemoveAt
<1> HIDE DEF front, back
<1>6. p \in Int /\ 1 <= p /\ p <= Len(s)
  BY <1>1
<1>7. Len(front) + Len(back) = Len(s) - 1
  BY <1>1, <1>2, <1>3, <1>6
<1>8. ASSUME NEW i \in 1 .. Len(s) - 1
      PROVE  (front \o back)[i] = IF i < p THEN s[i] ELSE s[i + 1]
  <2>1. i \in Int /\ i \in 1 .. Len(front) + Len(back)
    BY <1>1, <1>7
  <2>2. CASE i < p
    <3>1. i <= Len(front) /\ i \in 1 .. p - 1
      BY <1>2, <1>6, <2>1, <2>2
    <3> QED
      BY <1>2, <1>4, <2>1, <2>2, <3>1
  <2>3. CASE ~(i < p)
    <3>1. /\ ~(i <= Len(front)) /\ i - Len(front) \in 1 .. Len(s) - p
          /\ p + (i - Len(front)) = i + 1
      BY <1>1, <1>2, <1>6, <2>1, <2>3
    <3>2. back[i - Len(front)] = s[i + 1]
      BY <1>3, <3>1
    <3> QED
      BY <1>4, <2>1, <2>3, <3>1, <3>2
  <2> QED
    BY <2>2, <2>3
<1> QED
  BY <1>4, <1>5, <1>7, <1>8

(* A sequence without repetition has as many elements as places. *)
LEMMA InjectiveLength ==
    ASSUME NEW S, NEW s \in Seq(S),
           \A i, k \in DOMAIN s : s[i] = s[k] => i = k
    PROVE  Len(s) = Cardinality(Range(s))
<1>1. DOMAIN s = 1 .. Len(s) /\ Len(s) \in Nat
  OBVIOUS
<1>2. s \in Bijection(1 .. Len(s), Range(s))
  BY <1>1 DEF Bijection, Injection, Surjection, IsInjective, Range
<1> QED
  BY <1>1, <1>2, FS_CountingElements DEF ExistsBijection

(* An element in front is one more of the list's elements. *)
LEMMA PrependRange ==
    ASSUME NEW S, NEW s \in Seq(S), NEW e \in S
    PROVE  Range(<<e>> \o s) = Range(s) \cup {e}
<1> DEFINE t == <<e>> \o s
<1>1. /\ t \in Seq(S) /\ Len(t) = Len(s) + 1 /\ t[1] = e
      /\ \A i \in 1 .. Len(s) : t[i + 1] = s[i]
  BY Prepend
<1>2. Len(s) \in Nat /\ DOMAIN s = 1 .. Len(s) /\ DOMAIN t = 1 .. Len(s) + 1
  BY <1>1
<1> HIDE DEF t
<1>3. \A i \in DOMAIN t : i = 1 \/ (i - 1 \in DOMAIN s /\ t[i] = s[i - 1])
  <2> TAKE i \in DOMAIN t
  <2>1. i = 1 \/ (i - 1 \in 1 .. Len(s) /\ (i - 1) + 1 = i)
    BY <1>2
  <2> QED
    BY <1>1, <1>2, <2>1
<1>4. Range(t) \subseteq Range(s) \cup {e}
  BY <1>1, <1>3 DEF Range
<1>5. e \in Range(t) /\ \A i \in DOMAIN s : s[i] \in Range(t)
  <2>1. 1 \in DOMAIN t /\ \A i \in DOMAIN s : i + 1 \in DOMAIN t
    BY <1>2
  <2> QED
    BY <1>1, <1>2, <2>1 DEF Range
<1> QED
  BY <1>4, <1>5 DEF Range, t

(* What an element in front, or the loss of one, does to the set a list    *)
(* without repetition stands for.                                          *)
LEMMA PrependSet ==
    ASSUME NEW S, NEW s \in Seq(S), NEW e \in S, IsInjective(s), e \notin Range(s)
    PROVE  IsInjective(<<e>> \o s) /\ Range(<<e>> \o s) = Range(s) \cup {e}
<1> DEFINE t == <<e>> \o s
<1>1. /\ t \in Seq(S) /\ Len(t) = Len(s) + 1 /\ t[1] = e
      /\ \A i \in 1 .. Len(s) : t[i + 1] = s[i]
  BY Prepend
<1>2. Len(s) \in Nat /\ DOMAIN s = 1 .. Len(s) /\ DOMAIN t = 1 .. Len(s) + 1
  BY <1>1
<1> HIDE DEF t
<1>3. \A i \in DOMAIN t : i = 1 \/ (i - 1 \in DOMAIN s /\ t[i] = s[i - 1])
  <2> TAKE i \in DOMAIN t
  <2>1. i = 1 \/ (i - 1 \in 1 .. Len(s) /\ (i - 1) + 1 = i)
    BY <1>2
  <2> QED
    BY <1>1, <1>2, <2>1
<1>4. IsInjective(t)
  <2> SUFFICES ASSUME NEW i \in DOMAIN t, NEW k \in DOMAIN t, t[i] = t[k] PROVE i = k
    BY DEF IsInjective
  <2>1. i \in Int /\ k \in Int
    BY <1>2
  <2>2. \A n \in DOMAIN s : s[n] # e
    BY DEF Range
  <2> QED
    BY <1>1, <1>3, <2>1, <2>2 DEF IsInjective
<1>5. Range(t) = Range(s) \cup {e}
  BY PrependRange DEF t
<1> QED
  BY <1>4, <1>5 DEF t

(* Out of a sequence without repetitions RemoveAt takes one element. *)
LEMMA RemoveSet ==
    ASSUME NEW S, NEW s \in Seq(S), IsInjective(s), NEW p \in DOMAIN s
    PROVE  IsInjective(RemoveAt(s, p)) /\ Range(RemoveAt(s, p)) = Range(s) \ {s[p]}
<1> DEFINE t == RemoveAt(s, p)
<1>1. /\ t \in Seq(S) /\ Len(t) = Len(s) - 1
      /\ \A i \in 1 .. Len(s) - 1 : t[i] = IF i < p THEN s[i] ELSE s[i + 1]
  BY RemoveAtPlace
<1>2. /\ Len(s) \in Nat /\ DOMAIN s = 1 .. Len(s) /\ DOMAIN t = 1 .. Len(s) - 1
      /\ p \in Int /\ 1 <= p /\ p <= Len(s)
  BY <1>1
<1> HIDE DEF t
<1>3. \A i \in DOMAIN t :
          \/ i < p /\ i \in DOMAIN s /\ t[i] = s[i]
          \/ i >= p /\ i + 1 \in DOMAIN s /\ t[i] = s[i + 1]
  BY <1>1, <1>2
<1>4. IsInjective(t)
  <2> SUFFICES ASSUME NEW i \in DOMAIN t, NEW k \in DOMAIN t, t[i] = t[k] PROVE i = k
    BY DEF IsInjective
  <2>1. i \in Int /\ k \in Int
    BY <1>2
  <2>2. \A m, n \in DOMAIN s : s[m] = s[n] => m = n
    BY DEF IsInjective
  <2> QED
    BY <1>2, <1>3, <2>1, <2>2
<1>5. \A i \in DOMAIN s : i = p \/ \E k \in DOMAIN t : t[k] = s[i]
  <2> TAKE i \in DOMAIN s
  <2>1. i \in Int /\ 1 <= i /\ i <= Len(s)
    BY <1>2
  <2>2. CASE i < p
    <3>1. i \in DOMAIN t /\ t[i] = s[i]
      BY <1>1, <1>2, <2>1, <2>2
    <3> QED
      BY <3>1
  <2>3. CASE i > p
    <3>1. i - 1 \in DOMAIN t /\ i - 1 \in 1 .. Len(s) - 1 /\ ~(i - 1 < p) /\ (i - 1) + 1 = i
      BY <1>2, <2>1, <2>3
    <3>2. t[i - 1] = s[i]
      BY <1>1, <3>1
    <3> QED
      BY <3>1, <3>2
  <2> QED
    BY <1>2, <2>1, <2>2, <2>3
<1>6. \A k \in DOMAIN t : t[k] # s[p] /\ \E i \in DOMAIN s : s[i] = t[k]
  <2> TAKE k \in DOMAIN t
  <2>1. k \in Int /\ \A m, n \in DOMAIN s : s[m] = s[n] => m = n
    BY <1>2 DEF IsInjective
  <2> QED
    BY <1>2, <1>3, <2>1
<1>7. Range(t) = Range(s) \ {s[p]}
  BY <1>5, <1>6 DEF Range
<1> QED
  BY <1>4, <1>7 DEF t

(* The front of a list and the rest of it. *)
LEMMA HeadTail ==
    ASSUME NEW S, NEW s \in Seq(S), s # <<>>
    PROVE  /\ Head(s) \in S /\ Head(s) \in Range(s)
           /\ Tail(s) \in Seq(S)
           /\ Range(s) = Range(Tail(s)) \cup {Head(s)}
<1>1. /\ Head(s) \in S /\ Tail(s) \in Seq(S) /\ Len(Tail(s)) = Len(s) - 1
      /\ \A i \in 1 .. Len(Tail(s)) : Tail(s)[i] = s[i + 1]
  BY HeadTailProperties
<1>2. /\ Head(s) = s[1] /\ Len(s) \in Nat /\ Len(s) # 0
      /\ DOMAIN s = 1 .. Len(s) /\ DOMAIN Tail(s) = 1 .. Len(s) - 1
  BY <1>1, EmptySeq
<1>3. \A i \in DOMAIN s : i = 1 \/ (i - 1 \in DOMAIN Tail(s) /\ Tail(s)[i - 1] = s[i])
  <2> TAKE i \in DOMAIN s
  <2>1. i = 1 \/ (i - 1 \in 1 .. Len(s) - 1 /\ (i - 1) + 1 = i)
    BY <1>2
  <2> QED
    BY <1>1, <1>2, <2>1
<1>4. \A i \in DOMAIN Tail(s) : i + 1 \in DOMAIN s /\ Tail(s)[i] = s[i + 1]
  BY <1>1, <1>2
<1>5. 1 \in DOMAIN s
  BY <1>2
<1> QED
  BY <1>1, <1>2, <1>3, <1>4, <1>5 DEF Range

(* A sequence that is not empty is its head and its tail. *)
LEMMA FrontAndRest ==
    ASSUME NEW S, NEW s \in Seq(S), s # <<>>
    PROVE  s = <<Head(s)>> \o Tail(s) /\ Head(s) \in S /\ Tail(s) \in Seq(S)
<1>1. /\ Head(s) \in S /\ Tail(s) \in Seq(S) /\ Len(Tail(s)) = Len(s) - 1
      /\ \A i \in 1 .. Len(Tail(s)) : Tail(s)[i] = s[i + 1]
  BY HeadTailProperties
<1>2. Len(s) \in Nat /\ Head(s) = s[1]
  OBVIOUS
<1> DEFINE t == <<Head(s)>> \o Tail(s)
<1>3. /\ t \in Seq(S) /\ Len(t) = Len(Tail(s)) + 1 /\ t[1] = Head(s)
      /\ \A i \in 1 .. Len(Tail(s)) : t[i + 1] = Tail(s)[i]
  BY <1>1, Prepend
<1> HIDE DEF t
<1>4. \A i \in 1 .. Len(s) : s[i] = t[i]
  <2> TAKE i \in 1 .. Len(s)
  <2>1. i = 1 \/ (i - 1 \in 1 .. Len(Tail(s)) /\ (i - 1) + 1 = i)
    BY <1>1, <1>2
  <2> QED
    BY <1>1, <1>2, <1>3, <2>1
<1>5. s = t
  <2>1. Len(s) = Len(t)
    BY <1>1, <1>2, <1>3
  <2> QED
    BY <1>3, <1>4, <2>1, SeqEqual
<1> QED
  BY <1>1, <1>5 DEF t

-----------------------------------------------------------------------------
(* A finite set of integers that has a member has a least one. *)
LEMMA LeastOfSome ==
    ASSUME NEW I \in SUBSET Int, IsFiniteSet(I), I # {}
    PROVE  Min(I) \in I /\ \A i \in I : Min(I) <= i
<1>1. Cardinality(I) \in Nat /\ Cardinality(I) # 0
  BY FS_EmptySet, FS_CardinalityType
<1> DEFINE least == Nth(I, 1)
<1>2. least \in I /\ Cardinality(UpTo(I, least)) = 1
  <2>1. 1 \in 1 .. Cardinality(I)
    BY <1>1
  <2> QED
    BY <2>1, NthInSet
<1> HIDE DEF least
<1>3. ASSUME NEW i \in I, i < least PROVE FALSE
  <2>1. Cardinality(UpTo(I, i)) < 1
    BY <1>2, <1>3, UpToGrows
  <2>2. IsFiniteSet(UpTo(I, i)) /\ Cardinality(UpTo(I, i)) \in Nat
    BY UpToFinite
  <2>3. UpTo(I, i) = {}
    BY <2>1, <2>2, FS_EmptySet
  <2>4. i \in UpTo(I, i)
    BY DEF UpTo
  <2> QED
    BY <2>3, <2>4
<1>4. \A i \in I : least <= i
  BY <1>2, <1>3
<1> QED
  BY <1>2, <1>4 DEF Min

(* The places of the elements of s that F takes to x, and how many there   *)
(* are when an element enters in front.                                    *)
PlacesOf(s, F, x) == {i \in DOMAIN s : F[s[i]] = x}

(* The places of s that F maps to x can be counted. *)
LEMMA CountType ==
    ASSUME NEW S, NEW s \in Seq(S), NEW F, NEW x
    PROVE  IsFiniteSet(PlacesOf(s, F, x)) /\ Cardinality(PlacesOf(s, F, x)) \in Nat
<1>1. PlacesOf(s, F, x) \in SUBSET (1 .. Len(s)) /\ Len(s) \in Nat
  BY DEF PlacesOf
<1>2. IsFiniteSet(1 .. Len(s))
  BY <1>1, FS_Interval
<1>3. IsFiniteSet(PlacesOf(s, F, x))
  BY <1>1, <1>2, FS_Subset
<1> QED
  BY <1>3, FS_CardinalityType

(* A new first element is one place more for what F maps it to. *)
LEMMA CountFront ==
    ASSUME NEW S, NEW s \in Seq(S), NEW e \in S, NEW F, NEW x
    PROVE  /\ Cardinality(PlacesOf(s, F, x)) \in Nat
           /\ Cardinality(PlacesOf(<<e>> \o s, F, x))
                  = Cardinality(PlacesOf(s, F, x)) + (IF F[e] = x THEN 1 ELSE 0)
<1> DEFINE t == <<e>> \o s
           P == PlacesOf(s, F, x)
           Q == {i + 1 : i \in P}
           f == [i \in P |-> i + 1]
<1>1. /\ t \in Seq(S) /\ Len(t) = Len(s) + 1 /\ t[1] = e
      /\ \A i \in 1 .. Len(s) : t[i + 1] = s[i]
  BY Prepend
<1>2. /\ Len(s) \in Nat /\ DOMAIN s = 1 .. Len(s) /\ DOMAIN t = 1 .. Len(s) + 1
  BY <1>1
<1>3. P \in SUBSET (1 .. Len(s)) /\ \A i \in P : i \in Nat /\ 1 <= i
  BY <1>2 DEF PlacesOf
<1>4. IsFiniteSet(P) /\ Cardinality(P) \in Nat
  BY CountType
<1>5. IsFiniteSet(Q) /\ Cardinality(Q) = Cardinality(P)
  <2> HIDE DEF P
  <2>1. f \in Injection(P, Q)
    BY <1>3 DEF Injection, IsInjective
  <2>2. f \in Surjection(P, Q)
    BY <1>3 DEF Surjection
  <2>3. ExistsBijection(P, Q)
    BY <2>1, <2>2 DEF ExistsBijection, Bijection
  <2> QED
    BY <1>4, <2>3, FS_Bijection
<1>6. \A i \in DOMAIN t : i = 1 \/ (i - 1 \in DOMAIN s /\ (i - 1) + 1 = i)
  BY <1>2
<1>7. 1 \in DOMAIN t /\ \A i \in DOMAIN s : i \in Int /\ i + 1 \in DOMAIN t
  BY <1>2
<1> HIDE DEF t
<1>8. \A i \in DOMAIN s : t[i + 1] = s[i]
  BY <1>1, <1>2
<1>9. PlacesOf(t, F, x) = IF F[e] = x THEN Q \cup {1} ELSE Q
  <2>1. ASSUME NEW i \in PlacesOf(t, F, x) PROVE i \in Q \/ (i = 1 /\ F[e] = x)
    <3>1. i \in DOMAIN t /\ F[t[i]] = x
      BY DEF PlacesOf
    <3>2. CASE i - 1 \in DOMAIN s /\ (i - 1) + 1 = i
      <4>1. F[s[i - 1]] = x
        BY <1>8, <3>1, <3>2
      <4>2. i - 1 \in P
        BY <3>2, <4>1 DEF PlacesOf
      <4> QED
        BY <3>2, <4>2
    <3> QED
      BY <1>1, <1>6, <3>1, <3>2
  <2>2. ASSUME NEW i \in P PROVE i + 1 \in PlacesOf(t, F, x)
    BY <1>7, <1>8 DEF PlacesOf
  <2>3. F[e] = x => 1 \in PlacesOf(t, F, x)
    BY <1>1, <1>7 DEF PlacesOf
  <2> QED
    BY <2>1, <2>2, <2>3
<1>10. 1 \notin Q
  BY <1>3
<1> HIDE DEF P, Q
<1>11. IsFiniteSet(Q \cup {1}) /\ Cardinality(Q \cup {1}) = Cardinality(Q) + 1
  BY <1>5, <1>10, FS_AddElement
<1> QED
  BY <1>4, <1>5, <1>9, <1>11 DEF t, P

-----------------------------------------------------------------------------
(* Some natural number of a set is the least one. *)
LEMMA LeastNat ==
    ASSUME NEW I \in SUBSET Nat, I # {}
    PROVE  \E n \in I : \A m \in I : n <= m
<1>1. PICK k \in I : TRUE
  OBVIOUS
<1> DEFINE J == I \cap (0 .. k)
<1>2. k \in Nat /\ k \in J
  BY <1>1
<1>3. IsFiniteSet(0 .. k)
  BY <1>2, FS_Interval
<1>4. IsFiniteSet(J) /\ J \in SUBSET Int
  BY <1>3, FS_Subset
<1>5. Min(J) \in J /\ \A m \in J : Min(J) <= m
  BY <1>2, <1>4, LeastOfSome
<1> DEFINE n == Min(J)
<1>6. n \in I /\ n <= k /\ \A m \in J : n <= m
  BY <1>2, <1>5
<1> HIDE DEF n
<1>7. ASSUME NEW m \in I PROVE n <= m
  <2>1. CASE m <= k
    BY <1>2, <1>6, <2>1
  <2>2. CASE ~(m <= k)
    BY <1>2, <1>6, <2>2
  <2> QED
    BY <2>1, <2>2
<1> QED
  BY <1>6, <1>7

(* Some number of a finite set is the greatest one. *)
LEMMA GreatestOfSome ==
    ASSUME NEW I \in SUBSET Int, IsFiniteSet(I), I # {}
    PROVE  \E n \in I : \A m \in I : m <= n
<1> DEFINE opposite == [i \in I |-> 0 - i]
           J == {opposite[i] : i \in I}
<1>1. \A i \in I : opposite[i] \in Int
  OBVIOUS
<1>2. J \in SUBSET Int /\ J # {}
  BY <1>1
<1>3. IsFiniteSet(J)
  <2>1. opposite \in Surjection(I, J)
    BY DEF Surjection
  <2> QED
    BY <2>1, FS_Surjection
<1>4. Min(J) \in J /\ \A m \in J : Min(J) <= m
  BY <1>2, <1>3, LeastOfSome
<1>5. PICK n \in I : Min(J) = 0 - n
  BY <1>4
<1>6. ASSUME NEW m \in I PROVE m <= n
  <2>1. 0 - m \in J
    OBVIOUS
  <2>2. 0 - n <= 0 - m
    BY <1>4, <1>5, <2>1
  <2> QED
    BY <2>2
<1> QED
  BY <1>6

-----------------------------------------------------------------------------
(* The first m elements of a sequence. *)
Prefix(s, m) == SubSeq(s, 1, m)

(* A prefix has its length and the elements of the whole. *)
LEMMA PrefixType ==
    ASSUME NEW S, NEW s \in Seq(S), NEW m \in 0 .. Len(s)
    PROVE  /\ Prefix(s, m) \in Seq(S) /\ Len(Prefix(s, m)) = m
           /\ \A i \in 1 .. m : Prefix(s, m)[i] = s[i]
<1>1. Len(s) \in Nat /\ \A i \in 1 .. Len(s) : s[i] \in S
  OBVIOUS
<1> DEFINE n == Len(s)
<1>2. n \in Nat /\ m \in 0 .. n /\ \A i \in 1 .. n : s[i] \in S
  BY <1>1
<1> HIDE DEF n
<1>3. m \in Int /\ 1 \in Int /\ \A i \in 1 .. m : s[i] \in S
  BY <1>2
<1>4. /\ SubSeq(s, 1, m) \in Seq(S)
      /\ Len(SubSeq(s, 1, m)) = IF 1 <= m THEN m - 1 + 1 ELSE 0
      /\ \A i \in 1 .. m - 1 + 1 : SubSeq(s, 1, m)[i] = s[1 + i - 1]
  BY <1>3, SubSeqProperties
<1>5. (IF 1 <= m THEN m - 1 + 1 ELSE 0) = m /\ m - 1 + 1 = m
      /\ \A i \in 1 .. m : 1 + i - 1 = i
  BY <1>2
<1> QED
  BY <1>4, <1>5 DEF Prefix

(* A prefix of a prefix is one of the whole. *)
LEMMA PrefixOfPrefix ==
    ASSUME NEW S, NEW s \in Seq(S), NEW k \in 0 .. Len(s), NEW m \in 0 .. k
    PROVE  Prefix(Prefix(s, k), m) = Prefix(s, m)
<1> DEFINE p == Prefix(s, k)
           q == Prefix(p, m)
           r == Prefix(s, m)
<1>1. p \in Seq(S) /\ Len(p) = k /\ \A i \in 1 .. k : p[i] = s[i]
  BY PrefixType
<1>2. m \in 0 .. Len(s) /\ m \in 0 .. Len(p)
  BY <1>1
<1>3. r \in Seq(S) /\ Len(r) = m /\ \A i \in 1 .. m : r[i] = s[i]
  BY <1>2, PrefixType
<1>4. q \in Seq(S) /\ Len(q) = m /\ \A i \in 1 .. m : q[i] = p[i]
  BY <1>1, <1>2, PrefixType
<1> HIDE DEF p, q, r
<1>5. \A i \in 1 .. m : q[i] = r[i]
  BY <1>1, <1>3, <1>4
<1> QED
  BY <1>3, <1>4, <1>5, SeqEqual DEF p, q, r

(* The next prefix has the next element more. *)
LEMMA PrefixNext ==
    ASSUME NEW S, NEW s \in Seq(S), NEW m \in Nat, m < Len(s)
    PROVE  Prefix(s, m + 1) = Append(Prefix(s, m), s[m + 1])
<1> DEFINE p == Prefix(s, m)
           q == Prefix(s, m + 1)
           r == Append(p, s[m + 1])
<1>1. m \in 0 .. Len(s) /\ m + 1 \in 0 .. Len(s) /\ m + 1 \in 1 .. Len(s)
  OBVIOUS
<1>2. s[m + 1] \in S
  BY <1>1
<1>3. p \in Seq(S) /\ Len(p) = m /\ \A i \in 1 .. m : p[i] = s[i]
  BY <1>1, PrefixType
<1>4. q \in Seq(S) /\ Len(q) = m + 1 /\ \A i \in 1 .. m + 1 : q[i] = s[i]
  BY <1>1, PrefixType
<1>5. /\ r \in Seq(S) /\ Len(r) = m + 1 /\ r[m + 1] = s[m + 1]
      /\ \A i \in 1 .. m : r[i] = p[i]
  BY <1>2, <1>3, AppendProperties
<1> HIDE DEF p, q, r
<1>6. ASSUME NEW i \in 1 .. m + 1 PROVE q[i] = r[i]
  <2>1. i \in 1 .. m \/ i = m + 1
    OBVIOUS
  <2> QED
    BY <1>3, <1>4, <1>5, <2>1
<1> QED
  BY <1>4, <1>5, <1>6, SeqEqual DEF p, q, r

(* The whole is its longest prefix, and the empty sequence its shortest. *)
LEMMA PrefixEnds ==
    ASSUME NEW S, NEW s \in Seq(S)
    PROVE  Prefix(s, Len(s)) = s /\ Prefix(s, 0) = <<>>
<1>1. SubSeq(s, 1, Len(s)) = s
  BY SubSeqFull
<1>2. SubSeq(s, 1, 0) = <<>>
  BY SubSeqEmpty
<1> QED
  BY <1>1, <1>2 DEF Prefix

(* A new last element changes no prefix. *)
LEMMA PrefixAppend ==
    ASSUME NEW S, NEW s \in Seq(S), NEW e \in S, NEW m \in 0 .. Len(s)
    PROVE  Prefix(Append(s, e), m) = Prefix(s, m)
<1> DEFINE t == Append(s, e)
           p == Prefix(s, m)
           q == Prefix(t, m)
<1>1. t \in Seq(S) /\ Len(t) = Len(s) + 1 /\ \A i \in 1 .. Len(s) : t[i] = s[i]
  BY AppendProperties
<1>2. m \in 0 .. Len(t)
  BY <1>1
<1>3. p \in Seq(S) /\ Len(p) = m /\ \A i \in 1 .. m : p[i] = s[i]
  BY PrefixType
<1>4. q \in Seq(S) /\ Len(q) = m /\ \A i \in 1 .. m : q[i] = t[i]
  BY <1>1, <1>2, PrefixType
<1>5. \A i \in 1 .. m : i \in 1 .. Len(s)
  OBVIOUS
<1> HIDE DEF p, q, t
<1>6. \A i \in 1 .. m : q[i] = p[i]
  BY <1>1, <1>3, <1>4, <1>5
<1> QED
  BY <1>3, <1>4, <1>6, SeqEqual DEF p, q, t

(* Append under a name that the provers do not look into. *)
Added(s, e) == Append(s, e)

(* Where two sequences with a last element are equal, so are their parts. *)
LEMMA AddedParts ==
    ASSUME NEW S, NEW s \in Seq(S), NEW t \in Seq(S), NEW e \in S, NEW d \in S,
           Added(s, e) = Added(t, d)
    PROVE  s = t /\ e = d
BY AppendInjective DEF Added

(* What SequencesExt calls a prefix. *)
LEMMA PrefixIs ==
    ASSUME NEW S, NEW s \in Seq(S), NEW t \in Seq(S)
    PROVE  /\ IsPrefix(s, t) <=> Len(s) <= Len(t) /\ s = Prefix(t, Len(s))
           /\ Prefixes(t) = {Prefix(t, m) : m \in 0 .. Len(t)}
<1>1. SubSeq(s, 1, Len(s)) = s
  BY SubSeqFull
<1> QED
  BY <1>1 DEF IsPrefix, Prefixes, Prefix
=============================================================================
