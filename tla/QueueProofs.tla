----------------------------- MODULE QueueProofs -----------------------------
(* What Append and Tail do to a queue, place by place, and to the number of  *)
(* its elements that are in a set.                                           *)
EXTENDS Queues, SequenceTheorems, FiniteSetTheorems, TLAPS

LEMMA AppendPlaces ==
  ASSUME NEW T, NEW q \in Seq(T), NEW e \in T
  PROVE  /\ Append(q, e) \in Seq(T) /\ Append(q, e) = q \o <<e>>
         /\ \A i \in 1 .. Len(q) : i \in 1 .. Len(Append(q, e)) /\ Append(q, e)[i] = q[i]
         /\ Len(q) + 1 \in 1 .. Len(Append(q, e)) /\ Append(q, e)[Len(q) + 1] = e
         /\ \A i \in 1 .. Len(Append(q, e)) :
              i \in 1 .. Len(q) \/ (i = Len(q) + 1 /\ 1 .. (i - 1) = 1 .. Len(q))
<1>1. /\ Append(q, e) \in Seq(T) /\ Len(q) \in Nat
      /\ Len(Append(q, e)) = Len(q) + 1
      /\ \A i \in 1 .. Len(q) : Append(q, e)[i] = q[i]
      /\ Append(q, e)[Len(q) + 1] = e
      /\ Append(q, e) = q \o <<e>>
  BY AppendProperties, LenProperties, AppendIsConcat
<1>2. QED
  BY <1>1

LEMMA AppendTwo ==
  ASSUME NEW T, NEW q \in Seq(T), NEW d \in T, NEW e \in T
  PROVE  q \o <<d, e>> = Append(Append(q, d), e)
<1>1. <<d>> \in Seq(T) /\ <<e>> \in Seq(T) /\ <<d, e>> = <<d>> \o <<e>>
  <2>1. <<d>> \in Seq(T) /\ <<e>> \in Seq(T)
    OBVIOUS
  <2>2. <<d, e>> \in Seq(T)
    OBVIOUS
  <2>3. <<d>> \o <<e>> \in Seq(T) /\ Append(<<d>>, e) = <<d>> \o <<e>>
    BY <2>1, AppendIsConcat, ConcatProperties
  <2>4. Append(<<d>>, e) = <<d, e>>
    <3>1. Len(<<d>>) = 1 /\ <<d>>[1] = d /\ Len(<<d, e>>) = 2 /\ <<d, e>>[1] = d /\ <<d, e>>[2] = e
      OBVIOUS
    <3>2. Len(Append(<<d>>, e)) = 2 /\ Append(<<d>>, e)[1] = d /\ Append(<<d>>, e)[2] = e
      BY <2>1, <3>1, AppendProperties
    <3>3. \A i \in 1 .. Len(<<d, e>>) : i = 1 \/ i = 2
      BY <3>1
    <3>4. QED
      BY <2>2, <2>3, <3>1, <3>2, <3>3, SeqEqual
  <2>5. QED
    BY <2>1, <2>3, <2>4
<1>2. (q \o <<d>>) \o <<e>> = q \o (<<d>> \o <<e>>)
  BY <1>1, ConcatAssociative
<1>3. Append(q, d) = q \o <<d>> /\ Append(q, d) \in Seq(T)
  BY AppendPlaces
<1>4. Append(Append(q, d), e) = Append(q, d) \o <<e>>
  BY <1>3, AppendPlaces
<1>5. QED
  BY <1>1, <1>2, <1>3, <1>4

LEMMA TailPlaces ==
  ASSUME NEW T, NEW q \in Seq(T), q # <<>>
  PROVE  /\ Tail(q) \in Seq(T) /\ Head(q) \in T
         /\ 1 \in 1 .. Len(q) /\ Head(q) = q[1]
         /\ \A i \in 1 .. Len(Tail(q)) : i + 1 \in 1 .. Len(q) /\ Tail(q)[i] = q[i + 1] /\ i + 1 # 1
         /\ \A i \in 1 .. Len(q) :
              i = 1 \/ (i - 1 \in 1 .. Len(Tail(q)) /\ Tail(q)[i - 1] = q[i] /\ (i - 1) + 1 = i)
<1>1. Len(q) \in Nat \ {0}
  BY LenProperties, EmptySeq
<1>2. /\ Tail(q) \in Seq(T) /\ Head(q) \in T /\ Head(q) = q[1]
      /\ Len(Tail(q)) = Len(q) - 1
      /\ \A i \in 1 .. (Len(q) - 1) : Tail(q)[i] = q[i + 1]
  BY <1>1, HeadTailProperties, LenProperties, ElementOfSeq
<1>3. QED
  BY <1>1, <1>2

Places(q, S) == {i \in DOMAIN q : q[i] \in S}

LEMMA CountType ==
  ASSUME NEW T, NEW q \in Seq(T), NEW S
  PROVE  /\ IsFiniteSet(Places(q, S))
         /\ Count(q, S) = Cardinality(Places(q, S))
         /\ Count(q, S) \in Nat
<1>1. DOMAIN q = 1..Len(q) /\ Len(q) \in Nat
  BY LenProperties
<1>2. IsFiniteSet(1..Len(q))
  BY <1>1, FS_Interval
<1>3. Places(q, S) \in SUBSET (1..Len(q))
  BY <1>1 DEF Places
<1>4. IsFiniteSet(Places(q, S))
  BY <1>2, <1>3, FS_Subset
<1>5. Count(q, S) = Cardinality(Places(q, S))
  BY DEF Count, Places
<1>6. QED
  BY <1>4, <1>5, FS_CardinalityType

LEMMA CountEmpty ==
  ASSUME NEW S
  PROVE  Count(<<>>, S) = 0
<1>1. {i \in DOMAIN <<>> : <<>>[i] \in S} = {}
  OBVIOUS
<1>2. QED
  BY <1>1, FS_EmptySet DEF Count

LEMMA CountAppend ==
  ASSUME NEW T, NEW q \in Seq(T), NEW e \in T, NEW S
  PROVE  Count(Append(q, e), S) = Count(q, S) + Hit(e, S)
<1> DEFINE A == Places(q, S)
           n == Len(q) + 1
           B == Places(Append(q, e), S)
<1>0. /\ Append(q, e) \in Seq(T)
      /\ Count(q, S) = Cardinality(A) /\ Count(Append(q, e), S) = Cardinality(B)
  <2>1. Append(q, e) \in Seq(T)
    BY AppendProperties
  <2>2. QED
    BY <2>1, CountType
<1>1. DOMAIN q = 1..Len(q) /\ Len(q) \in Nat
  BY LenProperties
<1>2. /\ DOMAIN Append(q, e) = 1..n
      /\ \A i \in 1..Len(q) : Append(q, e)[i] = q[i]
      /\ Append(q, e)[n] = e
  BY AppendProperties, LenProperties
<1>3. IsFiniteSet(A) /\ n \notin A /\ Cardinality(A) \in Nat
  <2>1. IsFiniteSet(A) /\ Cardinality(A) \in Nat
    BY CountType
  <2>2. n \notin A
    BY <1>1 DEF Places
  <2>3. QED
    BY <2>1, <2>2
<1>4. CASE e \in S
  <2>1. B = A \cup {n}
    BY <1>1, <1>2, <1>4 DEF Places
  <2>2. Cardinality(B) = Cardinality(A) + 1
    BY <1>3, <2>1, FS_AddElement
  <2>3. Hit(e, S) = 1
    BY <1>4 DEF Hit
  <2>4. QED
    BY <1>0, <2>2, <2>3
<1>5. CASE e \notin S
  <2>1. B = A
    BY <1>1, <1>2, <1>5 DEF Places
  <2>2. Hit(e, S) = 0
    BY <1>5 DEF Hit
  <2>3. QED
    BY <1>0, <1>3, <2>1, <2>2
<1>6. QED
  BY <1>4, <1>5

LEMMA CountTail ==
  ASSUME NEW T, NEW q \in Seq(T), q # <<>>, NEW S
  PROVE  Count(q, S) = Count(Tail(q), S) + Hit(Head(q), S)
<1> DEFINE A == Places(q, S)
           B == Places(Tail(q), S)
           f == [i \in B |-> i + 1]
<1>1. DOMAIN q = 1..Len(q) /\ Len(q) \in Nat \ {0} /\ Head(q) = q[1]
  BY LenProperties, EmptySeq
<1>2. /\ Tail(q) \in Seq(T)
      /\ DOMAIN Tail(q) = 1..(Len(q) - 1)
      /\ \A i \in 1..(Len(q) - 1) : Tail(q)[i] = q[i + 1]
  BY <1>1, HeadTailProperties, LenProperties
<1>3. /\ IsFiniteSet(A) /\ Count(q, S) = Cardinality(A) /\ Cardinality(A) \in Nat
      /\ IsFiniteSet(B) /\ Count(Tail(q), S) = Cardinality(B) /\ Cardinality(B) \in Nat
  BY <1>2, CountType
<1>4. /\ \A i \in B : i \in Nat /\ i + 1 \in A \ {1}
      /\ \A j \in A \ {1} : j \in Nat /\ j - 1 \in B
  BY <1>1, <1>2 DEF Places
<1>5. f \in Bijection(B, A \ {1})
  <2>1. f \in [B -> A \ {1}]
    BY <1>4
  <2>2. \A i, j \in B : f[i] = f[j] => i = j
    BY <1>4
  <2>3. ASSUME NEW j \in A \ {1} PROVE \E i \in B : f[i] = j
    <3>1. j - 1 \in B /\ f[j - 1] = j
      BY <1>4
    <3>2. QED
      BY <3>1
  <2>4. f \in Injection(B, A \ {1})
    BY <2>1, <2>2 DEF Injection, IsInjective
  <2>5. f \in Surjection(B, A \ {1})
    BY <2>1, <2>3 DEF Surjection
  <2>6. QED
    BY <2>4, <2>5 DEF Bijection
<1>6. Cardinality(A \ {1}) = Cardinality(B)
  <2>1. ExistsBijection(B, A \ {1})
    BY <1>5 DEF ExistsBijection
  <2>2. QED
    BY <1>3, <2>1, FS_Bijection
<1>7. CASE Head(q) \in S
  <2>1. 1 \in A /\ Hit(Head(q), S) = 1
    BY <1>1, <1>7 DEF Places, Hit
  <2>2. Cardinality(A \ {1}) = Cardinality(A) - 1
    BY <1>3, <2>1, FS_RemoveElement
  <2>3. QED
    BY <1>3, <1>6, <2>1, <2>2
<1>8. CASE Head(q) \notin S
  <2>1. 1 \notin A /\ Hit(Head(q), S) = 0
    BY <1>1, <1>8 DEF Places, Hit
  <2>2. Cardinality(A \ {1}) = Cardinality(A)
    BY <1>3, <2>1, FS_RemoveElement
  <2>3. QED
    BY <1>3, <1>6, <2>1, <2>2
<1>9. QED
  BY <1>7, <1>8

LEMMA HitType ==
  ASSUME NEW x, NEW S
  PROVE  /\ Hit(x, S) \in Nat
         /\ x \in S => Hit(x, S) = 1
         /\ x \notin S => Hit(x, S) = 0
  BY DEF Hit
=============================================================================
