------------------------- MODULE SubsequenceProofs -------------------------
(* Facts about subsequences: what they contain, and how they change when    *)
(* the sequence loses its head or gains an element.                         *)
EXTENDS Subsequences, SequenceTheorems, FiniteSetTheorems, FunctionTheorems,
        WellFoundedInduction, TLAPS

-----------------------------------------------------------------------------
(* Ranks. *)

(* A nonempty set of natural numbers has a least element. *)
LEMMA LeastElement ==
  ASSUME NEW S \in SUBSET Nat, S # {}
  PROVE  \E m \in S : \A k \in S : m <= k
<1>1. PICK m \in S : \A k \in S : ~(<<k, m>> \in OpToRel(<, Nat))
  BY NatLessThanWellFounded, WFMin
<1>2. \A k \in S : <<k, m>> \in Nat \X Nat
  OBVIOUS
<1>3. \A k \in S : ~(k < m)
  BY <1>1, <1>2 DEF OpToRel
<1>4. QED
  BY <1>3

(* The rank of a position among a set of positions. *)
Rank(q, S) == Cardinality({y \in S : y <= q})

(* Every rank up to the size of a finite set of naturals is taken: Nth is   *)
(* defined wherever Keep uses it.                                           *)
LEMMA NthRank ==
  ASSUME NEW S \in SUBSET Nat, IsFiniteSet(S), NEW x \in 1 .. Cardinality(S)
  PROVE  Nth(x, S) \in S /\ Rank(Nth(x, S), S) = x
<1> DEFINE below(q) == {y \in S : y <= q}
           taken(r) == \E q \in S : Cardinality(below(q)) = r
           bad == {r \in 1 .. Cardinality(S) : ~taken(r)}
<1>1. Cardinality(S) \in Nat /\ \A y \in S : y \in Nat
  BY FS_CardinalityType
<1>2. ASSUME bad # {} PROVE FALSE
  <2>1. PICK r \in bad : \A k \in bad : r <= k
    <3>1. bad \in SUBSET Nat
      BY <1>1
    <3> HIDE DEF bad
    <3>2. QED
      BY <1>2, <3>1, LeastElement
  <2>2. r \in 1 .. Cardinality(S) /\ ~taken(r)
    BY <2>1
  <2>3. CASE r = 1
    <3>1. S # {}
      BY <1>1, <2>2, FS_EmptySet
    <3>2. PICK m \in S : \A k \in S : m <= k
      BY <3>1, LeastElement
    <3>3. \A y \in S : y <= m => y = m
      BY <1>1, <3>2
    <3>4. below(m) = {m}
      <4>1. m <= m
        BY <1>1, <3>2
      <4>2. QED
        BY <3>2, <3>3, <4>1
    <3>5. Cardinality(below(m)) = 1
      BY <3>4, FS_Singleton
    <3>6. QED
      BY <2>2, <2>3, <3>2, <3>5
  <2>4. CASE r # 1
    <3>1. r - 1 \in 1 .. Cardinality(S) /\ r - 1 < r
      BY <1>1, <2>2, <2>4
    <3>2. taken(r - 1)
      <4>1. r - 1 \notin bad
        <5>1. bad \subseteq 1 .. Cardinality(S)
          OBVIOUS
        <5> HIDE DEF bad
        <5>2. QED
          BY <1>1, <2>1, <3>1, <5>1
      <4>2. QED
        BY <3>1, <4>1
    <3>3. PICK q \in S : Cardinality(below(q)) = r - 1
      BY <3>2
    <3> DEFINE above == {y \in S : y > q}
    <3>4. above # {}
      <4>1. ASSUME above = {} PROVE FALSE
        <5>1. \A y \in S : y <= q
          BY <1>1, <4>1
        <5>2. below(q) = S
          BY <5>1
        <5>3. Cardinality(S) = r - 1
          BY <3>3, <5>2
        <5>4. QED
          BY <1>1, <3>1, <5>3
      <4>2. QED
        BY <4>1
    <3>5. PICK m \in above : \A k \in above : m <= k
      <4>1. above \in SUBSET Nat
        BY <1>1
      <4> HIDE DEF above
      <4>2. QED
        BY <3>4, <4>1, LeastElement
    <3>6. m \in S /\ m > q /\ \A y \in S : y > q => m <= y
      BY <3>5
    <3>7. \A y \in S : y <= m <=> y <= q \/ y = m
      BY <1>1, <3>6
    <3>8. below(m) = below(q) \cup {m} /\ m \notin below(q)
      <4>1. m \notin below(q)
        BY <1>1, <3>6
      <4>2. QED
        BY <3>6, <3>7, <4>1
    <3>9. IsFiniteSet(below(q)) /\ Cardinality(below(q)) \in Nat
      <4>1. below(q) \in SUBSET S
        OBVIOUS
      <4> HIDE DEF below
      <4>2. QED
        BY <4>1, FS_Subset, FS_CardinalityType
    <3>10. Cardinality(below(m)) = r
      <4> HIDE DEF below
      <4>1. Cardinality(below(m)) = Cardinality(below(q)) + 1
        BY <3>8, <3>9, FS_AddElement
      <4>2. QED
        BY <1>1, <2>2, <3>3, <4>1
    <3>11. QED
      BY <2>2, <3>6, <3>10
  <2>5. QED
    BY <2>3, <2>4
<1>3. taken(x)
  BY <1>2
<1>4. QED
  BY <1>3 DEF Nth, Rank

(* A larger element has a larger rank. *)
LEMMA RankIncreases ==
  ASSUME NEW S \in SUBSET Nat, IsFiniteSet(S), NEW q \in S, NEW r \in S, q < r
  PROVE  Rank(q, S) < Rank(r, S)
<1> DEFINE B == {y \in S : y <= q}
           C == {y \in S : y <= r}
<1>1. B \in SUBSET C /\ C \in SUBSET S
  <2>1. \A y \in S : y <= q => y <= r
    OBVIOUS
  <2>2. QED
    BY <2>1
<1>2. r \in C /\ r \notin B
  OBVIOUS
<1>3. Rank(q, S) = Cardinality(B) /\ Rank(r, S) = Cardinality(C)
  BY DEF Rank
<1> HIDE DEF B, C
<1>4. IsFiniteSet(C)
  BY <1>1, FS_Subset
<1>5. Cardinality(B) <= Cardinality(C) /\ Cardinality(B) # Cardinality(C)
  BY <1>1, <1>2, <1>4, FS_Subset
<1>6. Cardinality(B) \in Nat /\ Cardinality(C) \in Nat
  BY <1>1, <1>4, FS_Subset, FS_CardinalityType
<1>7. QED
  BY <1>3, <1>5, <1>6

(* Ranks run from 1 to the size of the set. *)
LEMMA RankRange ==
  ASSUME NEW S \in SUBSET Nat, IsFiniteSet(S), NEW q \in S
  PROVE  Rank(q, S) \in 1 .. Cardinality(S)
<1> DEFINE B == {y \in S : y <= q}
<1>1. B \in SUBSET S /\ q \in B
  OBVIOUS
<1>2. Rank(q, S) = Cardinality(B)
  BY DEF Rank
<1> HIDE DEF B
<1>3. IsFiniteSet(B) /\ Cardinality(B) <= Cardinality(S)
  BY <1>1, FS_Subset
<1>4. Cardinality(B) \in Nat /\ Cardinality(S) \in Nat /\ Cardinality(B) # 0
  BY <1>1, <1>3, FS_CardinalityType, FS_EmptySet
<1>5. QED
  BY <1>2, <1>3, <1>4

(* So each element is the one of its rank. *)
LEMMA NthOfRank ==
  ASSUME NEW S \in SUBSET Nat, IsFiniteSet(S), NEW q \in S
  PROVE  Nth(Rank(q, S), S) = q
<1> DEFINE r == Nth(Rank(q, S), S)
<1>1. r \in S /\ Rank(r, S) = Rank(q, S)
  BY RankRange, NthRank
<1>2. q \in Nat /\ r \in Nat
  BY <1>1
<1>6. Rank(q, S) \in Nat
  BY RankRange, FS_CardinalityType
<1> HIDE DEF r
<1>3. ~(q < r) /\ ~(r < q)
  BY <1>6, <1>1, <1>2, RankIncreases
<1>4. q = r
  BY <1>2, <1>3
<1>5. QED
  BY <1>4 DEF r

(* The positions of a set that are left when the sequence loses its head. *)
Shift(S) == {x \in Nat \ {0} : x + 1 \in S}

LEMMA ShiftSize ==
  ASSUME NEW S \in SUBSET (Nat \ {0}), IsFiniteSet(S)
  PROVE  /\ IsFiniteSet(Shift(S)) /\ IsFiniteSet(S \ {1})
         /\ Cardinality(Shift(S)) = Cardinality(S \ {1})
<1> DEFINE f == [y \in S \ {1} |-> y - 1]
<1>1. IsFiniteSet(S \ {1})
  BY FS_RemoveElement
<1>2. f \in [S \ {1} -> Shift(S)]
  BY DEF Shift
<1>3. \A a, b \in S \ {1} : f[a] = f[b] => a = b
  OBVIOUS
<1>4. \A t \in Shift(S) : \E y \in S \ {1} : f[y] = t
  <2>1. ASSUME NEW t \in Shift(S) PROVE t + 1 \in S \ {1} /\ f[t + 1] = t
    BY DEF Shift
  <2>2. QED
    BY <2>1
<1>5. f \in Bijection(S \ {1}, Shift(S))
  BY <1>2, <1>3, <1>4, Fun_IsBij
<1>6. ExistsBijection(S \ {1}, Shift(S))
  BY <1>5 DEF ExistsBijection
<1>7. QED
  BY <1>1, <1>6, FS_Bijection

LEMMA ShiftRank ==
  ASSUME NEW S \in SUBSET (Nat \ {0}), IsFiniteSet(S), NEW q \in Shift(S)
  PROVE  /\ q + 1 \in S
         /\ 1 \in S => Rank(q + 1, S) = Rank(q, Shift(S)) + 1
         /\ 1 \notin S => Rank(q + 1, S) = Rank(q, Shift(S))
<1> DEFINE B == {y \in S : y <= q + 1}
<1>1. q \in Nat \ {0} /\ q + 1 \in S
  BY DEF Shift
<1>2. {y \in Shift(S) : y <= q} = Shift(B)
  BY <1>1 DEF Shift
<1>3. Rank(q + 1, S) = Cardinality(B) /\ Rank(q, Shift(S)) = Cardinality(Shift(B))
  BY <1>2 DEF Rank
<1>4. B \in SUBSET S /\ (1 \in B <=> 1 \in S)
  BY <1>1
<1> HIDE DEF B
<1>5. IsFiniteSet(B) /\ B \in SUBSET (Nat \ {0})
  BY <1>4, FS_Subset
<1>6. Cardinality(Shift(B)) = Cardinality(B \ {1}) /\ Cardinality(B) \in Nat
  BY <1>5, ShiftSize, FS_CardinalityType
<1>7. /\ 1 \in B => Cardinality(B \ {1}) = Cardinality(B) - 1
      /\ 1 \notin B => Cardinality(B \ {1}) = Cardinality(B)
  BY <1>5, FS_RemoveElement
<1>8. QED
  BY <1>1, <1>3, <1>4, <1>6, <1>7

(* Nth before and after the head is lost. *)
LEMMA ShiftNth ==
  ASSUME NEW S \in SUBSET (Nat \ {0}), IsFiniteSet(S),
         NEW x \in 1 .. Cardinality(Shift(S))
  PROVE  /\ Nth(x, Shift(S)) \in Nat \ {0}
         /\ 1 \in S => Nth(x + 1, S) = Nth(x, Shift(S)) + 1
         /\ 1 \notin S => Nth(x, S) = Nth(x, Shift(S)) + 1
<1> DEFINE q == Nth(x, Shift(S))
<1>1. Shift(S) \in SUBSET Nat /\ IsFiniteSet(Shift(S))
  BY ShiftSize DEF Shift
<1>2. q \in Shift(S) /\ Rank(q, Shift(S)) = x
  BY <1>1, NthRank
<1> HIDE DEF q
<1>3. q \in Nat \ {0}
  BY <1>2 DEF Shift
<1>4. Nth(Rank(q + 1, S), S) = q + 1
  <2>1. q + 1 \in S /\ S \in SUBSET Nat
    BY <1>2, ShiftRank
  <2>2. QED
    BY <2>1, NthOfRank
<1>5. /\ 1 \in S => Rank(q + 1, S) = x + 1
      /\ 1 \notin S => Rank(q + 1, S) = x
  BY <1>2, ShiftRank
<1>6. QED
  BY <1>3, <1>4, <1>5 DEF q

(* The first position, when it is kept. *)
LEMMA NthFirst ==
  ASSUME NEW S \in SUBSET (Nat \ {0}), IsFiniteSet(S), 1 \in S
  PROVE  Nth(1, S) = 1
<1>1. {y \in S : y <= 1} = {1}
  <2>1. \A y \in S : y <= 1 <=> y = 1
    OBVIOUS
  <2>2. QED
    BY <2>1
<1>2. Rank(1, S) = 1
  BY <1>1, FS_Singleton DEF Rank
<1>3. QED
  BY <1>2, NthOfRank

-----------------------------------------------------------------------------
(* Subsequences. *)

(* The positions of a sequence are a finite set of naturals. *)
LEMMA Positions ==
  ASSUME NEW T, NEW s \in Seq(T), NEW S \in SUBSET DOMAIN s
  PROVE  /\ S \in SUBSET (Nat \ {0}) /\ S \in SUBSET Nat /\ S \subseteq 1 .. Len(s)
         /\ IsFiniteSet(S) /\ Cardinality(S) \in Nat /\ Cardinality(S) <= Len(s)
<1>1. DOMAIN s = 1 .. Len(s) /\ Len(s) \in Nat
  BY LenProperties
<1>2. IsFiniteSet(1 .. Len(s)) /\ Cardinality(1 .. Len(s)) = Len(s)
  <2>1. 1 \in Int /\ Len(s) \in Int
    BY <1>1
  <2>2. /\ IsFiniteSet(1 .. Len(s))
        /\ Cardinality(1 .. Len(s)) = IF 1 > Len(s) THEN 0 ELSE Len(s) - 1 + 1
    BY <2>1, FS_Interval
  <2>3. QED
    BY <1>1, <2>2
<1>3. S \in SUBSET (1 .. Len(s))
  BY <1>1
<1>4. IsFiniteSet(S) /\ Cardinality(S) <= Len(s)
  BY <1>2, <1>3, FS_Subset
<1>5. QED
  BY <1>3, <1>4, FS_CardinalityType

(* A subsequence holds elements of the sequence. *)
LEMMA SubsequenceProperties ==
  ASSUME NEW T, NEW s \in Seq(T), NEW S \in SUBSET DOMAIN s
  PROVE  /\ Subsequence(s, S) \in Seq(T)
         /\ Len(Subsequence(s, S)) = Cardinality(S)
         /\ DOMAIN Subsequence(s, S) = 1 .. Cardinality(S)
         /\ \A x \in 1 .. Cardinality(S) :
              Nth(x, S) \in S /\ Subsequence(s, S)[x] = s[Nth(x, S)]
<1>1. /\ S \in SUBSET Nat /\ S \subseteq 1 .. Len(s) /\ Cardinality(S) \in Nat
      /\ IsFiniteSet(S)
  BY Positions
<1>2. \A x \in 1 .. Cardinality(S) : Nth(x, S) \in S
  BY <1>1, NthRank
<1>3. \A x \in 1 .. Cardinality(S) : s[Nth(x, S)] \in T
  BY <1>1, <1>2, ElementOfSeq
<1>4. [x \in 1 .. Cardinality(S) |-> s[Nth(x, S)]] \in [1 .. Cardinality(S) -> T]
  BY <1>3
<1>5. Subsequence(s, S) \in Seq(T)
  BY <1>1, <1>4, SeqDef DEF Subsequence
<1>6. DOMAIN Subsequence(s, S) = 1 .. Cardinality(S)
  BY DEF Subsequence
<1>7. Len(Subsequence(s, S)) = Cardinality(S)
  <2>1. /\ Len(Subsequence(s, S)) \in Nat
        /\ DOMAIN Subsequence(s, S) = 1 .. Len(Subsequence(s, S))
    BY <1>5, LenProperties
  <2> DEFINE n == Len(Subsequence(s, S))
             m == Cardinality(S)
  <2>2. n \in Nat /\ m \in Nat /\ 1 .. n = 1 .. m
    BY <1>1, <1>6, <2>1
  <2> HIDE DEF n, m
  <2>3. n = m
    <3>1. n \in 1 .. n \/ n = 0
      BY <2>2
    <3>2. m \in 1 .. m \/ m = 0
      BY <2>2
    <3>3. n <= m
      BY <2>2, <3>1
    <3>4. m <= n
      BY <2>2, <3>2
    <3>5. QED
      BY <2>2, <3>3, <3>4
  <2>4. QED
    BY <2>3 DEF n, m
<1>8. \A x \in 1 .. Cardinality(S) : Subsequence(s, S)[x] = s[Nth(x, S)]
  BY DEF Subsequence
<1>9. QED
  BY <1>2, <1>5, <1>6, <1>7, <1>8

(* What a subsequence is typed as, whatever is removed. *)
LEMMA SubsequenceType ==
  ASSUME NEW T, NEW s \in Seq(T), NEW R
  PROVE  Subsequence(s, DOMAIN s \ R) \in Seq(T)
<1>1. DOMAIN s \ R \in SUBSET DOMAIN s
  OBVIOUS
<1>2. QED
  BY <1>1, SubsequenceProperties

(* Every kept element is in the subsequence. *)
LEMMA SubsequenceOnto ==
  ASSUME NEW T, NEW s \in Seq(T), NEW S \in SUBSET DOMAIN s, NEW q \in S
  PROVE  \E x \in DOMAIN Subsequence(s, S) : Subsequence(s, S)[x] = s[q]
<1>1. S \in SUBSET Nat /\ IsFiniteSet(S)
  BY Positions
<1>2. Rank(q, S) \in 1 .. Cardinality(S) /\ Nth(Rank(q, S), S) = q
  BY <1>1, RankRange, NthOfRank
<1>3. QED
  BY <1>2, SubsequenceProperties

(* A position below another is enumerated before it. *)
LEMMA NthIncreases ==
  ASSUME NEW S \in SUBSET Nat, IsFiniteSet(S),
         NEW x \in 1 .. Cardinality(S), NEW y \in 1 .. Cardinality(S), x < y
  PROVE  Nth(x, S) < Nth(y, S)
<1> DEFINE q == Nth(x, S)
           r == Nth(y, S)
<1>1. /\ q \in S /\ Rank(q, S) = x /\ r \in S /\ Rank(r, S) = y
  BY NthRank
<1> HIDE DEF q, r
<1>2. q \in Nat /\ r \in Nat /\ x \in Nat /\ y \in Nat
  BY <1>1, FS_CardinalityType
<1>3. r < q => Rank(r, S) < Rank(q, S)
  BY <1>1, RankIncreases
<1>4. q # r
  BY <1>1, <1>2
<1>5. ~(r < q)
  BY <1>1, <1>2, <1>3
<1>6. QED
  BY <1>2, <1>4, <1>5 DEF q, r

(* Nothing kept, nothing left. *)
LEMMA SubsequenceNone == ASSUME NEW s PROVE Subsequence(s, {}) = <<>>
<1>1. Cardinality({}) = 0
  BY FS_EmptySet
<1>2. 1 .. 0 = {}
  OBVIOUS
<1>3. Subsequence(s, {}) = [x \in {} |-> s[Nth(x, {})]]
  BY <1>1, <1>2 DEF Subsequence
<1>4. [x \in {} |-> s[Nth(x, {})]] = <<>>
  OBVIOUS
<1>5. QED
  BY <1>3, <1>4

(* Without its head, a sequence has the same subsequence without its head,  *)
(* if that is kept, and else the same.                                      *)
LEMMA SubsequenceTail ==
  ASSUME NEW T, NEW s \in Seq(T), s # <<>>, NEW S \in SUBSET DOMAIN s
  PROVE  /\ Shift(S) \in SUBSET DOMAIN Tail(s)
         /\ 1 \notin S => Subsequence(Tail(s), Shift(S)) = Subsequence(s, S)
         /\ 1 \in S => /\ Subsequence(s, S) # <<>>
                       /\ Head(Subsequence(s, S)) = Head(s)
                       /\ Tail(Subsequence(s, S)) = Subsequence(Tail(s), Shift(S))
<1> DEFINE a == Subsequence(s, S)
           U == Shift(S)
           b == Subsequence(Tail(s), U)
<1>1. /\ S \in SUBSET (Nat \ {0}) /\ S \in SUBSET Nat /\ S \subseteq 1 .. Len(s)
      /\ IsFiniteSet(S) /\ Cardinality(S) \in Nat
  BY Positions
<1>2. /\ Tail(s) \in Seq(T) /\ Len(Tail(s)) = Len(s) - 1 /\ Len(s) \in Nat
      /\ \A x \in 1 .. Len(Tail(s)) : Tail(s)[x] = s[x + 1]
      /\ DOMAIN Tail(s) = 1 .. Len(Tail(s)) /\ Len(Tail(s)) \in Nat
  BY HeadTailProperties, LenProperties
<1>3. U \in SUBSET DOMAIN Tail(s)
  BY <1>1, <1>2 DEF Shift
<1>4. a \in Seq(T) /\ Len(a) = Cardinality(S) /\ DOMAIN a = 1 .. Cardinality(S)
      /\ \A x \in 1 .. Cardinality(S) : a[x] = s[Nth(x, S)]
  BY SubsequenceProperties
<1>5. b \in Seq(T) /\ Len(b) = Cardinality(U) /\ DOMAIN b = 1 .. Cardinality(U)
      /\ \A x \in 1 .. Cardinality(U) : Nth(x, U) \in U /\ b[x] = Tail(s)[Nth(x, U)]
  BY <1>2, <1>3, SubsequenceProperties
<1>6. /\ Cardinality(U) = Cardinality(S \ {1}) /\ Cardinality(U) \in Nat
      /\ 1 \in S => Cardinality(S \ {1}) = Cardinality(S) - 1
      /\ 1 \notin S => Cardinality(S \ {1}) = Cardinality(S)
  <2>1. /\ 1 \in S => Cardinality(S \ {1}) = Cardinality(S) - 1
        /\ 1 \notin S => Cardinality(S \ {1}) = Cardinality(S)
    BY <1>1, FS_RemoveElement
  <2>2. Cardinality(U) \in Nat
    BY <1>2, <1>3, Positions
  <2>3. QED
    BY <1>1, <2>1, <2>2, ShiftSize
<1>7. \A x \in 1 .. Cardinality(U) : b[x] = s[Nth(x, U) + 1]
  <2>1. TAKE x \in 1 .. Cardinality(U)
  <2>2. Nth(x, U) \in 1 .. Len(Tail(s))
    BY <1>2, <1>3, <1>5
  <2>3. QED
    BY <1>2, <1>5, <2>2
<1>8. /\ 1 \in S => \A x \in 1 .. Cardinality(U) : Nth(x + 1, S) = Nth(x, U) + 1
      /\ 1 \notin S => \A x \in 1 .. Cardinality(U) : Nth(x, S) = Nth(x, U) + 1
  BY <1>1, ShiftNth
<1> HIDE DEF a, b, U
<1>9. CASE 1 \notin S
  <2>1. \A x \in 1 .. Len(b) : b[x] = a[x]
    BY <1>4, <1>5, <1>6, <1>7, <1>8, <1>9
  <2>2. Len(b) = Len(a)
    BY <1>4, <1>5, <1>6, <1>9
  <2>3. b = a
    BY <1>4, <1>5, <2>1, <2>2, SeqEqual
  <2>4. QED
    BY <1>3, <1>9, <2>3 DEF a, b, U
<1>10. CASE 1 \in S
  <2>1. Cardinality(S) >= 1
    BY <1>1, <1>6, <1>10
  <2>2. a # <<>>
    BY <1>4, <2>1, EmptySeq
  <2>3. a[1] = s[1]
    BY <1>1, <1>4, <1>10, <2>1, NthFirst
  <2>4. Head(a) = a[1] /\ Head(s) = s[1]
    BY <1>4, <2>2
  <2>5. /\ Tail(a) \in Seq(T) /\ Len(Tail(a)) = Len(a) - 1
        /\ \A x \in 1 .. Len(Tail(a)) : Tail(a)[x] = a[x + 1]
    BY <1>4, <2>2, HeadTailProperties
  <2>6. Len(Tail(a)) = Len(b)
    BY <1>4, <1>5, <1>6, <1>10, <2>5
  <2>7. \A x \in 1 .. Len(Tail(a)) : Tail(a)[x] = b[x]
    <3>1. TAKE x \in 1 .. Len(Tail(a))
    <3>2. x \in 1 .. Cardinality(U) /\ x + 1 \in 1 .. Cardinality(S)
      BY <1>1, <1>4, <1>5, <1>6, <1>10, <2>5, <2>6
    <3>3. QED
      BY <1>4, <1>7, <1>8, <1>10, <2>5, <3>2
  <2>8. Tail(a) = b
    BY <1>5, <2>5, <2>6, <2>7, SeqEqual
  <2>9. QED
    BY <1>3, <1>10, <2>2, <2>3, <2>4, <2>8 DEF a, b, U
<1>11. QED
  BY <1>9, <1>10

(* A new last element is added to the subsequence if its position is kept.  *)
LEMMA SubsequenceAppend ==
  ASSUME NEW T, NEW s \in Seq(T), NEW e \in T, NEW S \in SUBSET DOMAIN s
  PROVE  /\ Subsequence(Append(s, e), S) = Subsequence(s, S)
         /\ Subsequence(Append(s, e), S \cup {Len(s) + 1})
              = Append(Subsequence(s, S), e)
<1> DEFINE n == Len(s) + 1
           u == Append(s, e)
           a == Subsequence(s, S)
           b == Subsequence(u, S \cup {n})
           c == Cardinality(S)
<1>1. /\ S \in SUBSET Nat /\ S \subseteq 1 .. Len(s) /\ IsFiniteSet(S)
      /\ c \in Nat /\ Len(s) \in Nat
  BY Positions, LenProperties
<1>2. u \in Seq(T) /\ Len(u) = n /\ u[n] = e /\ \A q \in 1 .. Len(s) : u[q] = s[q]
      /\ DOMAIN u = 1 .. n
  BY AppendProperties, LenProperties
<1>3. S \in SUBSET DOMAIN u /\ S \cup {n} \in SUBSET DOMAIN u
  BY <1>1, <1>2
<1>4. /\ a \in Seq(T) /\ Len(a) = c
      /\ \A x \in 1 .. c : Nth(x, S) \in S /\ a[x] = s[Nth(x, S)]
  BY SubsequenceProperties
<1> HIDE DEF u
<1>5. Subsequence(u, S) = a
  <2> DEFINE d == Subsequence(u, S)
  <2>1. d \in Seq(T) /\ Len(d) = c /\ \A x \in 1 .. c : d[x] = u[Nth(x, S)]
    BY <1>2, <1>3, SubsequenceProperties
  <2> HIDE DEF a, d
  <2>2. \A x \in 1 .. Len(d) : d[x] = a[x]
    BY <1>1, <1>2, <1>4, <2>1
  <2>3. d = a
    BY <1>4, <2>1, <2>2, SeqEqual
  <2>4. QED
    BY <2>3 DEF d
<1>6. Cardinality(S \cup {n}) = c + 1 /\ IsFiniteSet(S \cup {n})
      /\ S \cup {n} \in SUBSET Nat
  <2>1. n \notin S /\ n \in Nat
    BY <1>1
  <2> HIDE DEF n
  <2>2. QED
    BY <1>1, <2>1, FS_AddElement
<1>7. \A q \in S : Rank(q, S \cup {n}) = Rank(q, S)
  <2>1. TAKE q \in S
  <2>2. {y \in S \cup {n} : y <= q} = {y \in S : y <= q}
    BY <1>1
  <2>3. QED
    BY <2>2 DEF Rank
<1>8. \A x \in 1 .. c : Nth(x, S \cup {n}) = Nth(x, S)
  <2>1. TAKE x \in 1 .. c
  <2>2. Nth(x, S) \in S /\ Rank(Nth(x, S), S) = x
    BY <1>1, NthRank
  <2>3. Rank(Nth(x, S), S \cup {n}) = x /\ Nth(x, S) \in S \cup {n}
    BY <1>7, <2>2
  <2>4. QED
    BY <1>6, <2>3, NthOfRank
<1>9. Nth(c + 1, S \cup {n}) = n
  <2>1. {y \in S \cup {n} : y <= n} = S \cup {n}
    BY <1>1
  <2>2. Rank(n, S \cup {n}) = c + 1
    BY <1>6, <2>1 DEF Rank
  <2>3. n \in S \cup {n}
    OBVIOUS
  <2> HIDE DEF n, c
  <2>4. QED
    BY <1>6, <2>2, <2>3, NthOfRank
<1>10. /\ b \in Seq(T) /\ Len(b) = c + 1
       /\ \A x \in 1 .. c + 1 : b[x] = u[Nth(x, S \cup {n})]
  <2>1. S \cup {n} \in SUBSET DOMAIN u
    BY <1>3
  <2> DEFINE N == S \cup {n}
  <2> HIDE DEF N
  <2>2. N \in SUBSET DOMAIN u /\ Cardinality(N) = c + 1
    BY <1>6, <2>1 DEF N
  <2>3. /\ Subsequence(u, N) \in Seq(T) /\ Len(Subsequence(u, N)) = c + 1
        /\ \A x \in 1 .. c + 1 : Subsequence(u, N)[x] = u[Nth(x, N)]
    BY <1>2, <2>2, SubsequenceProperties
  <2>4. QED
    BY <2>3 DEF N
<1>11. /\ Append(a, e) \in Seq(T) /\ Len(Append(a, e)) = c + 1
       /\ \A x \in 1 .. c : Append(a, e)[x] = a[x]
       /\ Append(a, e)[c + 1] = e
  BY <1>4, AppendProperties
<1>12. b = Append(a, e)
  <2>4. c \in Nat
    BY <1>1
  <2> HIDE DEF a, b, c, n
  <2>1. \A x \in 1 .. c : b[x] = Append(a, e)[x]
    <3>1. TAKE x \in 1 .. c
    <3>2. x \in 1 .. c + 1 /\ Nth(x, S) \in 1 .. Len(s)
      BY <1>1, <1>4
    <3>3. QED
      BY <1>2, <1>4, <1>8, <1>10, <1>11, <3>2
  <2>2. b[c + 1] = Append(a, e)[c + 1]
    <3>1. c + 1 \in 1 .. c + 1
      BY <1>1
    <3>2. b[c + 1] = u[Nth(c + 1, S \cup {n})]
      BY <1>10, <3>1
    <3>3. b[c + 1] = u[n]
      BY <1>9, <3>2 DEF c
    <3>4. QED
      BY <1>2, <1>11, <3>3
  <2>3. \A x \in 1 .. Len(b) : b[x] = Append(a, e)[x]
    <3>1. TAKE x \in 1 .. Len(b)
    <3>2. c \in Nat /\ x \in 1 .. c + 1
      BY <2>4, <1>10
    <3>3. x \in 1 .. c \/ x = c + 1
      BY <3>2
    <3>4. QED
      BY <2>1, <2>2, <3>3
  <2>5. QED
    BY <1>10, <1>11, <2>3, SeqEqual
<1>13. QED
  BY <1>5, <1>12 DEF u

(* Everything kept, nothing changed. *)
LEMMA SubsequenceFull ==
  ASSUME NEW T, NEW s \in Seq(T) PROVE Subsequence(s, DOMAIN s) = s
<1> DEFINE n == Len(s)
           a == Subsequence(s, DOMAIN s)
<1>1. n \in Nat /\ DOMAIN s = 1 .. n
  BY LenProperties
<1>2. \A k \in 0 .. n : IsFiniteSet(1 .. k) /\ Cardinality(1 .. k) = k
  <2>1. TAKE k \in 0 .. n
  <2>2. 1 \in Int /\ k \in Int /\ k \in Nat
    BY <1>1
  <2>3. IsFiniteSet(1 .. k) /\ Cardinality(1 .. k) = IF 1 > k THEN 0 ELSE k - 1 + 1
    BY <2>2, FS_Interval
  <2>4. QED
    BY <2>2, <2>3
<1>3. DOMAIN s \in SUBSET Nat /\ IsFiniteSet(DOMAIN s) /\ Cardinality(DOMAIN s) = n
  BY <1>1, <1>2
<1>4. \A x \in 1 .. n : Nth(x, DOMAIN s) = x
  <2>1. TAKE x \in 1 .. n
  <2>2. {y \in DOMAIN s : y <= x} = 1 .. x
    BY <1>1
  <2>3. Rank(x, DOMAIN s) = x
    <3>1. Rank(x, DOMAIN s) = Cardinality(1 .. x)
      BY <2>2 DEF Rank
    <3>2. x \in 0 .. n
      BY <1>1
    <3>3. QED
      BY <1>2, <3>1, <3>2
  <2>4. x \in DOMAIN s
    BY <1>1
  <2>5. QED
    BY <1>3, <2>3, <2>4, NthOfRank
<1>5. a \in Seq(T) /\ Len(a) = n /\ \A x \in 1 .. n : a[x] = s[Nth(x, DOMAIN s)]
  <2>1. DOMAIN s \in SUBSET DOMAIN s
    OBVIOUS
  <2>2. QED
    BY <1>3, <2>1, SubsequenceProperties
<1>6. a = s
  <2> HIDE DEF a
  <2>1. \A x \in 1 .. Len(a) : a[x] = s[x]
    BY <1>4, <1>5
  <2>2. QED
    BY <1>5, <2>1, SeqEqual
<1>7. QED
  BY <1>6

-----------------------------------------------------------------------------
(* Sequences with one element less. *)

(* The head of a concatenation is the head of its first part. *)
LEMMA ConcatTail ==
  ASSUME NEW T, NEW s \in Seq(T), NEW w \in Seq(T), s # <<>>
  PROVE  s \o w # <<>> /\ Head(s \o w) = Head(s) /\ Tail(s \o w) = Tail(s) \o w
<1>1. Len(s) \in Nat \ {0} /\ Len(w) \in Nat
  BY EmptySeq, LenProperties
<1>2. s \o w \in Seq(T) /\ Len(s \o w) = Len(s) + Len(w)
      /\ \A i \in 1 .. Len(s) + Len(w) : (s \o w)[i] =
                     IF i <= Len(s) THEN s[i] ELSE w[i - Len(s)]
  BY ConcatProperties
<1>3. s \o w # <<>>
  BY <1>1, <1>2, EmptySeq
<1>4. Head(s \o w) = (s \o w)[1] /\ Head(s) = s[1]
  BY <1>2, <1>3
<1>5. Head(s \o w) = Head(s)
  BY <1>1, <1>2, <1>4
<1>6. /\ Tail(s) \in Seq(T) /\ Len(Tail(s)) = Len(s) - 1
      /\ \A i \in 1 .. Len(Tail(s)) : Tail(s)[i] = s[i + 1]
  BY HeadTailProperties
<1>7. /\ Tail(s \o w) \in Seq(T) /\ Len(Tail(s \o w)) = Len(s) + Len(w) - 1
      /\ \A i \in 1 .. Len(Tail(s \o w)) : Tail(s \o w)[i] = (s \o w)[i + 1]
  BY <1>2, <1>3, HeadTailProperties
<1>8. Tail(s) \o w \in Seq(T) /\ Len(Tail(s) \o w) = Len(s) - 1 + Len(w)
      /\ \A i \in 1 .. Len(s) - 1 + Len(w) : (Tail(s) \o w)[i] =
                     IF i <= Len(s) - 1 THEN Tail(s)[i] ELSE w[i - (Len(s) - 1)]
  BY <1>6, ConcatProperties
<1>9. \A i \in 1 .. Len(Tail(s \o w)) : Tail(s \o w)[i] = (Tail(s) \o w)[i]
  <2>1. TAKE i \in 1 .. Len(Tail(s \o w))
  <2>2. i \in 1 .. Len(s) - 1 + Len(w) /\ i + 1 \in 1 .. Len(s) + Len(w)
    BY <1>1, <1>7
  <2>3. i + 1 <= Len(s) <=> i <= Len(s) - 1
    BY <1>1, <2>2
  <2>4. CASE i <= Len(s) - 1
    BY <1>1, <1>2, <1>6, <1>7, <1>8, <2>2, <2>3, <2>4
  <2>5. CASE ~(i <= Len(s) - 1)
    <3>1. i + 1 - Len(s) = i - (Len(s) - 1)
      BY <1>1, <2>2
    <3>2. QED
      BY <1>2, <1>7, <1>8, <2>2, <2>3, <2>5, <3>1
  <2>6. QED
    BY <2>4, <2>5
<1>10. Len(Tail(s \o w)) = Len(Tail(s) \o w)
  BY <1>1, <1>7, <1>8
<1>11. Tail(s \o w) = Tail(s) \o w
  BY <1>7, <1>8, <1>9, <1>10, SeqEqual
<1>12. QED
  BY <1>3, <1>5, <1>11

(* The head of the second part may as well end the first. *)
LEMMA ConcatShift ==
  ASSUME NEW T, NEW s \in Seq(T), NEW w \in Seq(T), w # <<>>
  PROVE  s \o w = Append(s, Head(w)) \o Tail(w)
<1>1. Head(w) \in T /\ Tail(w) \in Seq(T)
  BY HeadTailProperties
<1>2. w = <<Head(w)>> \o Tail(w)
  <2>1. Len(w) \in Nat \ {0}
    BY EmptySeq
  <2>2. 1 \in 1 .. Len(w) /\ Len(w) \in 1 .. Len(w)
    BY <2>1
  <2>3. SubSeq(w, 1, Len(w)) = <<w[1]>> \o SubSeq(w, 1 + 1, Len(w))
    BY <2>2, SubSeqRecursiveFirst
  <2>4. SubSeq(w, 1, Len(w)) = w /\ Tail(w) = SubSeq(w, 2, Len(w)) /\ Head(w) = w[1]
    BY SubSeqFull, TailIsSubSeq
  <2>5. QED
    BY <2>3, <2>4
<1>3. Append(s, Head(w)) = s \o <<Head(w)>>
  BY <1>1, AppendIsConcat
<1>4. <<Head(w)>> \in Seq(T)
  BY <1>1
<1>5. (s \o <<Head(w)>>) \o Tail(w) = s \o (<<Head(w)>> \o Tail(w))
  BY <1>1, <1>4, ConcatAssociative
<1>6. QED
  BY <1>2, <1>3, <1>5

(* Leaving out the head of the second part. *)
LEMMA ConcatSkip ==
  ASSUME NEW T, NEW s \in Seq(T), NEW w \in Seq(T), w # <<>>
  PROVE  LET k == Len(s) + 1
         IN  /\ k \in DOMAIN (s \o w) /\ (s \o w)[k] = Head(w)
             /\ SubSeq(s \o w, 1, k - 1) \o SubSeq(s \o w, k + 1, Len(s \o w)) = s \o Tail(w)
<1> DEFINE u == s \o w
           k == Len(s) + 1
<1>1. Len(s) \in Nat /\ Len(w) \in Nat \ {0} /\ Head(w) = w[1]
  BY EmptySeq, LenProperties
<1>2. u \in Seq(T) /\ Len(u) = Len(s) + Len(w)
      /\ \A i \in 1 .. Len(s) + Len(w) : u[i] =
                     IF i <= Len(s) THEN s[i] ELSE w[i - Len(s)]
  BY ConcatProperties
<1>3. DOMAIN u = 1 .. Len(s) + Len(w)
  BY <1>2, LenProperties
<1>4. k \in DOMAIN u /\ u[k] = Head(w)
  <2>1. k \in 1 .. Len(s) + Len(w) /\ ~(k <= Len(s)) /\ k - Len(s) = 1
    BY <1>1
  <2>2. QED
    BY <1>1, <1>2, <1>3, <2>1
<1>5. \A i \in 1 .. Len(u) : u[i] \in T
  BY <1>2, ElementOfSeq
<1> HIDE DEF u
<1>6. SubSeq(u, 1, k - 1) = s
  <2> DEFINE a == SubSeq(u, 1, Len(s))
  <2>1. \A i \in 1 .. Len(s) : u[i] \in T
    BY <1>1, <1>2, <1>5
  <2>2. 1 \in Int /\ Len(s) \in Int
    BY <1>1
  <2>3. /\ a \in Seq(T) /\ Len(a) = IF 1 <= Len(s) THEN Len(s) - 1 + 1 ELSE 0
        /\ \A i \in 1 .. Len(s) - 1 + 1 : a[i] = u[1 + i - 1]
    BY <2>1, <2>2, SubSeqProperties
  <2> HIDE DEF a
  <2>4. Len(a) = Len(s)
    BY <1>1, <2>3
  <2>5. \A i \in 1 .. Len(a) : a[i] = s[i]
    <3>1. TAKE i \in 1 .. Len(a)
    <3>2. i \in 1 .. Len(s) /\ i \in 1 .. Len(s) - 1 + 1 /\ 1 + i - 1 = i
          /\ i \in 1 .. Len(s) + Len(w) /\ i <= Len(s)
      BY <1>1, <2>4
    <3>3. QED
      BY <1>2, <2>3, <3>2
  <2>6. a = s
    BY <2>3, <2>4, <2>5, SeqEqual
  <2>7. k - 1 = Len(s)
    BY <1>1
  <2>8. QED
    BY <2>6, <2>7 DEF a
<1>7. SubSeq(u, k + 1, Len(u)) = Tail(w)
  <2> DEFINE a == SubSeq(u, k + 1, Len(u))
  <2>1. \A i \in k + 1 .. Len(u) : u[i] \in T
    BY <1>1, <1>2, <1>5
  <2>2. k + 1 \in Int /\ Len(u) \in Int
    BY <1>1, <1>2
  <2>3. /\ a \in Seq(T) /\ Len(a) = IF k + 1 <= Len(u) THEN Len(u) - (k + 1) + 1 ELSE 0
        /\ \A i \in 1 .. Len(u) - (k + 1) + 1 : a[i] = u[k + 1 + i - 1]
    BY <2>1, <2>2, SubSeqProperties
  <2> HIDE DEF a
  <2>4. /\ Tail(w) \in Seq(T) /\ Len(Tail(w)) = Len(w) - 1
        /\ \A i \in 1 .. Len(Tail(w)) : Tail(w)[i] = w[i + 1]
    BY HeadTailProperties
  <2>5. Len(u) - (k + 1) + 1 = Len(w) - 1 /\ (k + 1 <= Len(u) <=> 2 <= Len(w))
    BY <1>1, <1>2
  <2>9. Len(a) = Len(w) - 1
    <3>1. CASE 2 <= Len(w)
      BY <2>3, <2>5, <3>1
    <3>2. CASE ~(2 <= Len(w))
      <4>1. Len(a) = 0
        BY <2>3, <2>5, <3>2
      <4>2. \A n \in Nat \ {0} : ~(2 <= n) => n - 1 = 0
        OBVIOUS
      <4>3. Len(w) - 1 = 0
        BY <1>1, <3>2, <4>2
      <4>4. QED
        BY <4>1, <4>3
    <3>3. QED
      BY <3>1, <3>2
  <2>10. Len(a) = Len(Tail(w))
    BY <2>4, <2>9
  <2>6. \A i \in 1 .. Len(a) : a[i] = Tail(w)[i]
    <3>1. TAKE i \in 1 .. Len(a)
    <3>2. /\ i \in 1 .. Len(w) - 1 /\ k + 1 + i - 1 = Len(s) + (i + 1)
          /\ Len(s) + (i + 1) \in 1 .. Len(s) + Len(w) /\ ~(Len(s) + (i + 1) <= Len(s))
          /\ Len(s) + (i + 1) - Len(s) = i + 1
      BY <1>1, <2>9
    <3>4. i \in 1 .. Len(u) - (k + 1) + 1 /\ i \in 1 .. Len(Tail(w))
      BY <2>5, <2>10, <3>1, <3>2
    <3>5. a[i] = u[Len(s) + (i + 1)]
      BY <2>3, <3>2, <3>4
    <3>6. u[Len(s) + (i + 1)] = w[i + 1]
      BY <1>2, <3>2
    <3>7. QED
      BY <2>4, <3>4, <3>5, <3>6
  <2>7. a = Tail(w)
    BY <2>3, <2>4, <2>10, <2>6, SeqEqual
  <2>8. QED
    BY <2>7 DEF a
<1>8. QED
  BY <1>4, <1>6, <1>7 DEF u


-----------------------------------------------------------------------------
(* A function applied to every element. *)
Map(F, s) == [x \in DOMAIN s |-> F[s[x]]]
Image(F, T) == {F[y] : y \in T}

LEMMA MapType ==
  ASSUME NEW T, NEW F, NEW s \in Seq(T)
  PROVE  Map(F, s) \in Seq(Image(F, T)) /\ Len(Map(F, s)) = Len(s)
<1>1. /\ Len(s) \in Nat /\ DOMAIN s = 1 .. Len(s)
      /\ \A x \in 1 .. Len(s) : s[x] \in T
  BY LenProperties, ElementOfSeq
<1>2. Map(F, s) = [x \in 1 .. Len(s) |-> F[s[x]]]
  BY <1>1 DEF Map
<1>3. Map(F, s) \in [1 .. Len(s) -> Image(F, T)]
  BY <1>1, <1>2 DEF Image
<1>4. Map(F, s) \in Seq(Image(F, T))
  BY <1>1, <1>3, SeqDef
<1>5. DOMAIN Map(F, s) = 1 .. Len(s)
  BY <1>2
<1>6. Len(Map(F, s)) = Len(s)
  BY <1>1, <1>4, <1>5, LenProperties
<1>7. QED
  BY <1>4, <1>6

LEMMA MapAt ==
  ASSUME NEW T, NEW F, NEW s \in Seq(T)
  PROVE  \A x \in 1 .. Len(s) : Map(F, s)[x] = F[s[x]]
  BY LenProperties DEF Map

LEMMA MapTail ==
  ASSUME NEW T, NEW F, NEW s \in Seq(T), s # <<>>
  PROVE  /\ Map(F, s) # <<>> /\ Head(Map(F, s)) = F[Head(s)]
         /\ Tail(Map(F, s)) = Map(F, Tail(s))
<1>1. Len(s) \in Nat \ {0} /\ Head(s) = s[1]
  BY EmptySeq, LenProperties
<1>2. /\ Tail(s) \in Seq(T) /\ Len(Tail(s)) = Len(s) - 1
      /\ \A x \in 1 .. Len(Tail(s)) : Tail(s)[x] = s[x + 1]
  BY HeadTailProperties
<1>3. PICK m : m = Map(F, s)
  OBVIOUS
<1>4. PICK a : a = Tail(s)
  OBVIOUS
<1>14. PICK r : r = Map(F, a)
  OBVIOUS
<1>5. m \in Seq(Image(F, T)) /\ Len(m) = Len(s) /\ \A x \in 1 .. Len(s) : m[x] = F[s[x]]
  <2>1. Map(F, s) \in Seq(Image(F, T)) /\ Len(Map(F, s)) = Len(s)
    BY MapType
  <2>2. \A x \in 1 .. Len(s) : Map(F, s)[x] = F[s[x]]
    BY MapAt
  <2>3. QED
    BY <1>3, <2>1, <2>2
<1>6. /\ r \in Seq(Image(F, T)) /\ Len(r) = Len(Tail(s))
      /\ \A x \in 1 .. Len(Tail(s)) : r[x] = F[Tail(s)[x]]
  <2>1. a \in Seq(T)
    BY <1>2, <1>4
  <2>2. Map(F, a) \in Seq(Image(F, T)) /\ Len(Map(F, a)) = Len(a)
    BY <2>1, MapType
  <2>3. \A x \in 1 .. Len(a) : Map(F, a)[x] = F[a[x]]
    BY <2>1, MapAt
  <2>4. QED
    BY <1>4, <1>14, <2>2, <2>3
<1>7. m # <<>>
  BY <1>1, <1>5, EmptySeq
<1>8. /\ Tail(m) \in Seq(Image(F, T)) /\ Len(Tail(m)) = Len(m) - 1
      /\ \A x \in 1 .. Len(Tail(m)) : Tail(m)[x] = m[x + 1]
  BY <1>5, <1>7, HeadTailProperties
<1>9. Head(m) = F[Head(s)]
  <2>1. Head(m) = m[1] /\ 1 \in 1 .. Len(s)
    BY <1>1
  <2>2. QED
    BY <1>1, <1>5, <2>1
<1>10. Len(Tail(m)) = Len(r)
  BY <1>2, <1>5, <1>6, <1>8
<1>11. \A x \in 1 .. Len(r) : Tail(m)[x] = r[x]
  <2>1. TAKE x \in 1 .. Len(r)
  <2>2. x \in 1 .. Len(Tail(s)) /\ x \in 1 .. Len(Tail(m)) /\ x + 1 \in 1 .. Len(s)
    <3>1. x \in 1 .. Len(s) - 1
      BY <1>1, <1>2, <1>6, <2>1
    <3>2. Len(s) - 1 = Len(Tail(m)) /\ Len(s) - 1 = Len(Tail(s))
      BY <1>2, <1>5, <1>8
    <3>3. x + 1 \in 1 .. Len(s)
      BY <1>1, <3>1
    <3>4. QED
      BY <3>1, <3>2, <3>3
  <2>3. QED
    BY <1>2, <1>5, <1>6, <1>8, <2>2
<1>12. Tail(m) = r
  BY <1>6, <1>8, <1>10, <1>11, SeqEqual
<1>13. QED
  BY <1>3, <1>4, <1>14, <1>7, <1>9, <1>12

LEMMA MapAppend ==
  ASSUME NEW T, NEW F, NEW s \in Seq(T), NEW e \in T
  PROVE  Map(F, Append(s, e)) = Append(Map(F, s), F[e])
<1>1. /\ Append(s, e) \in Seq(T) /\ Len(Append(s, e)) = Len(s) + 1 /\ Len(s) \in Nat
      /\ Append(s, e)[Len(s) + 1] = e /\ \A x \in 1 .. Len(s) : Append(s, e)[x] = s[x]
  BY AppendProperties, LenProperties
<1>2. PICK m : m = Map(F, s)
  OBVIOUS
<1>3. PICK r : r = Map(F, Append(s, e))
  OBVIOUS
<1>4. m \in Seq(Image(F, T)) /\ Len(m) = Len(s) /\ \A x \in 1 .. Len(s) : m[x] = F[s[x]]
  <2>1. Map(F, s) \in Seq(Image(F, T)) /\ Len(Map(F, s)) = Len(s)
    BY MapType
  <2>5. \A x \in 1 .. Len(s) : Map(F, s)[x] = F[s[x]]
    BY MapAt
  <2>2. QED
    BY <1>2, <2>1, <2>5
<1>5. /\ r \in Seq(Image(F, T)) /\ Len(r) = Len(s) + 1
      /\ \A x \in 1 .. Len(s) + 1 : r[x] = F[Append(s, e)[x]]
  <2> DEFINE a == Append(s, e)
  <2>1. a \in Seq(T) /\ Len(a) = Len(s) + 1
    BY <1>1
  <2> HIDE DEF a
  <2>2. Map(F, a) \in Seq(Image(F, T)) /\ Len(Map(F, a)) = Len(a)
    BY <2>1, MapType
  <2>6. \A x \in 1 .. Len(a) : Map(F, a)[x] = F[a[x]]
    BY <2>1, MapAt
  <2>3. r = Map(F, a)
    BY <1>3 DEF a
  <2>4. /\ r \in Seq(Image(F, T)) /\ Len(r) = Len(s) + 1
        /\ \A x \in 1 .. Len(s) + 1 : r[x] = F[a[x]]
    BY <2>1, <2>2, <2>3, <2>6
  <2>5. QED
    BY <2>4 DEF a
<1>6. F[e] \in Image(F, T)
  BY DEF Image
<1>7. /\ Append(m, F[e]) \in Seq(Image(F, T)) /\ Len(Append(m, F[e])) = Len(s) + 1
      /\ Append(m, F[e])[Len(s) + 1] = F[e]
      /\ \A x \in 1 .. Len(s) : Append(m, F[e])[x] = m[x]
  BY <1>4, <1>6, AppendProperties
<1>8. \A x \in 1 .. Len(s) + 1 : r[x] = Append(m, F[e])[x]
  <2>1. TAKE x \in 1 .. Len(s) + 1
  <2>2. CASE x = Len(s) + 1
    BY <1>1, <1>5, <1>7, <2>2
  <2>3. CASE x # Len(s) + 1
    <3>1. x \in 1 .. Len(s)
      BY <1>1, <2>3
    <3>2. QED
      BY <1>1, <1>4, <1>5, <1>7, <2>1, <3>1
  <2>4. QED
    BY <2>2, <2>3
<1>9. r = Append(m, F[e])
  <2>1. Len(r) = Len(Append(m, F[e])) /\ Len(r) = Len(s) + 1
    BY <1>5, <1>7
  <2>2. \A x \in 1 .. Len(r) : r[x] = Append(m, F[e])[x]
    BY <1>8, <2>1
  <2>3. QED
    BY <1>5, <1>7, <2>1, <2>2, SeqEqual
<1>10. QED
  BY <1>2, <1>3, <1>9

=============================================================================
