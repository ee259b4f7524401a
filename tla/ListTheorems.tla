---------------------------- MODULE ListTheorems ----------------------------
(***************************************************************************)
(* What the operations on linked lists (list_append(), list_pop(),         *)
(* list_remove()) do to the elements of a list. The proofs about wait      *)
(* queues, futexes, fibrils and timers cite these facts.                   *)
(***************************************************************************)
EXTENDS SequencesExt, SequenceTheorems, FiniteSetTheorems, TLAPS

\* A list is a function on an initial segment of the positive integers.
LEMMA ListIsFunction ==
    ASSUME NEW S, NEW s \in Seq(S)
    PROVE  /\ Len(s) \in Nat /\ DOMAIN s = 1..Len(s)
           /\ \A i \in 1..Len(s) : s[i] \in S
           /\ ToSet(s) \subseteq S
           /\ \A x : x \in ToSet(s) <=> \E i \in 1..Len(s) : s[i] = x
           /\ s = <<>> <=> ToSet(s) = {}
           /\ IsInjective(s) <=> \A i, j \in 1..Len(s) : s[i] = s[j] => i = j
<1>1. Len(s) \in Nat /\ DOMAIN s = 1..Len(s) /\ \A i \in 1..Len(s) : s[i] \in S
  OBVIOUS
<1>2. \A x : x \in ToSet(s) <=> \E i \in 1..Len(s) : s[i] = x
  BY <1>1, Zenon DEF ToSet
<1>3. s = <<>> <=> Len(s) = 0
  BY EmptySeq, SMT
<1>4. s = <<>> <=> ToSet(s) = {}
  <2>1. CASE Len(s) = 0
    <3>1. \A i \in 1..Len(s) : FALSE
      BY <2>1
    <3> QED BY <3>1, <1>2, <1>3, <2>1
  <2>2. CASE Len(s) # 0
    <3>1. 1 \in 1..Len(s)
      BY <1>1, <2>2
    <3> QED BY <3>1, <1>2, <1>3, <2>2
  <2> QED BY <2>1, <2>2
<1>5. IsInjective(s) <=> \A i, j \in 1..Len(s) : s[i] = s[j] => i = j
  BY <1>1 DEF IsInjective
<1> QED
  BY <1>1, <1>2, <1>4, <1>5

\* list_append() adds the element, behind all others.
LEMMA AppendList ==
    ASSUME NEW S, NEW s \in Seq(S), NEW x \in S
    PROVE  /\ Append(s, x) \in Seq(S)
           /\ Len(Append(s, x)) = Len(s) + 1
           /\ ToSet(Append(s, x)) = ToSet(s) \cup {x}
           /\ IsInjective(s) /\ x \notin ToSet(s) => IsInjective(Append(s, x))
<1> DEFINE a == Append(s, x)
<1>1. /\ a \in Seq(S) /\ Len(a) = Len(s) + 1 /\ Len(s) \in Nat
      /\ \A i \in 1..Len(s) : a[i] = s[i]
      /\ a[Len(s) + 1] = x
  BY AppendProperties, LenProperties
<1> HIDE DEF a
<1>2. \A y : y \in ToSet(a) <=> \E i \in 1..Len(a) : a[i] = y
  BY <1>1, ListIsFunction
<1>3. \A y : y \in ToSet(s) <=> \E i \in 1..Len(s) : s[i] = y
  BY ListIsFunction
<1>4. ASSUME NEW y PROVE y \in ToSet(a) <=> y \in ToSet(s) \/ y = x
  <2>1. (\E i \in 1..Len(a) : a[i] = y) <=> (\E i \in 1..Len(s) : s[i] = y) \/ y = x
    BY <1>1
  <2> QED BY <2>1, <1>2, <1>3
<1>5. ToSet(a) = ToSet(s) \cup {x}
  BY <1>4
<1>6. ASSUME IsInjective(s), x \notin ToSet(s) PROVE IsInjective(a)
  <2>1. \A i, j \in 1..Len(s) : s[i] = s[j] => i = j
    BY <1>6, ListIsFunction
  <2>2. \A i \in 1..Len(s) : s[i] # x
    BY <1>6, <1>3
  <2>3. \A i, j \in 1..Len(a) : a[i] = a[j] => i = j
    BY <2>1, <2>2, <1>1
  <2> QED BY <2>3, <1>1, ListIsFunction
<1> QED
  BY <1>1, <1>5, <1>6 DEF a

\* The same, written as a list with one element.
LEMMA ConcatOne ==
    ASSUME NEW S, NEW s \in Seq(S), NEW x \in S
    PROVE  /\ s \o <<x>> \in Seq(S)
           /\ Len(s \o <<x>>) = Len(s) + 1
           /\ ToSet(s \o <<x>>) = ToSet(s) \cup {x}
           /\ IsInjective(s) /\ x \notin ToSet(s) => IsInjective(s \o <<x>>)
<1>1. s \o <<x>> = Append(s, x)
  OBVIOUS
<1>2. /\ Append(s, x) \in Seq(S)
      /\ Len(Append(s, x)) = Len(s) + 1
      /\ ToSet(Append(s, x)) = ToSet(s) \cup {x}
      /\ IsInjective(s) /\ x \notin ToSet(s) => IsInjective(Append(s, x))
  BY AppendList, Zenon
<1> QED BY <1>1, <1>2, Zenon

\* list_pop() removes the first element, and nothing else.
LEMMA TailList ==
    ASSUME NEW S, NEW s \in Seq(S), s # <<>>
    PROVE  /\ Tail(s) \in Seq(S)
           /\ Len(Tail(s)) = Len(s) - 1
           /\ Head(s) \in S
           /\ Head(s) \in ToSet(s)
           /\ IsInjective(s) => /\ IsInjective(Tail(s))
                                /\ ToSet(Tail(s)) = ToSet(s) \ {Head(s)}
           /\ ToSet(s) = ToSet(Tail(s)) \cup {Head(s)}
<1> DEFINE r == Tail(s)
<1>1. /\ r \in Seq(S) /\ Len(r) = Len(s) - 1 /\ Len(s) \in Nat \ {0} /\ Len(r) \in Nat
      /\ \A i \in 1..Len(r) : r[i] = s[i + 1]
      /\ Head(s) = s[1] /\ Head(s) \in S
  BY HeadTailProperties, EmptySeq, LenProperties
<1> HIDE DEF r
<1>2. \A y : y \in ToSet(r) <=> \E i \in 1..Len(r) : r[i] = y
  BY <1>1, ListIsFunction
<1>3. \A y : y \in ToSet(s) <=> \E i \in 1..Len(s) : s[i] = y
  BY ListIsFunction
<1>4. ASSUME NEW y PROVE y \in ToSet(s) <=> y \in ToSet(r) \/ y = Head(s)
  <2>1. ASSUME NEW i \in 1..Len(s), s[i] = y PROVE y \in ToSet(r) \/ y = Head(s)
    <3>1. CASE i = 1
      BY <3>1, <2>1, <1>1
    <3>2. CASE i # 1
      <4>1. i - 1 \in 1..Len(r) /\ r[i - 1] = s[(i - 1) + 1] /\ (i - 1) + 1 = i
        BY <3>2, <1>1
      <4> QED BY <4>1, <2>1, <1>2
    <3> QED BY <3>1, <3>2
  <2>2. ASSUME NEW i \in 1..Len(r), r[i] = y PROVE y \in ToSet(s)
    <3>1. i + 1 \in 1..Len(s) /\ r[i] = s[i + 1]
      BY <1>1
    <3> QED BY <3>1, <2>2, <1>3
  <2>3. Head(s) \in ToSet(s)
    <3>1. 1 \in 1..Len(s)
      BY <1>1
    <3> QED BY <3>1, <1>1, <1>3
  <2> QED BY <2>1, <2>2, <2>3, <1>2, <1>3
<1>5. ASSUME IsInjective(s)
      PROVE  IsInjective(r) /\ Head(s) \notin ToSet(r)
  <2>1. \A i, j \in 1..Len(s) : s[i] = s[j] => i = j
    BY <1>5, ListIsFunction
  <2>2. \A i, j \in 1..Len(r) : r[i] = r[j] => i = j
    BY <2>1, <1>1
  <2>3. \A i \in 1..Len(r) : r[i] # s[1]
    BY <2>1, <1>1
  <2>4. IsInjective(r)
    BY <2>2, <1>1, ListIsFunction
  <2>5. Head(s) \notin ToSet(r)
    BY <2>3, <1>1, <1>2
  <2> QED BY <2>4, <2>5
<1>6. ToSet(s) = ToSet(r) \cup {Head(s)}
  BY <1>4
<1>7. IsInjective(s) => ToSet(r) = ToSet(s) \ {Head(s)}
  BY <1>6, <1>5
<1> QED
  BY <1>1, <1>5, <1>6, <1>7 DEF r

\* The positions of the elements after one has been removed.
LEMMA RemoveAtPositions ==
    ASSUME NEW S, NEW s \in Seq(S), NEW i \in 1..Len(s)
    PROVE  /\ RemoveAt(s, i) \in Seq(S)
           /\ Len(RemoveAt(s, i)) = Len(s) - 1
           /\ \A j \in 1..(Len(s) - 1) : RemoveAt(s, i)[j] = IF j < i THEN s[j] ELSE s[j + 1]
<1> DEFINE a == SubSeq(s, 1, i - 1)
           b == SubSeq(s, i + 1, Len(s))
<1>1. Len(s) \in Nat /\ \A j \in 1..Len(s) : s[j] \in S
  BY ListIsFunction
<1>2. /\ a \in Seq(S) /\ Len(a) = i - 1
      /\ \A j \in 1..(i - 1) : a[j] = s[j]
  <2>1. 1 \in Int /\ i - 1 \in Int /\ \A j \in 1..(i - 1) : s[j] \in S
    BY <1>1
  <2>2. /\ a \in Seq(S) /\ Len(a) = IF 1 <= i - 1 THEN (i - 1) - 1 + 1 ELSE 0
        /\ \A j \in 1..((i - 1) - 1 + 1) : a[j] = s[1 + j - 1]
    BY <2>1, SubSeqProperties
  <2>3. (i - 1) - 1 + 1 = i - 1 /\ \A j \in 1..(i - 1) : 1 + j - 1 = j
    BY <1>1
  <2> HIDE DEF a
  <2> QED BY <2>2, <2>3
<1>3. /\ b \in Seq(S) /\ Len(b) = Len(s) - i
      /\ \A j \in 1..(Len(s) - i) : b[j] = s[i + j]
  <2>1. i + 1 \in Int /\ Len(s) \in Int /\ \A j \in (i + 1)..Len(s) : s[j] \in S
    BY <1>1
  <2>2. /\ b \in Seq(S) /\ Len(b) = IF i + 1 <= Len(s) THEN Len(s) - (i + 1) + 1 ELSE 0
        /\ \A j \in 1..(Len(s) - (i + 1) + 1) : b[j] = s[(i + 1) + j - 1]
    BY <2>1, SubSeqProperties
  <2>3. Len(s) - (i + 1) + 1 = Len(s) - i /\ \A j \in 1..(Len(s) - i) : (i + 1) + j - 1 = i + j
    BY <1>1
  <2> HIDE DEF b
  <2>4. Len(b) = Len(s) - i
    BY <2>2, <1>1
  <2>5. \A j \in 1..(Len(s) - i) : b[j] = s[i + j]
    BY <2>2, <2>3
  <2> QED BY <2>2, <2>4, <2>5
<1>4. RemoveAt(s, i) = a \o b
  BY DEF RemoveAt
<1> HIDE DEF a, b
<1>5. /\ a \o b \in Seq(S) /\ Len(a \o b) = Len(s) - 1
      /\ \A j \in 1..(Len(s) - 1) : (a \o b)[j] = IF j <= i - 1 THEN a[j] ELSE b[j - (i - 1)]
  <2>1. /\ a \o b \in Seq(S) /\ Len(a \o b) = Len(a) + Len(b)
        /\ \A j \in 1..Len(a) + Len(b) : (a \o b)[j] = IF j <= Len(a) THEN a[j] ELSE b[j - Len(a)]
    BY <1>2, <1>3, ConcatProperties
  <2>2. Len(a) + Len(b) = Len(s) - 1
    BY <1>1, <1>2, <1>3
  <2> QED BY <2>1, <2>2, <1>2
<1>6. ASSUME NEW j \in 1..(Len(s) - 1)
      PROVE  (a \o b)[j] = IF j < i THEN s[j] ELSE s[j + 1]
  <2>1. CASE j < i
    BY <2>1, <1>1, <1>2, <1>5
  <2>2. CASE ~(j < i)
    <3>1. j - (i - 1) \in 1..(Len(s) - i) /\ i + (j - (i - 1)) = j + 1 /\ ~(j <= i - 1)
      BY <2>2, <1>1
    <3> QED BY <3>1, <2>2, <1>3, <1>5
  <2> QED BY <2>1, <2>2
<1> QED
  BY <1>4, <1>5, <1>6

\* list_remove() removes the element, and nothing else.
LEMMA RemoveAtList ==
    ASSUME NEW S, NEW s \in Seq(S), NEW i \in 1..Len(s), IsInjective(s)
    PROVE  /\ RemoveAt(s, i) \in Seq(S)
           /\ Len(RemoveAt(s, i)) = Len(s) - 1
           /\ IsInjective(RemoveAt(s, i))
           /\ ToSet(RemoveAt(s, i)) = ToSet(s) \ {s[i]}
<1> DEFINE r == RemoveAt(s, i)
<1>1. /\ r \in Seq(S) /\ Len(r) = Len(s) - 1 /\ Len(s) \in Nat
      /\ \A j \in 1..(Len(s) - 1) : r[j] = IF j < i THEN s[j] ELSE s[j + 1]
  BY RemoveAtPositions, ListIsFunction
<1> HIDE DEF r
<1>2. \A j, k \in 1..Len(s) : s[j] = s[k] => j = k
  BY ListIsFunction
<1>3. \A j, k \in 1..Len(r) : r[j] = r[k] => j = k
  BY <1>1, <1>2
<1>4. \A y : y \in ToSet(r) <=> \E j \in 1..Len(r) : r[j] = y
  BY <1>1, ListIsFunction
<1>5. \A y : y \in ToSet(s) <=> \E j \in 1..Len(s) : s[j] = y
  BY ListIsFunction
<1>6. ASSUME NEW y, y \in ToSet(r) PROVE y \in ToSet(s) /\ y # s[i]
  <2>1. PICK j \in 1..Len(r) : r[j] = y
    BY <1>4, <1>6
  <2>2. PICK k \in 1..Len(s) : s[k] = y /\ k # i
    <3>1. CASE j < i
      BY <3>1, <2>1, <1>1
    <3>2. CASE ~(j < i)
      <4>1. j + 1 \in 1..Len(s) /\ j + 1 # i /\ r[j] = s[j + 1]
        BY <3>2, <1>1
      <4> QED BY <4>1, <2>1
    <3> QED BY <3>1, <3>2
  <2> QED BY <2>2, <1>2, <1>5
<1>7. ASSUME NEW y, y \in ToSet(s), y # s[i] PROVE y \in ToSet(r)
  <2>1. PICK k \in 1..Len(s) : s[k] = y
    BY <1>5, <1>7
  <2>2. CASE k < i
    <3>1. k \in 1..Len(r) /\ r[k] = s[k]
      BY <2>2, <1>1
    <3> QED BY <3>1, <2>1, <1>4
  <2>3. CASE ~(k < i)
    <3>1. k - 1 \in 1..Len(r) /\ r[k - 1] = s[(k - 1) + 1] /\ (k - 1) + 1 = k
      BY <2>3, <2>1, <1>1, <1>7
    <3> QED BY <3>1, <2>1, <1>4
  <2> QED BY <2>2, <2>3
<1>8. ToSet(r) = ToSet(s) \ {s[i]}
  BY <1>6, <1>7
<1>9. IsInjective(r)
  BY <1>1, <1>3, ListIsFunction
<1> QED
  BY <1>1, <1>8, <1>9 DEF r

\* list_concat() puts one list behind another.
LEMMA ConcatList ==
    ASSUME NEW S, NEW s \in Seq(S), NEW t \in Seq(S)
    PROVE  /\ s \o t \in Seq(S)
           /\ Len(s \o t) = Len(s) + Len(t)
           /\ ToSet(s \o t) = ToSet(s) \cup ToSet(t)
           /\ IsInjective(s) /\ IsInjective(t) /\ ToSet(s) \cap ToSet(t) = {}
                 => IsInjective(s \o t)
<1> DEFINE c == s \o t
<1>1. /\ c \in Seq(S) /\ Len(c) = Len(s) + Len(t) /\ Len(s) \in Nat /\ Len(t) \in Nat
      /\ \A i \in 1..Len(s) + Len(t) : c[i] = IF i <= Len(s) THEN s[i] ELSE t[i - Len(s)]
  BY ConcatProperties, LenProperties
<1> HIDE DEF c
<1>2. \A y : y \in ToSet(c) <=> \E i \in 1..Len(c) : c[i] = y
  BY <1>1, ListIsFunction
<1>3. \A y : y \in ToSet(s) <=> \E i \in 1..Len(s) : s[i] = y
  BY ListIsFunction
<1>4. \A y : y \in ToSet(t) <=> \E i \in 1..Len(t) : t[i] = y
  BY ListIsFunction
<1>5. \A i \in 1..Len(s) : i \in 1..Len(c) /\ c[i] = s[i]
  BY <1>1
<1>6. \A i \in 1..Len(t) : Len(s) + i \in 1..Len(c) /\ c[Len(s) + i] = t[i]
  <2> TAKE i \in 1..Len(t)
  <2>1. Len(s) + i \in 1..Len(s) + Len(t) /\ ~(Len(s) + i <= Len(s)) /\ (Len(s) + i) - Len(s) = i
    BY <1>1
  <2> QED BY <2>1, <1>1
<1>7. \A i \in 1..Len(c) : i \in 1..Len(s) \/ \E j \in 1..Len(t) : i = Len(s) + j
  <2> TAKE i \in 1..Len(c)
  <2>1. CASE i <= Len(s)
    BY <2>1, <1>1
  <2>2. CASE ~(i <= Len(s))
    <3>1. i - Len(s) \in 1..Len(t) /\ i = Len(s) + (i - Len(s))
      BY <2>2, <1>1
    <3> QED BY <3>1
  <2> QED BY <2>1, <2>2
<1>8. ASSUME NEW y PROVE y \in ToSet(c) <=> y \in ToSet(s) \/ y \in ToSet(t)
  <2>1. y \in ToSet(s) => y \in ToSet(c)
    BY <1>2, <1>3, <1>5
  <2>2. y \in ToSet(t) => y \in ToSet(c)
    BY <1>2, <1>4, <1>6
  <2>3. ASSUME NEW i \in 1..Len(c), c[i] = y PROVE y \in ToSet(s) \/ y \in ToSet(t)
    <3>1. CASE i \in 1..Len(s)
      BY <3>1, <2>3, <1>3, <1>5
    <3>2. CASE \E j \in 1..Len(t) : i = Len(s) + j
      BY <3>2, <2>3, <1>4, <1>6
    <3> QED BY <3>1, <3>2, <1>7
  <2> QED BY <2>1, <2>2, <2>3, <1>2
<1>9. ToSet(c) = ToSet(s) \cup ToSet(t)
  BY <1>8
<1>10. ASSUME IsInjective(s), IsInjective(t), ToSet(s) \cap ToSet(t) = {}
       PROVE  IsInjective(c)
  <2>1. \A i, j \in 1..Len(s) : s[i] = s[j] => i = j
    BY <1>10, ListIsFunction
  <2>2. \A i, j \in 1..Len(t) : t[i] = t[j] => i = j
    BY <1>10, ListIsFunction
  <2>3. \A i \in 1..Len(s), j \in 1..Len(t) : s[i] # t[j]
    BY <1>10, <1>3, <1>4
  <2>4. ASSUME NEW i \in 1..Len(c), NEW j \in 1..Len(c), c[i] = c[j] PROVE i = j
    <3>1. CASE i \in 1..Len(s) /\ j \in 1..Len(s)
      BY <3>1, <2>4, <2>1, <1>5
    <3>2. CASE i \in 1..Len(s) /\ \E k \in 1..Len(t) : j = Len(s) + k
      BY <3>2, <2>4, <2>3, <1>5, <1>6
    <3>3. CASE j \in 1..Len(s) /\ \E k \in 1..Len(t) : i = Len(s) + k
      BY <3>3, <2>4, <2>3, <1>5, <1>6
    <3>4. CASE (\E k \in 1..Len(t) : i = Len(s) + k) /\ (\E k \in 1..Len(t) : j = Len(s) + k)
      BY <3>4, <2>4, <2>2, <1>6
    <3> QED BY <3>1, <3>2, <3>3, <3>4, <1>7
  <2> QED BY <2>4, <1>1, ListIsFunction
<1> QED
  BY <1>1, <1>9, <1>10 DEF c

\* A list without repetitions is not longer than the set of its elements.
LEMMA InjectiveLen ==
    ASSUME NEW T, IsFiniteSet(T), NEW s \in Seq(T), IsInjective(s)
    PROVE  /\ Len(s) <= Cardinality(T)
           /\ Len(s) = Cardinality(T) => ToSet(s) = T
<1>1. Len(s) \in Nat /\ \A i, j \in 1..Len(s) : s[i] = s[j] => i = j
  BY ListIsFunction
<1>2. s \in Injection(1..Len(s), T)
  BY <1>1 DEF Injection, IsInjective
<1>3. /\ Cardinality(1..Len(s)) <= Cardinality(T)
      /\ Cardinality(1..Len(s)) = Cardinality(T) => s \in Surjection(1..Len(s), T)
  BY <1>2, FS_Injection
<1>4. Cardinality(1..Len(s)) = Len(s)
  <2>1. Len(s) \in Int /\ 1 \in Int
    BY <1>1
  <2>2. Cardinality(1..Len(s)) = IF 1 > Len(s) THEN 0 ELSE Len(s) - 1 + 1
    BY <2>1, FS_Interval, Zenon
  <2> QED BY <1>1, <2>2
<1>5. s \in Surjection(1..Len(s), T) => T \subseteq ToSet(s)
  BY <1>1, ListIsFunction DEF Surjection
<1>6. ToSet(s) \subseteq T
  BY ListIsFunction
<1> QED BY <1>3, <1>4, <1>5, <1>6

\* The elements of a finite set in some order.
LEMMA ListOfSet ==
    ASSUME NEW T, IsFiniteSet(T)
    PROVE  /\ SetToSeq(T) \in SetToSeqs(T)
           /\ \A s \in SetToSeqs(T) :
                 /\ s \in Seq(T) /\ Len(s) = Cardinality(T)
                 /\ ToSet(s) = T /\ IsInjective(s)
<1> DEFINE D == 1..Cardinality(T)
<1>1. Cardinality(T) \in Nat
  BY FS_CardinalityType
<1>2. PICK b : b \in Bijection(D, T)
  BY FS_CardinalityType DEF ExistsBijection
<1>3. b \in [D -> T] /\ IsInjective(b)
  BY <1>2 DEF Bijection, Injection, IsInjective
<1>4. SetToSeq(T) \in [D -> T] /\ IsInjective(SetToSeq(T))
  BY <1>3, Zenon DEF SetToSeq
<1>5. SetToSeq(T) \in SetToSeqs(T)
  BY <1>4 DEF SetToSeqs, IsInjective
<1>6. ASSUME NEW s \in SetToSeqs(T)
      PROVE  s \in Seq(T) /\ Len(s) = Cardinality(T) /\ ToSet(s) = T /\ IsInjective(s)
  <2>1. s \in [D -> T] /\ \A i, j \in D : i # j => s[i] # s[j]
    BY DEF SetToSeqs
  <2>2. s \in Seq(T) /\ Len(s) = Cardinality(T)
    BY <2>1, <1>1
  <2>3. IsInjective(s)
    BY <2>1 DEF IsInjective
  <2> QED BY <2>2, <2>3, InjectiveLen
<1> QED BY <1>5, <1>6

\* How often an element is in a list.
Count(s, x) == Cardinality({i \in DOMAIN s : s[i] = x})

LEMMA CountIsNat ==
    ASSUME NEW S, NEW s \in Seq(S), NEW x
    PROVE  /\ Count(s, x) \in Nat /\ IsFiniteSet({i \in DOMAIN s : s[i] = x})
           /\ Count(<<>>, x) = 0
<1>1. Len(s) \in Nat /\ DOMAIN s = 1..Len(s)
  BY ListIsFunction
<1>2. IsFiniteSet(1..Len(s))
  BY <1>1, FS_Interval
<1>3. IsFiniteSet({i \in DOMAIN s : s[i] = x})
  <2>1. {i \in DOMAIN s : s[i] = x} \in SUBSET (1..Len(s))
    BY <1>1
  <2> QED BY <1>2, <2>1, FS_Subset
<1>4. {i \in DOMAIN <<>> : <<>>[i] = x} = {}
  OBVIOUS
<1> QED BY <1>3, <1>4, FS_CardinalityType, FS_EmptySet DEF Count

\* list_append() adds one occurrence of the new element.
LEMMA CountAppend ==
    ASSUME NEW S, NEW s \in Seq(S), NEW y \in S, NEW x
    PROVE  Count(Append(s, y), x) = Count(s, x) + (IF y = x THEN 1 ELSE 0)
<1> DEFINE a == Append(s, y)
           A == {i \in DOMAIN s : s[i] = x}
           B == {i \in DOMAIN a : a[i] = x}
<1>1. /\ DOMAIN s = 1..Len(s) /\ Len(s) \in Nat /\ DOMAIN a = 1..(Len(s) + 1)
      /\ \A i \in 1..Len(s) : a[i] = s[i]
      /\ a[Len(s) + 1] = y
  BY AppendProperties, ListIsFunction
<1>2. IsFiniteSet(A) /\ Cardinality(A) \in Nat
  BY CountIsNat, FS_CardinalityType
<1> HIDE DEF a
<1>3. Len(s) + 1 \notin A
  BY <1>1
<1>4. CASE y = x
  <2>1. B = A \cup {Len(s) + 1}
    BY <1>4, <1>1
  <2> HIDE DEF A, B
  <2>2. Cardinality(B) = Cardinality(A) + 1
    BY <2>1, <1>2, <1>3, FS_AddElement
  <2> QED BY <2>2, <1>4 DEF Count, A, B, a
<1>5. CASE y # x
  <2>1. B = A
    BY <1>5, <1>1
  <2>2. Count(a, x) = Count(s, x) /\ Count(s, x) \in Nat
    BY <2>1, <1>2 DEF Count
  <2> QED BY <2>2, <1>5 DEF a
<1> QED BY <1>4, <1>5

\* list_pop() removes one occurrence of the first element.
LEMMA CountTail ==
    ASSUME NEW S, NEW s \in Seq(S), s # <<>>, NEW x
    PROVE  Count(s, x) = Count(Tail(s), x) + (IF Head(s) = x THEN 1 ELSE 0)
<1> DEFINE t == Tail(s)
           A == {i \in DOMAIN s : s[i] = x}
           B == {i \in DOMAIN t : t[i] = x}
<1>1. /\ DOMAIN s = 1..Len(s) /\ Len(s) \in Nat \ {0} /\ t \in Seq(S)
      /\ DOMAIN t = 1..(Len(s) - 1) /\ Head(s) = s[1]
      /\ \A i \in 1..(Len(s) - 1) : t[i] = s[i + 1]
  BY HeadTailProperties, EmptySeq, ListIsFunction
<1> HIDE DEF t
<1>2. IsFiniteSet(A) /\ IsFiniteSet(B)
  BY <1>1, CountIsNat
<1>3. Cardinality(B) = Cardinality(A \ {1})
  <2> DEFINE b == [i \in B |-> i + 1]
  <2>1. \A i \in B : i \in Nat \ {0} /\ i + 1 \in A \ {1}
    BY <1>1
  <2>2. \A k \in A \ {1} : k - 1 \in B /\ (k - 1) + 1 = k
    <3> SUFFICES ASSUME NEW k \in A \ {1} PROVE k - 1 \in B /\ (k - 1) + 1 = k
      OBVIOUS
    <3>1. k \in 1..Len(s) /\ s[k] = x /\ k # 1
      OBVIOUS
    <3>2. k - 1 \in 1..(Len(s) - 1) /\ (k - 1) + 1 = k
      BY <3>1, <1>1
    <3> QED BY <3>1, <3>2, <1>1
  <2> HIDE DEF A, B
  <2>3. b \in [B -> A \ {1}]
    BY <2>1
  <2>4. \A i, j \in B : b[i] = b[j] => i = j
    BY <2>1
  <2>5. \A k \in A \ {1} : \E i \in B : b[i] = k
    BY <2>2
  <2>6. b \in Bijection(B, A \ {1})
    BY <2>3, <2>4, <2>5 DEF Bijection, Injection, Surjection, IsInjective
  <2>7. ExistsBijection(B, A \ {1})
    BY <2>6 DEF ExistsBijection
  <2> QED BY <2>7, <1>2, FS_Bijection
<1>4. Cardinality(A) \in Nat /\ Cardinality(B) \in Nat
  BY <1>2, FS_CardinalityType
<1>5. 1 \in A <=> Head(s) = x
  BY <1>1
<1>6. Cardinality(A \ {1}) = IF 1 \in A THEN Cardinality(A) - 1 ELSE Cardinality(A)
  BY <1>2, FS_RemoveElement
<1>7. Count(s, x) = Cardinality(A) /\ Count(t, x) = Cardinality(B)
  BY DEF Count
<1> HIDE DEF A, B
<1>8. Count(s, x) = Count(t, x) + (IF Head(s) = x THEN 1 ELSE 0)
  BY <1>3, <1>4, <1>5, <1>6, <1>7
<1> QED BY <1>8 DEF t
=============================================================================
