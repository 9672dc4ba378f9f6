--------------------------- MODULE Ledger_proofs ---------------------------
(***************************************************************************)
(* The account of the events that the harness keeps, for any number of     *)
(* channels, slots and events, in three layers.  A row is a sequence       *)
(* without repetitions: what sorting, cutting and trimming do to one.  A   *)
(* tidy record of a channel has its events in one place each: what each    *)
(* method of the queue does to one, and which events it gives away or      *)
(* takes.  The ledger says that the pending events are divided among the   *)
(* channels and the slots: what moving events from one owner to another,   *)
(* adding a new event, or settling some does to it.                        *)
(***************************************************************************)
EXTENDS Harness, FiniteSetTheorems, TLAPS

\* Almost every step is first-order logic; the few that need arithmetic,
\* sequences or function updates cite SMT.
USE Zenon

\* A sequence of different events.
Distinct(s) == \A i, j \in DOMAIN s : s[i] = s[j] => i = j

Row(s) == s \in Seq(Events) /\ Distinct(s)

-----------------------------------------------------------------------------
(***************************************************************************)
(* Sequences of different events.                                          *)
(***************************************************************************)
LEMMA RowShape ==
  ASSUME NEW s, Row(s)
  PROVE  /\ s \in Seq(Events) /\ Len(s) \in Nat /\ DOMAIN s = 1..Len(s)
         /\ \A i \in 1..Len(s) : s[i] \in Elements(s) /\ s[i] \in Events
         /\ \A i, j \in 1..Len(s) : s[i] = s[j] => i = j
         /\ \A e \in Elements(s) : \E i \in 1..Len(s) : s[i] = e
         /\ Elements(s) \subseteq Events
BY SMT DEF Row, Distinct, Elements

LEMMA RowEmpty == Row(<<>>) /\ Elements(<<>>) = {}
BY SMT DEF Row, Distinct, Elements

LEMMA RowConcat ==
  ASSUME NEW s, NEW t, Row(s), Row(t), Elements(s) \cap Elements(t) = {}
  PROVE  Row(s \o t) /\ Elements(s \o t) = Elements(s) \cup Elements(t)
<1> DEFINE r == s \o t
<1>1. s \in Seq(Events) /\ t \in Seq(Events)
  BY DEF Row
<1>2. /\ r \in Seq(Events) /\ Len(r) = Len(s) + Len(t)
      /\ \A i \in 1..Len(s) : r[i] = s[i]
      /\ \A i \in 1..Len(t) : r[Len(s) + i] = t[i]
  BY <1>1, SMT
<1>3. Len(s) \in Nat /\ Len(t) \in Nat /\ DOMAIN r = 1..Len(r) /\ DOMAIN s = 1..Len(s) /\ DOMAIN t = 1..Len(t)
  BY <1>1, <1>2, SMT
<1> HIDE DEF r
<1>4. \A i \in 1..Len(r) : i \in 1..Len(s) \/ (i - Len(s) \in 1..Len(t) /\ i = Len(s) + (i - Len(s)))
  BY <1>2, <1>3, SMT
<1>5. \A i \in 1..Len(s) : i \in 1..Len(r)
  BY <1>2, <1>3, SMT
<1>6. \A i \in 1..Len(t) : Len(s) + i \in 1..Len(r)
  BY <1>2, <1>3, SMT
<1>7. Elements(r) = Elements(s) \cup Elements(t)
  <2>1. ASSUME NEW i \in 1..Len(s) PROVE s[i] \in Elements(r)
    BY <1>2, <1>3, <1>5 DEF Elements
  <2>2. ASSUME NEW i \in 1..Len(t) PROVE t[i] \in Elements(r)
    BY <1>2, <1>3, <1>6 DEF Elements
  <2>3. ASSUME NEW i \in 1..Len(r) PROVE r[i] \in Elements(s) \cup Elements(t)
    <3>1. CASE i \in 1..Len(s)
      BY <3>1, <1>2, <1>3 DEF Elements
    <3>2. CASE i \notin 1..Len(s)
      <4>1. i - Len(s) \in 1..Len(t) /\ r[i] = t[i - Len(s)]
        BY <3>2, <1>2, <1>4
      <4> QED
        BY <4>1, <1>3 DEF Elements
    <3> QED
      BY <3>1, <3>2
  <2>4. Elements(s) \subseteq Elements(r) /\ Elements(t) \subseteq Elements(r)
    BY <2>1, <2>2, <1>3 DEF Elements
  <2>5. Elements(r) \subseteq Elements(s) \cup Elements(t)
    BY <2>3, <1>3 DEF Elements
  <2> QED
    BY <2>4, <2>5
<1>8. ASSUME NEW i \in 1..Len(r), NEW j \in 1..Len(r), r[i] = r[j] PROVE i = j
  <2>1. CASE i \in 1..Len(s) /\ j \in 1..Len(s)
    BY <2>1, <1>2, <1>8, <1>3 DEF Row, Distinct
  <2>2. CASE i \in 1..Len(s) /\ j \notin 1..Len(s)
    <3>1. r[i] \in Elements(s)
      BY <1>2, <1>3, <2>2 DEF Elements
    <3>2. r[j] \in Elements(t)
      BY <1>2, <1>3, <2>2, <1>4 DEF Elements
    <3> QED
      BY <3>1, <3>2, <1>8
  <2>3. CASE i \notin 1..Len(s) /\ j \in 1..Len(s)
    <3>1. r[j] \in Elements(s)
      BY <1>2, <1>3, <2>3 DEF Elements
    <3>2. r[i] \in Elements(t)
      BY <1>2, <1>3, <2>3, <1>4 DEF Elements
    <3> QED
      BY <3>1, <3>2, <1>8
  <2>4. CASE i \notin 1..Len(s) /\ j \notin 1..Len(s)
    <3>1. i - Len(s) \in 1..Len(t) /\ j - Len(s) \in 1..Len(t)
      BY <1>4, <2>4
    <3>2. r[i] = t[i - Len(s)] /\ r[j] = t[j - Len(s)]
      BY <1>2, <1>4, <2>4
    <3>3. i - Len(s) = j - Len(s)
      BY <3>1, <3>2, <1>8, <1>3 DEF Row, Distinct
    <3> QED
      BY <3>3, <3>1, <1>3, SMT
  <2> QED
    BY <2>1, <2>2, <2>3, <2>4
<1>9. Row(r)
  BY <1>2, <1>3, <1>8 DEF Row, Distinct
<1> QED
  BY <1>7, <1>9 DEF r

LEMMA NatSplit ==
  ASSUME NEW n \in Nat, NEW m \in Nat, n <= m
  PROVE  n = m \/ n + 1 <= m
BY SMT

LEMMA RowCut ==
  ASSUME NEW s, Row(s), NEW n \in 0..Len(s)
  PROVE  LET a == SubSeq(s, 1, n)
             b == SubSeq(s, n + 1, Len(s))
         IN  /\ Row(a) /\ Row(b) /\ Len(a) = n
             /\ Elements(a) \cup Elements(b) = Elements(s)
             /\ Elements(a) \cap Elements(b) = {}
<1> DEFINE a == SubSeq(s, 1, n)
           b == SubSeq(s, n + 1, Len(s))
<1>1. s \in Seq(Events) /\ Len(s) \in Nat /\ DOMAIN s = 1..Len(s) /\ n \in Nat /\ n <= Len(s)
  BY SMT DEF Row
<1>2. /\ a \in Seq(Events) /\ Len(a) = n /\ DOMAIN a = 1..n
      /\ \A i \in 1..n : a[i] = s[i] /\ i \in 1..Len(s)
  BY <1>1, SMT
<1>3. /\ b \in Seq(Events) /\ Len(b) = Len(s) - n /\ DOMAIN b = 1..Len(s) - n
      /\ \A i \in 1..Len(s) - n : b[i] = s[n + i] /\ n + i \in 1..Len(s)
  <2>1. n + 1 \in Nat /\ n + 1 <= Len(s) + 1 /\ n + 1 >= 1
    BY <1>1, SMT
  <2>2. b \in Seq(Events)
    BY <1>1, <2>1, SMT
  <2>3. Len(b) = Len(s) - n
    <3>1. CASE n = Len(s)
      BY <3>1, <1>1, <2>1, SMT
    <3>2. CASE n + 1 <= Len(s)
      BY <3>2, <1>1, <2>1, SMT
    <3>3. n = Len(s) \/ n + 1 <= Len(s)
      BY <1>1, NatSplit
    <3> QED
      BY <3>1, <3>2, <3>3
  <2>4. DOMAIN b = 1..Len(s) - n
    BY <2>2, <2>3, SMT
  <2>5. \A i \in 1..Len(s) - n : n + i \in 1..Len(s)
    BY <1>1, SMT
  <2>6. \A i \in 1..Len(s) - n : b[i] = s[n + i]
    BY <1>1, <2>1, SMT
  <2> QED
    BY <2>2, <2>3, <2>4, <2>5, <2>6
<1>4. \A i \in 1..Len(s) : i \in 1..n \/ (i - n \in 1..Len(s) - n /\ n + (i - n) = i)
  BY <1>1, SMT
<1>5. \A i \in 1..n, j \in 1..Len(s) - n : i # n + j
  BY <1>1, SMT
<1>6. \A i, j \in 1..Len(s) - n : n + i = n + j => i = j
  BY <1>1, SMT
<1>7. \A i, j \in 1..Len(s) : s[i] = s[j] => i = j
  BY <1>1 DEF Row, Distinct
<1> HIDE DEF a, b
<1>8. Row(a)
  BY <1>2, <1>7 DEF Row, Distinct
<1>9. Row(b)
  BY <1>3, <1>6, <1>7, SMT DEF Row, Distinct
<1>10. Elements(a) \cup Elements(b) = Elements(s)
  <2>1. Elements(a) \subseteq Elements(s)
    BY <1>1, <1>2 DEF Elements
  <2>2. Elements(b) \subseteq Elements(s)
    BY <1>1, <1>3 DEF Elements
  <2>3. ASSUME NEW i \in 1..Len(s) PROVE s[i] \in Elements(a) \cup Elements(b)
    <3>1. CASE i \in 1..n
      BY <3>1, <1>2 DEF Elements
    <3>2. CASE i - n \in 1..Len(s) - n /\ n + (i - n) = i
      <4>1. b[i - n] = s[i]
        BY <3>2, <1>3
      <4> QED
        BY <4>1, <3>2, <1>3 DEF Elements
    <3> QED
      BY <3>1, <3>2, <1>4
  <2> QED
    BY <2>1, <2>2, <2>3, <1>1 DEF Elements
<1>11. Elements(a) \cap Elements(b) = {}
  BY <1>2, <1>3, <1>5, <1>7, SMT DEF Elements
<1> QED
  BY <1>2, <1>8, <1>9, <1>10, <1>11 DEF a, b

LEMMA RowAppend ==
  ASSUME NEW s, Row(s), NEW e \in Events, e \notin Elements(s)
  PROVE  Row(Append(s, e)) /\ Elements(Append(s, e)) = Elements(s) \cup {e}
<1>1. Row(<<e>>) /\ Elements(<<e>>) = {e}
  BY SMT DEF Row, Distinct, Elements
<1>2. Append(s, e) = s \o <<e>>
  BY SMT DEF Row
<1> QED
  BY <1>1, <1>2, RowConcat, SMT

LEMMA RowTail ==
  ASSUME NEW s, Row(s), s # <<>>
  PROVE  /\ Row(Tail(s)) /\ Head(s) \in Elements(s)
         /\ Elements(Tail(s)) = Elements(s) \ {Head(s)}
<1>1. s \in Seq(Events) /\ Len(s) \in Nat /\ 1 \in 0..Len(s) /\ 1 \in DOMAIN s
  BY SMT DEF Row
<1>2. Tail(s) = SubSeq(s, 1 + 1, Len(s)) /\ Head(s) = s[1]
  <2>1. Head(s) = s[1]
    BY <1>1, SMT
  <2>2. Tail(s) = SubSeq(s, 2, Len(s))
    BY <1>1, SMT
  <2> QED
    BY <2>1, <2>2, SMT
<1>3. Elements(SubSeq(s, 1, 1)) = {s[1]}
  BY <1>1, SMT DEF Elements
<1>4. s[1] \in Elements(s)
  BY <1>1 DEF Elements
<1>5. /\ Row(SubSeq(s, 1 + 1, Len(s)))
      /\ Elements(SubSeq(s, 1, 1)) \cup Elements(SubSeq(s, 1 + 1, Len(s))) = Elements(s)
      /\ Elements(SubSeq(s, 1, 1)) \cap Elements(SubSeq(s, 1 + 1, Len(s))) = {}
  BY <1>1, RowCut
<1>6. Elements(SubSeq(s, 1 + 1, Len(s))) = Elements(s) \ {s[1]}
  BY <1>3, <1>5
<1> QED
  BY <1>2, <1>4, <1>5, <1>6

\* remove at a position, retain of the others.
LEMMA RowWithout ==
  ASSUME NEW s, Row(s), NEW e
  PROVE  Row(Without(s, e)) /\ Elements(Without(s, e)) = Elements(s) \ {e}
<1>1. CASE e \notin Elements(s)
  BY <1>1 DEF Without
<1>2. CASE e \in Elements(s)
  <2> DEFINE i == CHOOSE i \in DOMAIN s : s[i] = e
             a == SubSeq(s, 1, i - 1)
             b == SubSeq(s, i + 1, Len(s))
  <2>1. i \in DOMAIN s /\ s[i] = e
    BY <1>2 DEF Elements
  <2>2. Without(s, e) = a \o b
    BY <1>2 DEF Without
  <2> HIDE DEF i
  <2>3. s \in Seq(Events) /\ Len(s) \in Nat /\ DOMAIN s = 1..Len(s)
    BY SMT DEF Row
  <2>4. i \in 1..Len(s) /\ i - 1 \in 0..Len(s) /\ i \in 0..Len(s) /\ (i - 1) + 1 = i
    BY <2>1, <2>3, SMT
  <2> DEFINE c == SubSeq(s, 1, i)
             d == SubSeq(s, (i - 1) + 1, Len(s))
  <2>5. /\ Row(a) /\ Elements(a) \cup Elements(d) = Elements(s)
        /\ Elements(a) \cap Elements(d) = {}
    BY <2>4, RowCut
  <2>6. /\ Row(b) /\ Elements(c) \cup Elements(b) = Elements(s)
        /\ Elements(c) \cap Elements(b) = {}
    BY <2>4, RowCut
  <2>7. /\ \A x \in Elements(c) : x \in Elements(a) \/ x = s[i]
        /\ \A x \in Elements(a) : x \in Elements(c)
    <3>1. (\A k \in 1..i : k \in 1..i - 1 \/ k = i) /\ (\A k \in 1..i - 1 : k \in 1..i)
      BY <2>3, <2>4, SMT
    <3>2. DOMAIN c = 1..i /\ \A k \in 1..i : c[k] = s[k]
      BY <2>3, <2>4, SMT
    <3>3. DOMAIN a = 1..i - 1 /\ \A k \in 1..i - 1 : a[k] = s[k]
      BY <2>3, <2>4, SMT
    <3> HIDE DEF a, c
    <3> QED
      BY <3>1, <3>2, <3>3 DEF Elements
  <2>8. s[i] \in Elements(c)
    <3>1. i \in DOMAIN c /\ c[i] = s[i]
      BY <2>3, <2>4, SMT
    <3> HIDE DEF c
    <3> QED
      BY <3>1 DEF Elements
  <2>9. s[i] \in Elements(d)
    <3>1. 1 \in DOMAIN d /\ d[1] = s[i]
      BY <2>3, <2>4, SMT
    <3> HIDE DEF d
    <3> QED
      BY <3>1 DEF Elements
  <2> HIDE DEF a, b, c, d
  <2>10. Elements(a) \cap Elements(b) = {}
    BY <2>6, <2>7
  <2>11. Row(a \o b) /\ Elements(a \o b) = Elements(a) \cup Elements(b)
    BY <2>5, <2>6, <2>10, RowConcat
  <2>12. e \notin Elements(a) /\ e \notin Elements(b)
    BY <2>1, <2>5, <2>6, <2>8, <2>9
  <2>13. \A x \in Elements(s) : x \in Elements(a) \/ x = e \/ x \in Elements(b)
    BY <2>1, <2>6, <2>7
  <2>14. \A x \in Elements(a) : x \in Elements(s)
    BY <2>5
  <2>15. \A x \in Elements(b) : x \in Elements(s)
    BY <2>6
  <2>16. Elements(a) \cup Elements(b) = Elements(s) \ {e}
    BY <2>12, <2>13, <2>14, <2>15
  <2> QED
    BY <2>2, <2>11, <2>16
<1> QED
  BY <1>1, <1>2

\* The number of positions before one, in a strict total order of 1..n.
LEMMA Ranks ==
  ASSUME NEW n \in Nat, NEW B \in [1..n -> SUBSET (1..n)],
         \A i \in 1..n : i \notin B[i],
         \A i, j \in 1..n : i # j => \/ i \in B[j] /\ B[i] \subseteq B[j]
                                     \/ j \in B[i] /\ B[j] \subseteq B[i]
  PROVE  /\ \A i \in 1..n : Cardinality(B[i]) + 1 \in 1..n
         /\ \A i, j \in 1..n : Cardinality(B[i]) = Cardinality(B[j]) => i = j
         /\ \A k \in 1..n : \E i \in 1..n : Cardinality(B[i]) = k - 1
<1> DEFINE N == 1..n
<1>1. IsFiniteSet(N) /\ Cardinality(N) = n
  <2>1. IsFiniteSet(1..n) /\ Cardinality(1..n) = IF 1 > n THEN 0 ELSE n - 1 + 1
    <3>1. 1 \in Int /\ n \in Int
      BY SMT
    <3> QED
      BY <3>1, FS_Interval
  <2> QED
    BY <2>1, SMT
<1>2. ASSUME NEW i \in N
      PROVE  IsFiniteSet(B[i]) /\ Cardinality(B[i]) \in Nat /\ Cardinality(B[i]) + 1 \in N
  <2>1. B[i] \in SUBSET N
    OBVIOUS
  <2>2. IsFiniteSet(B[i]) /\ Cardinality(B[i]) <= Cardinality(N) /\ (Cardinality(N) = Cardinality(B[i]) => N = B[i])
    BY <1>1, <2>1, FS_Subset
  <2>3. Cardinality(B[i]) \in Nat
    BY <2>2, FS_CardinalityType
  <2>4. Cardinality(B[i]) <= n /\ Cardinality(B[i]) # n
    BY <2>1, <2>2, <1>1
  <2> QED
    BY <2>2, <2>3, <2>4, SMT
<1>3. ASSUME NEW i \in N, NEW j \in N, Cardinality(B[i]) = Cardinality(B[j])
      PROVE  i = j
  <2>1. ASSUME NEW x \in N, NEW y \in N, x \in B[y], B[x] \subseteq B[y],
               Cardinality(B[y]) = Cardinality(B[x])
        PROVE  FALSE
    <3>1. IsFiniteSet(B[y]) /\ B[x] \in SUBSET B[y]
      BY <1>2, <2>1
    <3>2. B[y] = B[x]
      BY <3>1, <2>1, FS_Subset
    <3> QED
      BY <3>2, <2>1
  <2> QED
    BY <2>1, <1>3
<1>4. ASSUME NEW k \in N PROVE \E i \in N : Cardinality(B[i]) = k - 1
  <2> DEFINE f == [i \in N |-> Cardinality(B[i]) + 1]
  <2>1. f \in [N -> N]
    BY <1>2
  <2>2. \A i, j \in N : f[i] = f[j] => i = j
    <3> SUFFICES ASSUME NEW i \in N, NEW j \in N, f[i] = f[j] PROVE i = j
      OBVIOUS
    <3>1. Cardinality(B[i]) + 1 = Cardinality(B[j]) + 1
      OBVIOUS
    <3>2. Cardinality(B[i]) \in Nat /\ Cardinality(B[j]) \in Nat
      BY <1>2
    <3> HIDE DEF f
    <3>3. Cardinality(B[i]) = Cardinality(B[j])
      BY <3>1, <3>2, SMT
    <3> QED
      BY <3>3, <1>3
  <2>3. f \in Injection(N, N)
    <3> HIDE DEF f
    <3> QED
      BY <2>1, <2>2 DEF Injection, IsInjective
  <2>4. f \in Surjection(N, N)
    <3> HIDE DEF f
    <3> QED
      BY <2>3, <1>1, FS_Injection
  <2>5. PICK i \in N : f[i] = k
    <3> HIDE DEF f
    <3> QED
      BY <2>4 DEF Surjection
  <2>6. Cardinality(B[i]) + 1 = k /\ Cardinality(B[i]) \in Nat
    BY <2>5, <1>2
  <2>7. k \in Nat
    BY SMT
  <2> HIDE DEF f
  <2>8. Cardinality(B[i]) = k - 1
    BY <2>6, <2>7, SMT
  <2> QED
    BY <2>8
<1> QED
  BY <1>2, <1>3, <1>4

\* The stable sort by created_at permutes the events.
LEMMA RowSort ==
  ASSUME NEW s, Row(s)
  PROVE  /\ Row(SortByCreated(s)) /\ Elements(SortByCreated(s)) = Elements(s)
         /\ Len(SortByCreated(s)) = Len(s)
<1> DEFINE n == Len(s)
           c == [i \in 1..n |-> Created[s[i]]]
           Before(i) == {j \in DOMAIN s : \/ Created[s[j]] < Created[s[i]]
                                          \/ Created[s[j]] = Created[s[i]] /\ j < i}
           B == [i \in 1..n |-> Before(i)]
           pos == [k \in 1..n |-> CHOOSE i \in DOMAIN s : Cardinality(Before(i)) = k - 1]
           r == SortByCreated(s)
<1>1. /\ s \in Seq(Events) /\ n \in Nat /\ DOMAIN s = 1..n
      /\ \A i \in 1..n : s[i] \in Elements(s) /\ s[i] \in Events
      /\ \A i, j \in 1..n : s[i] = s[j] => i = j
      /\ \A e \in Elements(s) : \E i \in 1..n : s[i] = e
  BY RowShape
<1>2. \A i \in 1..n : i \in Nat /\ Created[s[i]] \in Nat
  <2>1. \A i \in 1..n : i \in Nat
    BY <1>1, SMT
  <2>2. \A e \in Events : Created[e] \in Nat
    BY QueueAssumption
  <2> QED
    BY <2>1, <2>2, <1>1
<1> HIDE DEF n
<1>3. B \in [1..n -> SUBSET (1..n)]
  BY <1>1
<1>4. \A i \in 1..n : i \notin B[i]
  <2>1. ASSUME NEW i \in 1..n PROVE ~(Created[s[i]] < Created[s[i]]) /\ ~(i < i)
    BY <1>2, SMT
  <2> QED
    BY <2>1
<1>5. ASSUME NEW i \in 1..n, NEW j \in 1..n, i # j
      PROVE  \/ i \in B[j] /\ B[i] \subseteq B[j]
             \/ j \in B[i] /\ B[j] \subseteq B[i]
  <2> DEFINE Less(x, y) == \/ Created[s[x]] < Created[s[y]]
                           \/ Created[s[x]] = Created[s[y]] /\ x < y
  <2>1. ASSUME NEW x \in 1..n, NEW y \in 1..n, NEW z \in 1..n, Less(x, y), Less(y, z)
        PROVE  Less(x, z)
    BY <1>2, <2>1, SMT
  <2>2. Less(i, j) \/ Less(j, i)
    BY <1>2, <1>5, SMT
  <2>3. ASSUME NEW x \in 1..n, NEW y \in 1..n PROVE x \in B[y] <=> Less(x, y)
    BY <1>1
  <2>4. ASSUME NEW y \in 1..n PROVE B[y] \subseteq 1..n
    BY <1>3
  <2> HIDE DEF B, Less
  <2> QED
    BY <2>1, <2>2, <2>3, <2>4
<1> HIDE DEF B
<1>6. /\ \A i \in 1..n : Cardinality(B[i]) + 1 \in 1..n
      /\ \A i, j \in 1..n : Cardinality(B[i]) = Cardinality(B[j]) => i = j
      /\ \A k \in 1..n : \E i \in 1..n : Cardinality(B[i]) = k - 1
  BY <1>1, <1>3, <1>4, <1>5, Ranks
<1>7. \A k \in 1..n : pos[k] \in 1..n /\ Cardinality(B[pos[k]]) = k - 1
  <2> HIDE DEF Before
  <2>1. \A i \in 1..n : B[i] = Before(i)
    BY DEF B
  <2>2. ASSUME NEW k \in 1..n
        PROVE  \E i \in DOMAIN s : Cardinality(Before(i)) = k - 1
    BY <2>1, <1>1, <1>6
  <2>3. ASSUME NEW k \in 1..n
        PROVE  pos[k] \in DOMAIN s /\ Cardinality(Before(pos[k])) = k - 1
    BY <2>2
  <2> HIDE DEF pos
  <2> QED
    BY <2>1, <2>3, <1>1
<1>8. r = [k \in 1..n |-> s[pos[k]]]
  <2>1. \A k \in 1..n : (CHOOSE i \in DOMAIN s : Cardinality(Before(i)) = k - 1) = pos[k]
    BY SMT
  <2>2. r = [k \in DOMAIN s |-> s[CHOOSE i \in DOMAIN s : Cardinality(Before(i)) = k - 1]]
    BY DEF SortByCreated
  <2>3. r = [k \in 1..n |-> s[CHOOSE i \in DOMAIN s : Cardinality(Before(i)) = k - 1]]
    BY <2>2, <1>1
  <2>4. DOMAIN r = 1..n /\ r = [k \in DOMAIN r |-> r[k]]
    BY <2>3
  <2>5. ASSUME NEW k \in 1..n PROVE r[k] = s[pos[k]]
    BY <2>3, <2>1
  <2> HIDE DEF pos, r, Before
  <2> QED
    BY <2>4, <2>5
<1> HIDE DEF pos, r
<1>9. \A k \in 1..n : r[k] = s[pos[k]]
  BY <1>8
<1>10. r \in Seq(Events) /\ DOMAIN r = 1..n /\ Len(r) = n
  <2>1. r \in [1..n -> Events]
    BY <1>8, <1>7, <1>1
  <2> QED
    BY <2>1, <1>1, SMT
<1>11. ASSUME NEW j \in 1..n, NEW k \in 1..n, r[j] = r[k] PROVE j = k
  <2>1. pos[j] = pos[k]
    BY <1>9, <1>7, <1>1, <1>11, SMT
  <2>2. j - 1 = k - 1
    BY <2>1, <1>7
  <2> QED
    BY <2>2, <1>1, SMT
<1>12. Row(r)
  BY <1>10, <1>11 DEF Row, Distinct
<1>13. ASSUME NEW e \in Elements(s) PROVE e \in Elements(r)
  <2>1. PICK i \in 1..n : s[i] = e
    BY <1>1
  <2> DEFINE k == Cardinality(B[i]) + 1
  <2>2. k \in 1..n
    BY <1>6
  <2>3. Cardinality(B[i]) = k - 1
    <3>1. B[i] \in SUBSET (1..n) /\ IsFiniteSet(1..n)
      <4>1. 1 \in Int /\ n \in Int
        BY <1>1, SMT
      <4> QED
        BY <4>1, <1>3, FS_Interval
    <3>2. Cardinality(B[i]) \in Nat
      BY <3>1, FS_Subset, FS_CardinalityType
    <3> QED
      BY <3>2, SMT
  <2> HIDE DEF k
  <2>4. pos[k] = i
    BY <2>2, <2>3, <1>6, <1>7
  <2> QED
    BY <2>1, <2>2, <2>4, <1>9, <1>10 DEF Elements
<1>14. ASSUME NEW e \in Elements(r) PROVE e \in Elements(s)
  <2>1. PICK k \in 1..n : e = r[k]
    BY <1>10 DEF Elements
  <2> QED
    BY <2>1, <1>1, <1>7, <1>9
<1>15. Elements(r) = Elements(s)
  BY <1>13, <1>14
<1> QED
  BY <1>10, <1>12, <1>15 DEF r, n

-----------------------------------------------------------------------------
(***************************************************************************)
(* The record of a channel: its events are in one place each, and the      *)
(* events it owns are these and the ones it has evicted or left out.       *)
(***************************************************************************)
Apart(A, B, C, G) ==
  A \cap B = {} /\ A \cap C = {} /\ B \cap C = {} /\ (A \cup B \cup C) \cap G = {}

Gone(c) == c.evicted \cup c.forgotten

Owns(c) == Drained(c) \cup Gone(c)

Tidy(c) ==
  /\ DOMAIN c = QFields
  /\ Row(c.queue) /\ Row(c.cancelled) /\ Row(c.withheld)
  /\ Apart(Elements(c.queue), Elements(c.cancelled), Elements(c.withheld), Gone(c))

BatchOK(b) ==
  /\ DOMAIN b = {"events", "cancelled", "reason"} /\ Row(b.events) /\ Row(b.cancelled)
  /\ Elements(b.events) \cap Elements(b.cancelled) = {}

\* An operation that touches none of the places of an event.
Alike(c, d) ==
  /\ DOMAIN d = QFields /\ d.queue = c.queue /\ d.cancelled = c.cancelled
  /\ d.withheld = c.withheld /\ d.evicted = c.evicted /\ d.forgotten = c.forgotten

LEMMA AlikeTidy ==
  ASSUME NEW c, NEW d, Tidy(c), Alike(c, d)
  PROVE  Tidy(d) /\ Owns(d) = Owns(c)
BY DEF Tidy, Alike, Owns, Gone, Drained

LEMMA MarksAlike ==
  ASSUME NEW c, Tidy(c), NEW x
  PROVE  /\ Alike(c, mark_complete(c))
         /\ Alike(c, compact_expired_state(c))
         /\ Alike(c, extend_in_flight_deadline(c))
         /\ Alike(c, [c EXCEPT !.throttle = x])
         /\ Alike(c, [c EXCEPT !.overdue = x])
         /\ Alike(c, [c EXCEPT !.retries = 0, !.throttle = "none"])
<1>0. DOMAIN c = QFields
  BY DEF Tidy
<1>1. Alike(c, mark_complete(c))
  BY <1>0 DEF Alike, mark_complete, QFields
<1>2. Alike(c, compact_expired_state(c))
  BY <1>0 DEF Alike, compact_expired_state, QFields
<1>3. Alike(c, extend_in_flight_deadline(c))
  BY <1>0 DEF Alike, extend_in_flight_deadline, QFields
<1>4. Alike(c, [c EXCEPT !.throttle = x]) /\ Alike(c, [c EXCEPT !.overdue = x])
      /\ Alike(c, [c EXCEPT !.retries = 0, !.throttle = "none"])
  BY <1>0 DEF Alike, QFields
<1> QED
  BY <1>1, <1>2, <1>3, <1>4

\* Putting events back: what does not fit is evicted from the back.
LEMMA PutBackRow ==
  ASSUME NEW c, DOMAIN c = QFields, Row(c.queue), NEW es, Row(es),
         Elements(es) \cap Elements(c.queue) = {}
  PROVE  LET d == PutBack(c, es)
         IN  /\ DOMAIN d = QFields /\ d.cancelled = c.cancelled /\ d.withheld = c.withheld
             /\ d.forgotten = c.forgotten /\ Row(d.queue)
             /\ \E X : /\ d.evicted = c.evicted \cup X /\ Elements(d.queue) \cap X = {}
                       /\ Elements(d.queue) \cup X = Elements(es) \cup Elements(c.queue)
<1> DEFINE all == es \o c.queue
           n == IF Len(all) > MaxPending THEN MaxPending ELSE Len(all)
           a == SubSeq(all, 1, n)
           b == SubSeq(all, n + 1, Len(all))
           d == PutBack(c, es)
<1>1. Row(all) /\ Elements(all) = Elements(es) \cup Elements(c.queue)
  BY RowConcat
<1>2. d = [c EXCEPT !.queue = a, !.evicted = @ \cup Elements(b)]
  BY DEF PutBack
<1> HIDE DEF all
<1>3. n \in 0..Len(all)
  <2>1. Len(all) \in Nat /\ MaxPending \in Nat
    BY <1>1, RowShape, QueueAssumption
  <2> QED
    BY <2>1, SMT
<1> HIDE DEF n
<1>4. /\ Row(a) /\ Elements(a) \cup Elements(b) = Elements(all)
      /\ Elements(a) \cap Elements(b) = {}
  BY <1>1, <1>3, RowCut
<1> HIDE DEF a, b, d
<1>5. /\ DOMAIN d = QFields /\ d.cancelled = c.cancelled /\ d.withheld = c.withheld
      /\ d.forgotten = c.forgotten /\ d.queue = a /\ d.evicted = c.evicted \cup Elements(b)
  BY <1>2 DEF QFields
<1> QED
  BY <1>1, <1>4, <1>5 DEF d

LEMMA RecoverTidy ==
  ASSUME NEW c, Tidy(c)
  PROVE  Tidy(recover_withheld(c)) /\ Owns(recover_withheld(c)) = Owns(c)
<1> DEFINE d == PutBack(c, c.withheld)
           r == recover_withheld(c)
<1>1. /\ DOMAIN c = QFields /\ Row(c.queue) /\ Row(c.cancelled) /\ Row(c.withheld)
      /\ Apart(Elements(c.queue), Elements(c.cancelled), Elements(c.withheld), Gone(c))
  BY DEF Tidy
<1>2. Elements(c.withheld) \cap Elements(c.queue) = {}
  BY <1>1 DEF Apart
<1>3. /\ DOMAIN d = QFields /\ d.cancelled = c.cancelled /\ d.withheld = c.withheld
      /\ d.forgotten = c.forgotten /\ Row(d.queue)
      /\ \E X : /\ d.evicted = c.evicted \cup X /\ Elements(d.queue) \cap X = {}
                /\ Elements(d.queue) \cup X = Elements(c.withheld) \cup Elements(c.queue)
  BY <1>1, <1>2, PutBackRow
<1>4. r = [d EXCEPT !.withheld = <<>>]
  BY DEF recover_withheld
<1> HIDE DEF d, r
<1>5. /\ DOMAIN r = QFields /\ r.cancelled = c.cancelled /\ r.withheld = <<>>
      /\ r.forgotten = c.forgotten /\ r.queue = d.queue /\ r.evicted = d.evicted
  BY <1>3, <1>4 DEF QFields
<1>6. PICK X : /\ r.evicted = c.evicted \cup X /\ Elements(r.queue) \cap X = {}
               /\ Elements(r.queue) \cup X = Elements(c.withheld) \cup Elements(c.queue)
  BY <1>3, <1>5
<1>7. Row(<<>>) /\ Elements(<<>>) = {}
  BY RowEmpty
<1>8. Tidy(r)
  BY <1>1, <1>3, <1>5, <1>6, <1>7 DEF Tidy, Apart, Gone
<1>9. Owns(r) = Owns(c)
  BY <1>5, <1>6, <1>7 DEF Owns, Gone, Drained
<1> QED
  BY <1>8, <1>9 DEF r

LEMMA ExpireTidy ==
  ASSUME NEW c, Tidy(c)
  PROVE  Tidy(Expire(c)) /\ Owns(Expire(c)) = Owns(c)
<1>1. Tidy(recover_withheld(c)) /\ Owns(recover_withheld(c)) = Owns(c)
  BY RecoverTidy
<1>2. Alike(recover_withheld(c), [recover_withheld(c) EXCEPT !.inflight = FALSE, !.overdue = FALSE])
  BY <1>1 DEF Tidy, Alike, QFields
<1> QED
  BY <1>1, <1>2, AlikeTidy DEF Expire

LEMMA PushTidy ==
  ASSUME NEW c, Tidy(c), NEW e \in Events, e \notin Owns(c), ~Refused(c)
  PROVE  Tidy(push(c, e)) /\ Owns(push(c, e)) = Owns(c) \cup {e}
<1> DEFINE d == push(c, e)
<1>1. /\ DOMAIN c = QFields /\ Row(c.queue) /\ Row(c.cancelled) /\ Row(c.withheld)
      /\ Apart(Elements(c.queue), Elements(c.cancelled), Elements(c.withheld), Gone(c))
  BY DEF Tidy
<1>2. /\ e \notin Elements(c.queue) /\ e \notin Elements(c.cancelled)
      /\ e \notin Elements(c.withheld) /\ e \notin c.evicted /\ e \notin c.forgotten
  BY DEF Owns, Drained, Gone
<1>3. CASE Len(c.queue) >= MaxPending
  <2>1. c.queue # <<>>
    <3>1. MaxPending \in Nat \ {0}
      BY QueueAssumption
    <3> QED
      BY <1>3, <3>1, SMT
  <2>2. /\ Row(Tail(c.queue)) /\ Head(c.queue) \in Elements(c.queue)
        /\ Elements(Tail(c.queue)) = Elements(c.queue) \ {Head(c.queue)}
    BY <1>1, <2>1, RowTail
  <2>3. /\ Row(Append(Tail(c.queue), e))
        /\ Elements(Append(Tail(c.queue), e)) = Elements(Tail(c.queue)) \cup {e}
    BY <1>2, <2>2, RowAppend
  <2>4. d = [c EXCEPT !.queue = Append(Tail(@), e), !.evicted = @ \cup {Head(c.queue)}]
    BY <1>3 DEF push
  <2>5. /\ DOMAIN d = QFields /\ d.cancelled = c.cancelled /\ d.withheld = c.withheld
        /\ d.forgotten = c.forgotten /\ d.queue = Append(Tail(c.queue), e)
        /\ d.evicted = c.evicted \cup {Head(c.queue)}
    BY <2>4, <1>1 DEF QFields
  <2> HIDE DEF d
  <2>6. Tidy(d)
    BY <1>1, <1>2, <2>2, <2>3, <2>5, SMT DEF Tidy, Apart, Gone
  <2>7. Owns(d) = Owns(c) \cup {e}
    BY <2>2, <2>3, <2>5 DEF Owns, Gone, Drained
  <2> QED
    BY <2>6, <2>7 DEF d
<1>4. CASE ~(Len(c.queue) >= MaxPending)
  <2>1. Row(Append(c.queue, e)) /\ Elements(Append(c.queue, e)) = Elements(c.queue) \cup {e}
    BY <1>1, <1>2, RowAppend
  <2>2. d = [c EXCEPT !.queue = Append(@, e)]
    BY <1>4 DEF push
  <2>3. /\ DOMAIN d = QFields /\ d.cancelled = c.cancelled /\ d.withheld = c.withheld
        /\ d.forgotten = c.forgotten /\ d.queue = Append(c.queue, e)
        /\ d.evicted = c.evicted
    BY <2>2, <1>1 DEF QFields
  <2> HIDE DEF d
  <2>4. Tidy(d)
    BY <1>1, <1>2, <2>1, <2>3 DEF Tidy, Apart, Gone
  <2>5. Owns(d) = Owns(c) \cup {e}
    BY <2>1, <2>3 DEF Owns, Gone, Drained
  <2> QED
    BY <2>4, <2>5 DEF d
<1> QED
  BY <1>3, <1>4

\* Putting a batch back, by any of the three ways, gives the channel its events.
LEMMA RequeuePreserveTidy ==
  ASSUME NEW c, Tidy(c), NEW b, BatchOK(b), EventsOf(b) \cap Owns(c) = {}
  PROVE  /\ Tidy(requeue_preserve_timestamps(c, b))
         /\ Owns(requeue_preserve_timestamps(c, b)) = Owns(c) \cup EventsOf(b)
<1> DEFINE d == PutBack(c, b.events)
           r == requeue_preserve_timestamps(c, b)
<1>1. /\ DOMAIN c = QFields /\ Row(c.queue) /\ Row(c.cancelled) /\ Row(c.withheld)
      /\ Apart(Elements(c.queue), Elements(c.cancelled), Elements(c.withheld), Gone(c))
  BY DEF Tidy
<1>2. /\ Row(b.events) /\ Row(b.cancelled)
      /\ Elements(b.events) \cap Elements(b.cancelled) = {}
  BY DEF BatchOK
<1>3. (Elements(b.events) \cup Elements(b.cancelled)) \cap
      (Elements(c.queue) \cup Elements(c.cancelled) \cup Elements(c.withheld) \cup c.evicted
       \cup c.forgotten) = {}
  BY DEF EventsOf, Owns, Drained, Gone
<1>4. Elements(b.events) \cap Elements(c.queue) = {}
  BY <1>3
<1>5. /\ DOMAIN d = QFields /\ d.cancelled = c.cancelled /\ d.withheld = c.withheld
      /\ d.forgotten = c.forgotten /\ Row(d.queue)
      /\ \E X : /\ d.evicted = c.evicted \cup X /\ Elements(d.queue) \cap X = {}
                /\ Elements(d.queue) \cup X = Elements(b.events) \cup Elements(c.queue)
  BY <1>1, <1>2, <1>4, PutBackRow
<1>6. r = [d EXCEPT !.forgotten = @ \cup Elements(b.cancelled)]
  BY DEF requeue_preserve_timestamps
<1> HIDE DEF d, r
<1>7. /\ DOMAIN r = QFields /\ r.cancelled = c.cancelled /\ r.withheld = c.withheld
      /\ r.forgotten = c.forgotten \cup Elements(b.cancelled)
      /\ r.queue = d.queue /\ r.evicted = d.evicted
  BY <1>5, <1>6 DEF QFields
<1>8. PICK X : /\ r.evicted = c.evicted \cup X /\ Elements(r.queue) \cap X = {}
               /\ Elements(r.queue) \cup X = Elements(b.events) \cup Elements(c.queue)
  BY <1>5, <1>7
<1>9. Apart(Elements(r.queue), Elements(r.cancelled), Elements(r.withheld), Gone(r))
  BY <1>1, <1>2, <1>3, <1>7, <1>8 DEF Apart, Gone
<1>10. Owns(r) = Owns(c) \cup EventsOf(b)
  BY <1>7, <1>8 DEF Owns, Gone, Drained, EventsOf
<1> QED
  BY <1>1, <1>5, <1>7, <1>9, <1>10 DEF Tidy, r

LEMMA RequeueTidy ==
  ASSUME NEW c, Tidy(c), NEW b, BatchOK(b), EventsOf(b) \cap Owns(c) = {}
  PROVE  /\ Tidy(requeue(c, b))
         /\ Owns(requeue(c, b)) = Owns(c) \cup (IF Exhausted(c) THEN {} ELSE EventsOf(b))
<1>1. CASE Exhausted(c)
  <2>1. requeue(c, b) = [c EXCEPT !.retries = 0, !.throttle = "none"]
    BY <1>1 DEF requeue
  <2>2. Alike(c, [c EXCEPT !.retries = 0, !.throttle = "none"])
    BY MarksAlike
  <2>3. Tidy(requeue(c, b)) /\ Owns(requeue(c, b)) = Owns(c)
    BY <2>1, <2>2, AlikeTidy
  <2> QED
    BY <2>3, <1>1
<1>2. CASE ~Exhausted(c)
  <2> DEFINE d == PutBack(c, b.events)
             r == requeue_preserve_timestamps(c, b)
  <2>1. Tidy(r) /\ Owns(r) = Owns(c) \cup EventsOf(b)
    BY RequeuePreserveTidy
  <2>2. requeue(c, b) = [d EXCEPT !.retries = @ + 1, !.throttle = "active",
                                  !.forgotten = @ \cup Elements(b.cancelled)]
    BY <1>2 DEF requeue
  <2>3. r = [d EXCEPT !.forgotten = @ \cup Elements(b.cancelled)]
    BY DEF requeue_preserve_timestamps
  <2>4. DOMAIN d = QFields
    <3>1. DOMAIN c = QFields
      BY DEF Tidy
    <3> QED
      BY <3>1 DEF PutBack, QFields
  <2> DEFINE y == requeue(c, b)
  <2> HIDE DEF d, r, y
  <2>5. Alike(r, y)
    BY <2>2, <2>3, <2>4 DEF Alike, QFields, y
  <2>6. Tidy(y) /\ Owns(y) = Owns(r)
    BY <2>1, <2>5, AlikeTidy
  <2> QED
    BY <2>1, <2>6, <1>2 DEF y
<1> QED
  BY <1>1, <1>2

LEMMA RequeueCancelledTidy ==
  ASSUME NEW c, Tidy(c), NEW b, BatchOK(b), EventsOf(b) \cap Owns(c) = {}
  PROVE  /\ Tidy(requeue_as_cancelled(c, b))
         /\ Owns(requeue_as_cancelled(c, b)) = Owns(c) \cup EventsOf(b)
<1> DEFINE r == requeue_as_cancelled(c, b)
           s == c.cancelled \o b.cancelled
           t == s \o b.events
<1>1. /\ DOMAIN c = QFields /\ Row(c.queue) /\ Row(c.cancelled) /\ Row(c.withheld)
      /\ Apart(Elements(c.queue), Elements(c.cancelled), Elements(c.withheld), Gone(c))
  BY DEF Tidy
<1>2. /\ Row(b.events) /\ Row(b.cancelled)
      /\ Elements(b.events) \cap Elements(b.cancelled) = {}
  BY DEF BatchOK
<1>3. (Elements(b.events) \cup Elements(b.cancelled)) \cap
      (Elements(c.queue) \cup Elements(c.cancelled) \cup Elements(c.withheld) \cup c.evicted
       \cup c.forgotten) = {}
  BY DEF EventsOf, Owns, Drained, Gone
<1>4. Elements(c.cancelled) \cap Elements(b.cancelled) = {}
  BY <1>3
<1>5. Row(s) /\ Elements(s) = Elements(c.cancelled) \cup Elements(b.cancelled)
  BY <1>1, <1>2, <1>4, RowConcat
<1> HIDE DEF s
<1>6. Elements(s) \cap Elements(b.events) = {}
  BY <1>2, <1>3, <1>5
<1>7. Row(t) /\ Elements(t) = Elements(s) \cup Elements(b.events)
  BY <1>2, <1>5, <1>6, RowConcat
<1>8. r = [c EXCEPT !.cancelled = t, !.reason = b.reason]
  BY DEF requeue_as_cancelled, s
<1> HIDE DEF r, t
<1>9. /\ DOMAIN r = QFields /\ r.queue = c.queue /\ r.withheld = c.withheld
      /\ r.forgotten = c.forgotten /\ r.evicted = c.evicted /\ r.cancelled = t
  BY <1>1, <1>8 DEF QFields
<1>10. Apart(Elements(r.queue), Elements(r.cancelled), Elements(r.withheld), Gone(r))
  BY <1>1, <1>3, <1>5, <1>7, <1>9 DEF Apart, Gone
<1>11. Owns(r) = Owns(c) \cup EventsOf(b)
  BY <1>5, <1>7, <1>9 DEF Owns, Gone, Drained, EventsOf
<1> QED
  BY <1>1, <1>7, <1>9, <1>10, <1>11 DEF Tidy, r

\* A flush takes the events of its batch from the channel.
LEMMA FlushTidy ==
  ASSUME NEW c, Tidy(c)
  PROVE  /\ BatchOK(FlushedBatch(c)) /\ EventsOf(FlushedBatch(c)) \subseteq Owns(c)
         /\ Tidy(Flushed(c)) /\ Owns(Flushed(c)) = Owns(c) \ EventsOf(FlushedBatch(c))
<1> DEFINE d == Flushed(c)
           b == FlushedBatch(c)
<1>1. /\ DOMAIN c = QFields /\ Row(c.queue) /\ Row(c.cancelled) /\ Row(c.withheld)
      /\ Apart(Elements(c.queue), Elements(c.cancelled), Elements(c.withheld), Gone(c))
  BY DEF Tidy
<1>2. Row(<<>>) /\ Elements(<<>>) = {}
  BY RowEmpty
<1>3. /\ DOMAIN d = QFields /\ d.withheld = c.withheld /\ d.cancelled = <<>>
      /\ d.evicted = c.evicted /\ d.forgotten = c.forgotten
      /\ d.queue = IF Ready(c) THEN SubSeq(c.queue, Len(b.events) + 1, Len(c.queue)) ELSE c.queue
  BY <1>1 DEF Flushed, QFields
<1>4. CASE Ready(c)
  <2> DEFINE n == IF Len(c.queue) < MaxBatch THEN Len(c.queue) ELSE MaxBatch
             s == SubSeq(c.queue, 1, n)
             r == SubSeq(c.queue, n + 1, Len(c.queue))
  <2>1. n \in 0..Len(c.queue)
    <3>1. Len(c.queue) \in Nat /\ MaxBatch \in Nat
      BY <1>1, RowShape, QueueAssumption
    <3> QED
      BY <3>1, SMT
  <2>2. b = NewBatch(SortByCreated(s), c.cancelled, IF c.cancelled = <<>> THEN "none" ELSE c.reason)
    BY <1>4 DEF FlushedBatch
  <2>3. /\ b.events = SortByCreated(s) /\ b.cancelled = c.cancelled
        /\ DOMAIN b = {"events", "cancelled", "reason"}
    BY <2>2, SMT DEF NewBatch
  <2> HIDE DEF n
  <2>4. /\ Row(s) /\ Row(r) /\ Len(s) = n /\ Elements(s) \cup Elements(r) = Elements(c.queue)
        /\ Elements(s) \cap Elements(r) = {}
    BY <1>1, <2>1, RowCut
  <2> HIDE DEF s
  <2>5. Row(b.events) /\ Elements(b.events) = Elements(s) /\ Len(b.events) = n
    BY <2>3, <2>4, RowSort
  <2>6. d.queue = r
    BY <1>3, <1>4, <2>5
  <2> HIDE DEF b, d, r
  <2>7. BatchOK(b)
    BY <1>1, <2>3, <2>4, <2>5 DEF BatchOK, Apart
  <2>8. EventsOf(b) \subseteq Owns(c)
    BY <2>3, <2>4, <2>5 DEF EventsOf, Owns, Drained
  <2>9. Tidy(d)
    BY <1>1, <1>2, <1>3, <2>4, <2>6 DEF Tidy, Apart, Gone
  <2>10. Owns(d) = Owns(c) \ EventsOf(b)
    BY <1>1, <1>2, <1>3, <2>3, <2>4, <2>5, <2>6 DEF Owns, Gone, Drained, EventsOf, Apart
  <2> QED
    BY <2>7, <2>8, <2>9, <2>10 DEF b, d
<1>5. CASE ~Ready(c)
  <2>1. b = NewBatch(c.cancelled, <<>>, c.reason)
    BY <1>5 DEF FlushedBatch
  <2>2. /\ b.events = c.cancelled /\ b.cancelled = <<>>
        /\ DOMAIN b = {"events", "cancelled", "reason"}
    BY <2>1, SMT DEF NewBatch
  <2>3. d.queue = c.queue
    BY <1>3, <1>5
  <2> HIDE DEF b, d
  <2>4. BatchOK(b)
    BY <1>1, <1>2, <2>2 DEF BatchOK
  <2>5. EventsOf(b) \subseteq Owns(c)
    BY <1>2, <2>2 DEF EventsOf, Owns, Drained
  <2>6. Tidy(d)
    BY <1>1, <1>2, <1>3, <2>3 DEF Tidy, Apart, Gone
  <2>7. Owns(d) = Owns(c) \ EventsOf(b)
    BY <1>1, <1>2, <1>3, <2>2, <2>3 DEF Owns, Gone, Drained, EventsOf, Apart
  <2> QED
    BY <2>4, <2>5, <2>6, <2>7 DEF b, d
<1> QED
  BY <1>4, <1>5

\* flush_next without an idle agent: the batch goes back whole.
LEMMA UnflushTidy ==
  ASSUME NEW c, Tidy(c)
  PROVE  LET d == mark_complete(requeue_preserve_timestamps(Flushed(c), FlushedBatch(c)))
         IN  Tidy(d) /\ Owns(d) = Owns(c)
<1> DEFINE b == FlushedBatch(c)
           x == Flushed(c)
           y == requeue_preserve_timestamps(x, b)
<1>1. BatchOK(b) /\ EventsOf(b) \subseteq Owns(c) /\ Tidy(x) /\ Owns(x) = Owns(c) \ EventsOf(b)
  BY FlushTidy
<1> HIDE DEF b, x
<1>2. EventsOf(b) \cap Owns(x) = {}
  BY <1>1
<1>3. Tidy(y) /\ Owns(y) = Owns(x) \cup EventsOf(b)
  BY <1>1, <1>2, RequeuePreserveTidy
<1> HIDE DEF y
<1>4. Tidy(mark_complete(y)) /\ Owns(mark_complete(y)) = Owns(y)
  BY <1>3, MarksAlike, AlikeTidy
<1>5. Owns(y) = Owns(c)
  BY <1>1, <1>3
<1> QED
  BY <1>4, <1>5 DEF b, x, y

LEMMA DrainTidy ==
  ASSUME NEW c, Tidy(c)
  PROVE  /\ Tidy(drain_channel(c)) /\ Drained(c) \subseteq Owns(c)
         /\ Owns(drain_channel(c)) = Owns(c) \ Drained(c)
<1> DEFINE d == drain_channel(c)
<1>1. Apart(Elements(c.queue), Elements(c.cancelled), Elements(c.withheld), Gone(c))
  BY DEF Tidy
<1>2. /\ DOMAIN d = QFields /\ d.queue = <<>> /\ d.cancelled = <<>> /\ d.withheld = <<>>
      /\ d.evicted = c.evicted /\ d.forgotten = c.forgotten
  BY DEF drain_channel, EmptyChannel, QFields
<1>3. Row(<<>>) /\ Elements(<<>>) = {}
  BY RowEmpty
<1> HIDE DEF d
<1>4. Tidy(d)
  BY <1>2, <1>3 DEF Tidy, Apart
<1>5. Owns(d) = Owns(c) \ Drained(c)
  BY <1>1, <1>2, <1>3 DEF Owns, Gone, Drained, Apart
<1> QED
  BY <1>4, <1>5 DEF d, Owns

\* A steer that succeeded removes its event, if the channel still waits with it.
LEMMA RemoveTidy ==
  ASSUME NEW c, Tidy(c), NEW e
  PROVE  /\ Tidy(remove_event(c, e))
         /\ Owns(remove_event(c, e)) =
              IF e \in Elements(c.queue) \cup Elements(c.withheld) THEN Owns(c) \ {e} ELSE Owns(c)
<1> DEFINE d == remove_event(c, e)
<1>1. /\ DOMAIN c = QFields /\ Row(c.queue) /\ Row(c.cancelled) /\ Row(c.withheld)
      /\ Apart(Elements(c.queue), Elements(c.cancelled), Elements(c.withheld), Gone(c))
  BY DEF Tidy
<1>2. /\ DOMAIN d = QFields /\ d.queue = Without(c.queue, e) /\ d.cancelled = c.cancelled
      /\ d.withheld = Without(c.withheld, e) /\ d.evicted = c.evicted
      /\ d.forgotten = c.forgotten
  BY <1>1 DEF remove_event, QFields
<1>3. Row(d.queue) /\ Elements(d.queue) = Elements(c.queue) \ {e}
  BY <1>1, <1>2, RowWithout, SMT
<1>4. Row(d.withheld) /\ Elements(d.withheld) = Elements(c.withheld) \ {e}
  BY <1>1, <1>2, RowWithout, SMT
<1> HIDE DEF d
<1>5. Tidy(d)
  BY <1>1, <1>2, <1>3, <1>4 DEF Tidy, Apart, Gone
<1>6. CASE e \in Elements(c.queue) \cup Elements(c.withheld)
  <2>1. Owns(d) = Owns(c) \ {e}
    BY <1>1, <1>2, <1>3, <1>4, <1>6 DEF Owns, Gone, Drained, Apart
  <2> QED
    BY <2>1, <1>5, <1>6 DEF d
<1>7. CASE e \notin Elements(c.queue) \cup Elements(c.withheld)
  <2>1. Owns(d) = Owns(c)
    BY <1>2, <1>3, <1>4, <1>7 DEF Owns, Gone, Drained
  <2> QED
    BY <2>1, <1>5, <1>7 DEF d
<1> QED
  BY <1>6, <1>7

\* Withholding an event and releasing it again keep it in the channel.
LEMMA WithholdTidy ==
  ASSUME NEW c, Tidy(c), NEW e
  PROVE  /\ Tidy(mark_native_steer_pending(c, e))
         /\ Owns(mark_native_steer_pending(c, e)) = Owns(c)
<1>1. CASE e \notin Elements(c.queue)
  BY <1>1 DEF mark_native_steer_pending
<1>2. CASE e \in Elements(c.queue)
  <2> DEFINE d == mark_native_steer_pending(c, e)
  <2>1. /\ DOMAIN c = QFields /\ Row(c.queue) /\ Row(c.cancelled) /\ Row(c.withheld)
        /\ Apart(Elements(c.queue), Elements(c.cancelled), Elements(c.withheld), Gone(c))
    BY DEF Tidy
  <2>2. d = [c EXCEPT !.queue = Without(@, e), !.withheld = Append(@, e)]
    BY <1>2 DEF mark_native_steer_pending
  <2>3. /\ DOMAIN d = QFields /\ d.queue = Without(c.queue, e) /\ d.cancelled = c.cancelled
        /\ d.withheld = Append(c.withheld, e) /\ d.evicted = c.evicted
        /\ d.forgotten = c.forgotten
    BY <2>1, <2>2 DEF QFields
  <2>4. Row(d.queue) /\ Elements(d.queue) = Elements(c.queue) \ {e}
    BY <2>1, <2>3, RowWithout, SMT
  <2>5. e \in Events /\ e \notin Elements(c.withheld)
    BY <1>2, <2>1, RowShape DEF Apart
  <2>6. Row(d.withheld) /\ Elements(d.withheld) = Elements(c.withheld) \cup {e}
    BY <2>1, <2>3, <2>5, RowAppend, SMT
  <2> HIDE DEF d
  <2>7. Tidy(d)
    BY <1>2, <2>1, <2>3, <2>4, <2>6 DEF Tidy, Apart, Gone
  <2>8. Owns(d) = Owns(c)
    BY <1>2, <2>3, <2>4, <2>6 DEF Owns, Gone, Drained
  <2> QED
    BY <2>7, <2>8 DEF d
<1> QED
  BY <1>1, <1>2

LEMMA ReleaseTidy ==
  ASSUME NEW c, Tidy(c), NEW e
  PROVE  /\ Tidy(release_native_steer(c, e))
         /\ Owns(release_native_steer(c, e)) = Owns(c)
<1>1. CASE e \notin Elements(c.withheld)
  BY <1>1 DEF release_native_steer
<1>2. CASE e \in Elements(c.withheld)
  <2> DEFINE d == PutBack(c, <<e>>)
             r == release_native_steer(c, e)
  <2>1. /\ DOMAIN c = QFields /\ Row(c.queue) /\ Row(c.cancelled) /\ Row(c.withheld)
        /\ Apart(Elements(c.queue), Elements(c.cancelled), Elements(c.withheld), Gone(c))
    BY DEF Tidy
  <2>2. e \in Events /\ e \notin Elements(c.queue)
    BY <1>2, <2>1, RowShape DEF Apart
  <2>3. Row(<<e>>) /\ Elements(<<e>>) = {e}
    BY <2>2, SMT DEF Row, Distinct, Elements
  <2>4. Elements(<<e>>) \cap Elements(c.queue) = {}
    BY <2>2, <2>3
  <2>5. /\ DOMAIN d = QFields /\ d.cancelled = c.cancelled /\ d.withheld = c.withheld
        /\ d.forgotten = c.forgotten /\ Row(d.queue)
        /\ \E X : /\ d.evicted = c.evicted \cup X /\ Elements(d.queue) \cap X = {}
                  /\ Elements(d.queue) \cup X = Elements(<<e>>) \cup Elements(c.queue)
    BY <2>1, <2>3, <2>4, PutBackRow
  <2>6. r = [d EXCEPT !.withheld = Without(@, e)]
    BY <1>2 DEF release_native_steer
  <2> HIDE DEF d, r
  <2>7. /\ DOMAIN r = QFields /\ r.cancelled = c.cancelled
        /\ r.withheld = Without(c.withheld, e)
        /\ r.forgotten = c.forgotten /\ r.queue = d.queue /\ r.evicted = d.evicted
    BY <2>5, <2>6 DEF QFields
  <2>8. Row(r.withheld) /\ Elements(r.withheld) = Elements(c.withheld) \ {e}
    BY <2>1, <2>7, RowWithout, SMT
  <2>9. PICK X : /\ r.evicted = c.evicted \cup X /\ Elements(r.queue) \cap X = {}
                 /\ Elements(r.queue) \cup X = {e} \cup Elements(c.queue)
    BY <2>3, <2>5, <2>7
  <2>10. Apart(Elements(r.queue), Elements(r.cancelled), Elements(r.withheld), Gone(r))
    BY <1>2, <2>1, <2>7, <2>8, <2>9 DEF Apart, Gone
  <2>11. Owns(r) = Owns(c)
    BY <1>2, <2>7, <2>8, <2>9 DEF Owns, Gone, Drained
  <2> QED
    BY <2>1, <2>5, <2>7, <2>8, <2>10, <2>11 DEF Tidy, r
<1> QED
  BY <1>1, <1>2

-----------------------------------------------------------------------------
(***************************************************************************)
(* The ledger: Q is what each channel owns, H what each slot holds, and    *)
(* every pending event is in one of these sets, and in one only.           *)
(***************************************************************************)
Ledger(Q, H, P) ==
  /\ \A c, d \in Channels : \A e \in Q[c] : e \in Q[d] => c = d
  /\ \A i, j \in Slots : \A e \in H[i] : e \in H[j] => i = j
  /\ \A c \in Channels, i \in Slots : \A e \in Q[c] : e \notin H[i]
  /\ \A e : e \in P <=> (\E c \in Channels : e \in Q[c]) \/ (\E i \in Slots : e \in H[i])

\* R is Q with X at k.
Sets(R, Q, k, X, S) == \A c \in S : R[c] = IF c = k THEN X ELSE Q[c]

\* A batch is flushed from a channel for a slot that holds nothing.
LEMMA LedgerClaims ==
  ASSUME NEW Q, NEW H, NEW P, Ledger(Q, H, P), NEW ch \in Channels, NEW i \in Slots,
         NEW B, B \subseteq Q[ch], H[i] = {}, NEW R, NEW G,
         Sets(R, Q, ch, Q[ch] \ B, Channels),
         Sets(G, H, i, B, Slots)
  PROVE  Ledger(R, G, P)
<1>1. \A c \in Channels : \A e : e \in R[c] <=> e \in Q[c] /\ (c = ch => e \notin B)
  BY DEF Sets
<1>2. \A j \in Slots : \A e : e \in G[j] <=> (j # i /\ e \in H[j]) \/ (j = i /\ e \in B)
  BY DEF Sets
<1>3. \A j \in Slots : \A e : e \in H[j] => j # i
  OBVIOUS
<1>4. \A e \in B : e \in Q[ch]
  OBVIOUS
<1>5. \A c, d \in Channels : \A e \in R[c] : e \in R[d] => c = d
  BY <1>1 DEF Ledger
<1>6. \A j, k \in Slots : \A e \in G[j] : e \in G[k] => j = k
  BY <1>2, <1>4 DEF Ledger
<1>7. \A c \in Channels, j \in Slots : \A e \in R[c] : e \notin G[j]
  BY <1>1, <1>2, <1>4 DEF Ledger
<1>8. ASSUME NEW e
      PROVE  e \in P <=> (\E c \in Channels : e \in R[c]) \/ (\E j \in Slots : e \in G[j])
  BY <1>1, <1>2, <1>3, <1>4, SMT DEF Ledger
<1> QED
  BY <1>5, <1>6, <1>7, <1>8 DEF Ledger

\* What a slot holds goes back to a channel, or comes to its end.
LEMMA LedgerReturns ==
  ASSUME NEW Q, NEW H, NEW P, Ledger(Q, H, P), NEW ch \in Channels, NEW i \in Slots,
         NEW R, NEW G,
         Sets(R, Q, ch, Q[ch] \cup H[i], Channels),
         Sets(G, H, i, {}, Slots)
  PROVE  Ledger(R, G, P)
<1>1. \A c \in Channels : \A e : e \in R[c] <=> e \in Q[c] \/ (c = ch /\ e \in H[i])
  BY DEF Sets
<1>2. \A j \in Slots : \A e : e \in G[j] <=> j # i /\ e \in H[j]
  BY DEF Sets
<1>5. \A c, d \in Channels : \A e \in R[c] : e \in R[d] => c = d
  BY <1>1 DEF Ledger
<1>6. \A j, k \in Slots : \A e \in G[j] : e \in G[k] => j = k
  BY <1>2 DEF Ledger
<1>7. \A c \in Channels, j \in Slots : \A e \in R[c] : e \notin G[j]
  BY <1>1, <1>2 DEF Ledger
<1>8. ASSUME NEW e
      PROVE  e \in P <=> (\E c \in Channels : e \in R[c]) \/ (\E j \in Slots : e \in G[j])
  BY <1>1, <1>2 DEF Ledger
<1> QED
  BY <1>5, <1>6, <1>7, <1>8 DEF Ledger

LEMMA LedgerSettles ==
  ASSUME NEW Q, NEW H, NEW P, Ledger(Q, H, P), NEW i \in Slots, NEW G,
         Sets(G, H, i, {}, Slots)
  PROVE  Ledger(Q, G, P \ H[i])
<1>2. \A j \in Slots : \A e : e \in G[j] <=> j # i /\ e \in H[j]
  BY DEF Sets
<1>6. \A j, k \in Slots : \A e \in G[j] : e \in G[k] => j = k
  BY <1>2 DEF Ledger
<1>7. \A c \in Channels, j \in Slots : \A e \in Q[c] : e \notin G[j]
  BY <1>2 DEF Ledger
<1>8. ASSUME NEW e
      PROVE  e \in P \ H[i] <=> (\E c \in Channels : e \in Q[c]) \/ (\E j \in Slots : e \in G[j])
  BY <1>2 DEF Ledger
<1> QED
  BY <1>6, <1>7, <1>8 DEF Ledger

\* A channel gets a new event.
LEMMA LedgerGrows ==
  ASSUME NEW Q, NEW H, NEW P, Ledger(Q, H, P), NEW ch \in Channels, NEW x, x \notin P,
         NEW R, Sets(R, Q, ch, Q[ch] \cup {x}, Channels)
  PROVE  Ledger(R, H, P \cup {x})
<1>1. \A c \in Channels : \A e : e \in R[c] <=> e \in Q[c] \/ (c = ch /\ e = x)
  BY DEF Sets
<1>2. (\A c \in Channels : x \notin Q[c]) /\ (\A i \in Slots : x \notin H[i])
  BY DEF Ledger
<1>5. \A c, d \in Channels : \A e \in R[c] : e \in R[d] => c = d
  BY <1>1, <1>2, SMT DEF Ledger
<1>7. \A c \in Channels, j \in Slots : \A e \in R[c] : e \notin H[j]
  BY <1>1, <1>2, SMT DEF Ledger
<1>8. ASSUME NEW e
      PROVE  e \in P \cup {x} <=> (\E c \in Channels : e \in R[c]) \/ (\E j \in Slots : e \in H[j])
  BY <1>1 DEF Ledger
<1> QED
  BY <1>5, <1>7, <1>8 DEF Ledger

\* Events of a channel come to their end.
LEMMA LedgerLoses ==
  ASSUME NEW Q, NEW H, NEW P, Ledger(Q, H, P), NEW ch \in Channels, NEW B, B \subseteq Q[ch],
         NEW R, Sets(R, Q, ch, Q[ch] \ B, Channels)
  PROVE  Ledger(R, H, P \ B)
<1>1. \A c \in Channels : \A e : e \in R[c] <=> e \in Q[c] /\ (c = ch => e \notin B)
  BY DEF Sets
<1>2. \A e \in B : e \in Q[ch]
  OBVIOUS
<1>5. \A c, d \in Channels : \A e \in R[c] : e \in R[d] => c = d
  BY <1>1 DEF Ledger
<1>7. \A c \in Channels, j \in Slots : \A e \in R[c] : e \notin H[j]
  BY <1>1 DEF Ledger
<1>8. ASSUME NEW e
      PROVE  e \in P \ B <=> (\E c \in Channels : e \in R[c]) \/ (\E j \in Slots : e \in H[j])
  <2>1. CASE e \in B
    <3>1. \A c \in Channels : e \notin R[c]
      BY <1>1, <1>2, <2>1 DEF Ledger
    <3>2. \A j \in Slots : e \notin H[j]
      BY <1>2, <2>1 DEF Ledger
    <3> QED
      BY <2>1, <3>1, <3>2
  <2>2. CASE e \notin B
    <3>1. \A c \in Channels : e \in R[c] <=> e \in Q[c]
      BY <1>1, <2>2
    <3> QED
      BY <2>2, <3>1 DEF Ledger
  <2> QED
    BY <2>1, <2>2
<1> QED
  BY <1>5, <1>7, <1>8 DEF Ledger

-----------------------------------------------------------------------------
(***************************************************************************)
(* The account of the queues qs, the tasks t, the results rs and the       *)
(* pending events P.                                                       *)
(***************************************************************************)
\* What a slot holds: the batch of its task, or of the result on its way.
Held(t, rs, i) ==
  IF t[i] = NoTask THEN {}
  ELSE IF t[i].phase # "sent" THEN EventsOf(t[i].batch)
  ELSE UNION {EventsOf(rs[k].batch) : k \in {j \in DOMAIN rs : rs[j].slot = i}}

Books(qs)    == [ch \in Channels |-> Owns(qs[ch])]

Hands(t, rs) == [i \in Slots |-> Held(t, rs, i)]

Pending(f)   == {e \in Events : f[e] = "pending"}

\* A task or a result carries a batch; a heartbeat carries none.
Carries(x) == BatchOK(x.batch) /\ (x.ch = Heartbeat => EventsOf(x.batch) = {})

AllTidy(qs) == DOMAIN qs = Channels /\ \A ch \in Channels : Tidy(qs[ch])

AllCarry(t, rs) ==
  /\ \A i \in Slots : t[i] # NoTask => Carries(t[i])
  /\ \A k \in DOMAIN rs : Carries(rs[k])

Account(qs, t, rs, P) ==
  AllTidy(qs) /\ AllCarry(t, rs) /\ Ledger(Books(qs), Hands(t, rs), P)

\* The queues change, but what they own does not.
LEMMA AccountTidied ==
  ASSUME NEW qs, NEW t, NEW rs, NEW P, Account(qs, t, rs, P), NEW r, DOMAIN r = Channels,
         \A ch \in Channels : Tidy(r[ch]) /\ Owns(r[ch]) = Owns(qs[ch])
  PROVE  Account(r, t, rs, P)
<1>1. Books(r) = Books(qs)
  BY DEF Books
<1> QED
  BY <1>1 DEF Account, AllTidy

\* At one channel.
LEMMA AccountTidiedAt ==
  ASSUME NEW qs, NEW t, NEW rs, NEW P, Account(qs, t, rs, P), NEW ch \in Channels,
         NEW c, Tidy(c), Owns(c) = Owns(qs[ch])
  PROVE  Account([qs EXCEPT ![ch] = c], t, rs, P)
<1> DEFINE r == [qs EXCEPT ![ch] = c]
<1>1. DOMAIN qs = Channels /\ \A x \in Channels : Tidy(qs[x])
  BY DEF Account, AllTidy
<1>2. DOMAIN r = Channels /\ \A x \in Channels : r[x] = IF x = ch THEN c ELSE qs[x]
  BY <1>1
<1> HIDE DEF r
<1>3. Account(r, t, rs, P)
  BY <1>1, <1>2, AccountTidied
<1> QED
  BY <1>3 DEF r

LEMMA AccountExpires ==
  ASSUME NEW qs, NEW t, NEW rs, NEW P, Account(qs, t, rs, P)
  PROVE  Account(ExpireAll(qs), t, rs, P)
<1>1. \A ch \in Channels : Tidy(qs[ch])
  BY DEF Account, AllTidy
<1>2. DOMAIN ExpireAll(qs) = Channels /\ \A ch \in Channels : ExpireAll(qs)[ch] = Expire(qs[ch])
  BY DEF ExpireAll
<1>3. \A ch \in Channels : Tidy(Expire(qs[ch])) /\ Owns(Expire(qs[ch])) = Owns(qs[ch])
  BY <1>1, ExpireTidy
<1> QED
  BY <1>2, <1>3, AccountTidied

\* A task goes on with its batch.
LEMMA AccountGoesOn ==
  ASSUME NEW qs, NEW t, NEW rs, NEW P, Account(qs, t, rs, P), DOMAIN t = Slots,
         NEW i \in Slots, t[i] # NoTask, NEW s, s # NoTask,
         s.ch = t[i].ch, s.batch = t[i].batch,
         s.phase = t[i].phase \/ (s.phase # "sent" /\ t[i].phase # "sent")
  PROVE  Account(qs, [t EXCEPT ![i] = s], rs, P)
<1> DEFINE u == [t EXCEPT ![i] = s]
<1>1. \A j \in Slots : u[j] = IF j = i THEN s ELSE t[j]
  OBVIOUS
<1> HIDE DEF u
<1>2. \A j \in Slots : Held(u, rs, j) = Held(t, rs, j)
  BY <1>1 DEF Held
<1>3. Hands(u, rs) = Hands(t, rs)
  BY <1>2 DEF Hands
<1>4. AllCarry(u, rs)
  BY <1>1 DEF Account, AllCarry, Carries
<1> QED
  BY <1>3, <1>4 DEF Account, u

\* A slot takes a batch that is flushed from a channel.
LEMMA AccountClaims ==
  ASSUME NEW qs, NEW t, NEW rs, NEW P, Account(qs, t, rs, P), DOMAIN t = Slots,
         NEW ch \in Channels, NEW i \in Slots, t[i] = NoTask
  PROVE  Account([qs EXCEPT ![ch] = Flushed(qs[ch])],
                 [t EXCEPT ![i] = NewTask(ch, FlushedBatch(qs[ch]))], rs, P)
<1> DEFINE b == FlushedBatch(qs[ch])
           c == Flushed(qs[ch])
           s == NewTask(ch, b)
           r == [qs EXCEPT ![ch] = c]
           u == [t EXCEPT ![i] = s]
<1>1. DOMAIN qs = Channels /\ \A x \in Channels : Tidy(qs[x])
  BY DEF Account, AllTidy
<1>2. /\ BatchOK(b) /\ EventsOf(b) \subseteq Owns(qs[ch])
      /\ Tidy(c) /\ Owns(c) = Owns(qs[ch]) \ EventsOf(b)
  BY <1>1, FlushTidy
<1> HIDE DEF b, c
<1>3. s.ch = ch /\ s.batch = b /\ s.phase = "setup" /\ s # NoTask
  <2>1. s.ch = ch /\ s.batch = b /\ s.phase = "setup"
    BY DEF NewTask
  <2>2. NoTask.ch = "none" /\ ch # "none"
    BY ChannelsAssumption DEF NoTask
  <2> HIDE DEF s
  <2> QED
    BY <2>1, <2>2
<1> HIDE DEF s
<1>4. DOMAIN r = Channels /\ \A x \in Channels : r[x] = IF x = ch THEN c ELSE qs[x]
  BY <1>1
<1>5. \A j \in Slots : u[j] = IF j = i THEN s ELSE t[j]
  OBVIOUS
<1> HIDE DEF r, u
<1>6. AllTidy(r)
  BY <1>1, <1>2, <1>4 DEF AllTidy
<1>7. AllCarry(u, rs)
  <2>1. Carries(s)
    BY <1>2, <1>3, ChannelsAssumption DEF Carries, Heartbeat
  <2> QED
    BY <1>5, <2>1 DEF Account, AllCarry
<1>8. Held(t, rs, i) = {} /\ Held(u, rs, i) = EventsOf(b)
  BY <1>3, <1>5 DEF Held
<1>9. \A j \in Slots : j # i => Held(u, rs, j) = Held(t, rs, j)
  BY <1>5 DEF Held
<1> DEFINE Q == Books(qs)
           H == Hands(t, rs)
           R == Books(r)
           G == Hands(u, rs)
<1>10. Ledger(Q, H, P)
  BY DEF Account
<1>11. EventsOf(b) \subseteq Q[ch] /\ H[i] = {}
  BY <1>2, <1>8 DEF Books, Hands
<1>12. Sets(R, Q, ch, Q[ch] \ EventsOf(b), Channels)
  BY <1>2, <1>4 DEF Books, Sets
<1>13. Sets(G, H, i, EventsOf(b), Slots)
  BY <1>8, <1>9 DEF Hands, Sets
<1> HIDE DEF Q, H, R, G
<1>14. Ledger(R, G, P)
  BY <1>10, <1>11, <1>12, <1>13, LedgerClaims
<1>15. Account(r, u, rs, P)
  BY <1>6, <1>7, <1>14 DEF Account, R, G
<1> QED
  BY <1>15 DEF b, c, s, r, u

-----------------------------------------------------------------------------
\* What becomes of an event.
Fates(f, n) ==
  DOMAIN f = Events /\ n \in Nat /\ \A e \in Events : n < e => f[e] = "none"

AInv == Account(q, task, results, Pending(fate)) /\ Fates(fate, arrived)

\* Settling pending events takes them off the account.
LEMMA PendingSettled ==
  ASSUME NEW f, NEW n, Fates(f, n), NEW es, es \subseteq Pending(f), NEW how, how # "pending"
  PROVE  Pending(Settle(f, es, how)) = Pending(f) \ es /\ Fates(Settle(f, es, how), n)
<1> DEFINE g == Settle(f, es, how)
<1>1. DOMAIN g = Events /\ \A e \in Events : g[e] = IF e \in es THEN how ELSE f[e]
  BY DEF Settle
<1>2. \A e \in es : f[e] = "pending"
  BY DEF Pending
<1> HIDE DEF g
<1>3. Pending(g) = Pending(f) \ es
  BY <1>1 DEF Pending
<1>4. Fates(g, n)
  BY <1>1, <1>2 DEF Fates
<1> QED
  BY <1>3, <1>4 DEF g

\* What a slot holds, and what a channel owns, is pending.
LEMMA OnTheBooks ==
  ASSUME NEW qs, NEW t, NEW rs, NEW P, Account(qs, t, rs, P)
  PROVE  /\ \A i \in Slots : Held(t, rs, i) \subseteq P
         /\ \A ch \in Channels : Owns(qs[ch]) \subseteq P
         /\ \A i \in Slots, ch \in Channels : Held(t, rs, i) \cap Owns(qs[ch]) = {}
<1>1. Ledger(Books(qs), Hands(t, rs), P)
  BY DEF Account
<1>2. \A i \in Slots : Hands(t, rs)[i] = Held(t, rs, i)
  BY DEF Hands
<1>3. \A ch \in Channels : Books(qs)[ch] = Owns(qs[ch])
  BY DEF Books
<1>4. ASSUME NEW i \in Slots, NEW e \in Held(t, rs, i) PROVE e \in P
  BY <1>1, <1>2, SMT DEF Ledger
<1>5. ASSUME NEW ch \in Channels, NEW e \in Owns(qs[ch]) PROVE e \in P
  BY <1>1, <1>3, SMT DEF Ledger
<1>6. ASSUME NEW i \in Slots, NEW ch \in Channels PROVE Held(t, rs, i) \cap Owns(qs[ch]) = {}
  <2>1. \A e \in Books(qs)[ch] : e \notin Hands(t, rs)[i]
    BY <1>1 DEF Ledger
  <2> QED
    BY <1>2, <1>3, <2>1
<1> QED
  BY <1>4, <1>5, <1>6

\* A task is over, and its events are back in a channel or settled.
LEMMA AccountReturns ==
  ASSUME NEW qs, NEW t, NEW rs, NEW P, Account(qs, t, rs, P), NEW ch \in Channels,
         NEW i \in Slots, NEW c, Tidy(c), Owns(c) = Owns(qs[ch]) \cup Held(t, rs, i),
         NEW u, NEW ps, Sets(Hands(u, ps), Hands(t, rs), i, {}, Slots), AllCarry(u, ps)
  PROVE  Account([qs EXCEPT ![ch] = c], u, ps, P)
<1> DEFINE r == [qs EXCEPT ![ch] = c]
           Q == Books(qs)
           H == Hands(t, rs)
           R == Books(r)
           G == Hands(u, ps)
<1>1. DOMAIN qs = Channels /\ \A x \in Channels : Tidy(qs[x])
  BY DEF Account, AllTidy
<1>2. DOMAIN r = Channels /\ \A x \in Channels : r[x] = IF x = ch THEN c ELSE qs[x]
  BY <1>1
<1> HIDE DEF r
<1>3. AllTidy(r)
  BY <1>1, <1>2 DEF AllTidy
<1>4. Ledger(Q, H, P)
  BY DEF Account
<1>5. H[i] = Held(t, rs, i)
  BY DEF Hands
<1>6. Sets(R, Q, ch, Q[ch] \cup H[i], Channels)
  BY <1>2, <1>5 DEF Books, Sets
<1>7. Sets(G, H, i, {}, Slots)
  OBVIOUS
<1> HIDE DEF Q, H, R, G
<1>8. Ledger(R, G, P)
  BY <1>4, <1>6, <1>7, LedgerReturns
<1>9. Account(r, u, ps, P)
  BY <1>3, <1>8 DEF Account, R, G
<1> QED
  BY <1>9 DEF r

LEMMA AccountSettles ==
  ASSUME NEW qs, NEW t, NEW rs, NEW P, Account(qs, t, rs, P), NEW i \in Slots,
         NEW u, NEW ps, Sets(Hands(u, ps), Hands(t, rs), i, {}, Slots), AllCarry(u, ps)
  PROVE  Account(qs, u, ps, P \ Held(t, rs, i))
<1> DEFINE Q == Books(qs)
           H == Hands(t, rs)
           G == Hands(u, ps)
<1>1. Ledger(Q, H, P)
  BY DEF Account
<1>2. H[i] = Held(t, rs, i)
  BY DEF Hands
<1>3. Sets(G, H, i, {}, Slots)
  OBVIOUS
<1> HIDE DEF Q, H, G
<1>4. Ledger(Q, G, P \ H[i])
  BY <1>1, <1>3, LedgerSettles
<1> QED
  BY <1>2, <1>4 DEF Account, Q, G

\* Events of a channel come to their end.
LEMMA AccountLoses ==
  ASSUME NEW qs, NEW t, NEW rs, NEW P, Account(qs, t, rs, P), NEW ch \in Channels,
         NEW B, B \subseteq Owns(qs[ch]), NEW c, Tidy(c), Owns(c) = Owns(qs[ch]) \ B
  PROVE  Account([qs EXCEPT ![ch] = c], t, rs, P \ B)
<1> DEFINE r == [qs EXCEPT ![ch] = c]
           Q == Books(qs)
           H == Hands(t, rs)
           R == Books(r)
<1>1. DOMAIN qs = Channels /\ \A x \in Channels : Tidy(qs[x])
  BY DEF Account, AllTidy
<1>2. DOMAIN r = Channels /\ \A x \in Channels : r[x] = IF x = ch THEN c ELSE qs[x]
  BY <1>1
<1> HIDE DEF r
<1>3. AllTidy(r)
  BY <1>1, <1>2 DEF AllTidy
<1>4. Ledger(Q, H, P)
  BY DEF Account
<1>5. Q[ch] = Owns(qs[ch])
  BY DEF Books
<1>6. Sets(R, Q, ch, Q[ch] \ B, Channels)
  BY <1>2, <1>5 DEF Books, Sets
<1> HIDE DEF Q, H, R
<1>7. Ledger(R, H, P \ B)
  BY <1>4, <1>5, <1>6, LedgerLoses
<1>8. Account(r, t, rs, P \ B)
  BY <1>3, <1>7 DEF Account, R, H
<1> QED
  BY <1>8 DEF r

\* An event is pushed.
LEMMA AccountGrows ==
  ASSUME NEW qs, NEW t, NEW rs, NEW P, Account(qs, t, rs, P), NEW ch \in Channels,
         NEW e, e \notin P, NEW c, Tidy(c), Owns(c) = Owns(qs[ch]) \cup {e}
  PROVE  Account([qs EXCEPT ![ch] = c], t, rs, P \cup {e})
<1> DEFINE r == [qs EXCEPT ![ch] = c]
           Q == Books(qs)
           H == Hands(t, rs)
           R == Books(r)
<1>1. DOMAIN qs = Channels /\ \A x \in Channels : Tidy(qs[x])
  BY DEF Account, AllTidy
<1>2. DOMAIN r = Channels /\ \A x \in Channels : r[x] = IF x = ch THEN c ELSE qs[x]
  BY <1>1
<1> HIDE DEF r
<1>3. AllTidy(r)
  BY <1>1, <1>2 DEF AllTidy
<1>4. Ledger(Q, H, P)
  BY DEF Account
<1>6. Sets(R, Q, ch, Q[ch] \cup {e}, Channels)
  BY <1>2 DEF Books, Sets
<1> HIDE DEF Q, H, R
<1>7. Ledger(R, H, P \cup {e})
  BY <1>4, <1>6, LedgerGrows
<1>8. Account(r, t, rs, P \cup {e})
  BY <1>3, <1>7 DEF Account, R, H
<1> QED
  BY <1>8 DEF r

\* Appending an item and taking the first keep the other items.
LEMMA SeqItems ==
  ASSUME NEW s, IsSeq(s), NEW x
  PROVE  /\ \A k \in DOMAIN s : k \in DOMAIN Append(s, x) /\ Append(s, x)[k] = s[k]
         /\ \E k \in DOMAIN Append(s, x) : Append(s, x)[k] = x
         /\ \A k \in DOMAIN Append(s, x) :
              (k \in DOMAIN s /\ Append(s, x)[k] = s[k]) \/ Append(s, x)[k] = x
         /\ s # <<>> =>
              /\ Head(s) = s[1] /\ 1 \in DOMAIN s
              /\ \A k \in DOMAIN s :
                   k # 1 => (k - 1 \in DOMAIN Tail(s) /\ Tail(s)[k - 1] = s[k])
              /\ \A k \in DOMAIN Tail(s) : k + 1 \in DOMAIN s /\ Tail(s)[k] = s[k + 1]
<1> DEFINE U == Items(s) \cup {x}
           a == Append(s, x)
           b == Tail(s)
<1>1. s \in Seq(U) /\ x \in U
  <2>1. s \in Seq(Items(s)) /\ Items(s) \subseteq U /\ x \in U
    BY DEF IsSeq
  <2> HIDE DEF U
  <2> QED
    BY <2>1, SMT
<1> HIDE DEF U
<1>2. \A k \in DOMAIN s : k \in DOMAIN a /\ a[k] = s[k]
  BY <1>1, SMT
<1>3. Len(s) + 1 \in DOMAIN a /\ a[Len(s) + 1] = x
  BY <1>1, SMT
<1>4. \A k \in DOMAIN a : (k \in DOMAIN s /\ a[k] = s[k]) \/ a[k] = x
  BY <1>1, SMT
<1>5. ASSUME s # <<>> PROVE Head(s) = s[1] /\ 1 \in DOMAIN s
  BY <1>1, <1>5, SMT
<1>6. ASSUME s # <<>>, NEW k \in DOMAIN b PROVE k + 1 \in DOMAIN s /\ b[k] = s[k + 1]
  BY <1>1, <1>6, SMT
<1>7. ASSUME s # <<>>, NEW k \in DOMAIN s, k # 1
      PROVE  k - 1 \in DOMAIN b /\ b[k - 1] = s[k]
  <2>1. /\ b \in Seq(U) /\ Len(b) = Len(s) - 1 /\ Len(s) \in Nat
        /\ DOMAIN b = 1..Len(s) - 1 /\ DOMAIN s = 1..Len(s)
    BY <1>1, <1>7, SMT
  <2>2. \A j \in 1..Len(s) - 1 : b[j] = s[j + 1]
    BY <1>1, <1>7, SMT
  <2> HIDE DEF b
  <2>3. k - 1 \in 1..Len(s) - 1 /\ (k - 1) + 1 = k
    BY <2>1, <1>7, SMT
  <2> QED
    BY <2>1, <2>2, <2>3
<1> HIDE DEF a, b
<1> QED
  BY <1>2, <1>3, <1>4, <1>5, <1>6, <1>7 DEF a, b

\* The task of a slot is over.
LEMMA TaskOverHands ==
  ASSUME NEW t, NEW rs, DOMAIN t = Slots, AllCarry(t, rs), NEW i \in Slots, t[i] # NoTask,
         t[i].phase # "sent"
  PROVE  LET u == [t EXCEPT ![i] = NoTask]
         IN  /\ Sets(Hands(u, rs), Hands(t, rs), i, {}, Slots) /\ AllCarry(u, rs)
             /\ Held(t, rs, i) = EventsOf(t[i].batch) /\ Carries(t[i])
<1> DEFINE u == [t EXCEPT ![i] = NoTask]
<1>1. \A j \in Slots : u[j] = IF j = i THEN NoTask ELSE t[j]
  OBVIOUS
<1> HIDE DEF u
<1>2. \A j \in Slots : Held(u, rs, j) = IF j = i THEN {} ELSE Held(t, rs, j)
  BY <1>1 DEF Held
<1>3. Sets(Hands(u, rs), Hands(t, rs), i, {}, Slots)
  BY <1>2 DEF Hands, Sets
<1>4. AllCarry(u, rs)
  BY <1>1 DEF AllCarry
<1>5. Held(t, rs, i) = EventsOf(t[i].batch) /\ Carries(t[i])
  BY DEF Held, AllCarry
<1> QED
  BY <1>3, <1>4, <1>5 DEF u

\* The result of a slot is taken, and its task is over.
LEMMA ResultTakenHands ==
  ASSUME NEW t, NEW rs, DOMAIN t = Slots, AllCarry(t, rs), ResultsOK(rs, t), rs # <<>>
  PROVE  LET i == Head(rs).slot
             u == [t EXCEPT ![i] = NoTask]
         IN  /\ Sets(Hands(u, Tail(rs)), Hands(t, rs), i, {}, Slots) /\ AllCarry(u, Tail(rs))
             /\ Held(t, rs, i) = EventsOf(Head(rs).batch) /\ Carries(Head(rs))
<1> DEFINE r == Head(rs)
           i == r.slot
           u == [t EXCEPT ![i] = NoTask]
           a == Tail(rs)
<1>1. IsSeq(rs)
  BY DEF ResultsOK
<1>2. /\ r = rs[1] /\ 1 \in DOMAIN rs
      /\ \A k \in DOMAIN a : k + 1 \in DOMAIN rs /\ a[k] = rs[k + 1]
  BY <1>1, SeqItems
<1>3. \A k \in DOMAIN rs : k = 1 \/ (k - 1 \in DOMAIN a /\ a[k - 1] = rs[k])
  BY <1>1, SeqItems, SMT
<1> HIDE DEF r, a
<1>4. /\ i \in Slots /\ t[i] # NoTask /\ t[i].phase = "sent"
      /\ \A k \in DOMAIN rs : rs[k].slot = i => k = 1
  BY <1>2 DEF ResultsOK
<1> HIDE DEF i
<1>5. \A j \in Slots : u[j] = IF j = i THEN NoTask ELSE t[j]
  BY <1>4
<1> HIDE DEF u
<1>6. rs[1].slot = i
  BY <1>2 DEF i
<1>7. Held(t, rs, i) = EventsOf(r.batch)
  <2>1. {j \in DOMAIN rs : rs[j].slot = i} = {1}
    BY <1>2, <1>4, <1>6
  <2>2. Held(t, rs, i) = UNION {EventsOf(rs[k].batch) : k \in {j \in DOMAIN rs : rs[j].slot = i}}
    BY <1>4 DEF Held
  <2>3. UNION {EventsOf(rs[k].batch) : k \in {1}} = EventsOf(rs[1].batch)
    OBVIOUS
  <2> QED
    BY <1>2, <2>1, <2>2, <2>3
<1>8. ASSUME NEW j \in Slots, j # i PROVE Held(u, a, j) = Held(t, rs, j)
  <2>1. u[j] = t[j]
    BY <1>5, <1>8
  <2> DEFINE X == UNION {EventsOf(a[k].batch) : k \in {n \in DOMAIN a : a[n].slot = j}}
             Y == UNION {EventsOf(rs[k].batch) : k \in {n \in DOMAIN rs : rs[n].slot = j}}
  <2>2. ASSUME NEW e \in X PROVE e \in Y
    <3>1. PICK k \in DOMAIN a : a[k].slot = j /\ e \in EventsOf(a[k].batch)
      OBVIOUS
    <3>2. k + 1 \in DOMAIN rs /\ rs[k + 1].slot = j /\ e \in EventsOf(rs[k + 1].batch)
      BY <1>2, <3>1
    <3> QED
      BY <3>2
  <2>3. ASSUME NEW e \in Y PROVE e \in X
    <3>1. PICK k \in DOMAIN rs : rs[k].slot = j /\ e \in EventsOf(rs[k].batch)
      OBVIOUS
    <3>2. k # 1
      BY <1>6, <1>8, <3>1
    <3>3. k - 1 \in DOMAIN a /\ a[k - 1].slot = j /\ e \in EventsOf(a[k - 1].batch)
      BY <1>3, <3>1, <3>2
    <3> QED
      BY <3>3
  <2>4. X = Y
    BY <2>2, <2>3
  <2>5. Held(u, a, j) = IF t[j] = NoTask THEN {}
                        ELSE IF t[j].phase # "sent" THEN EventsOf(t[j].batch) ELSE X
    BY <2>1 DEF Held
  <2>6. Held(t, rs, j) = IF t[j] = NoTask THEN {}
                         ELSE IF t[j].phase # "sent" THEN EventsOf(t[j].batch) ELSE Y
    BY DEF Held
  <2> HIDE DEF X, Y
  <2> QED
    BY <2>4, <2>5, <2>6, SMT
<1>9. Held(u, a, i) = {}
  BY <1>4, <1>5 DEF Held
<1>10. Sets(Hands(u, a), Hands(t, rs), i, {}, Slots)
  BY <1>8, <1>9 DEF Hands, Sets
<1>11. AllCarry(u, a)
  BY <1>2, <1>5 DEF AllCarry
<1>12. Carries(r)
  BY <1>2 DEF AllCarry
<1> QED
  BY <1>7, <1>10, <1>11, <1>12 DEF r, i, u, a

\* A task sends its result.
LEMMA TaskSendsHands ==
  ASSUME NEW t, NEW rs, DOMAIN t = Slots, AllCarry(t, rs), ResultsOK(rs, t), NEW i \in Slots,
         t[i] # NoTask, t[i].phase # "sent", NEW s, s # NoTask, s.phase = "sent",
         s.ch = t[i].ch, s.batch = t[i].batch,
         NEW r, r.slot = i, Carries(r)
  PROVE  LET u == [t EXCEPT ![i] = s]
         IN  /\ Sets(Hands(u, Append(rs, r)), Hands(t, rs), i, EventsOf(r.batch), Slots)
             /\ AllCarry(u, Append(rs, r)) /\ Held(t, rs, i) = EventsOf(t[i].batch)
<1> DEFINE u == [t EXCEPT ![i] = s]
           a == Append(rs, r)
<1>1. IsSeq(rs)
  BY DEF ResultsOK
<1>2. \A k \in DOMAIN a : \/ k \in DOMAIN rs /\ a[k] = rs[k]
                          \/ a[k] = r
  BY <1>1, SeqItems, SMT
<1>3. /\ \A k \in DOMAIN rs : k \in DOMAIN a /\ a[k] = rs[k]
      /\ \E k \in DOMAIN a : a[k] = r
  BY <1>1, SeqItems, SMT
<1>4. \A j \in Slots : u[j] = IF j = i THEN s ELSE t[j]
  OBVIOUS
<1>5. \A k \in DOMAIN rs : rs[k].slot # i
  BY DEF ResultsOK
<1> HIDE DEF u, a
<1>6. Held(u, a, i) = EventsOf(r.batch)
  <2> DEFINE X == UNION {EventsOf(a[k].batch) : k \in {n \in DOMAIN a : a[n].slot = i}}
  <2>1. ASSUME NEW e \in X PROVE e \in EventsOf(r.batch)
    <3>1. PICK k \in DOMAIN a : a[k].slot = i /\ e \in EventsOf(a[k].batch)
      OBVIOUS
    <3> QED
      BY <1>2, <1>5, <3>1
  <2>2. ASSUME NEW e \in EventsOf(r.batch) PROVE e \in X
    <3>1. PICK k \in DOMAIN a : a[k] = r
      BY <1>3
    <3> QED
      BY <3>1
  <2>3. X = EventsOf(r.batch)
    BY <2>1, <2>2
  <2>4. Held(u, a, i) = X
    BY <1>4 DEF Held
  <2> QED
    BY <2>3, <2>4
<1>7. ASSUME NEW j \in Slots, j # i PROVE Held(u, a, j) = Held(t, rs, j)
  <2>1. u[j] = t[j]
    BY <1>4, <1>7
  <2> DEFINE X == UNION {EventsOf(a[k].batch) : k \in {n \in DOMAIN a : a[n].slot = j}}
             Y == UNION {EventsOf(rs[k].batch) : k \in {n \in DOMAIN rs : rs[n].slot = j}}
  <2>2. ASSUME NEW e \in X PROVE e \in Y
    <3>1. PICK k \in DOMAIN a : a[k].slot = j /\ e \in EventsOf(a[k].batch)
      OBVIOUS
    <3>2. k \in DOMAIN rs /\ rs[k].slot = j /\ e \in EventsOf(rs[k].batch)
      BY <1>2, <1>7, <3>1
    <3> QED
      BY <3>2
  <2>3. ASSUME NEW e \in Y PROVE e \in X
    <3>1. PICK k \in DOMAIN rs : rs[k].slot = j /\ e \in EventsOf(rs[k].batch)
      OBVIOUS
    <3>2. k \in DOMAIN a /\ a[k].slot = j /\ e \in EventsOf(a[k].batch)
      BY <1>3, <3>1
    <3> QED
      BY <3>2
  <2>4. X = Y
    BY <2>2, <2>3
  <2>5. Held(u, a, j) = IF t[j] = NoTask THEN {}
                        ELSE IF t[j].phase # "sent" THEN EventsOf(t[j].batch) ELSE X
    BY <2>1 DEF Held
  <2>6. Held(t, rs, j) = IF t[j] = NoTask THEN {}
                         ELSE IF t[j].phase # "sent" THEN EventsOf(t[j].batch) ELSE Y
    BY DEF Held
  <2> HIDE DEF X, Y
  <2> QED
    BY <2>4, <2>5, <2>6, SMT
<1>8. Sets(Hands(u, a), Hands(t, rs), i, EventsOf(r.batch), Slots)
  BY <1>6, <1>7 DEF Hands, Sets
<1>9. AllCarry(u, a)
  BY <1>2, <1>4, SMT DEF AllCarry, Carries
<1>10. Held(t, rs, i) = EventsOf(t[i].batch)
  BY DEF Held
<1> QED
  BY <1>8, <1>9, <1>10 DEF u, a

-----------------------------------------------------------------------------
\* A batch comes back or is settled.
Closes(c, d, es, f) ==
  /\ Tidy(d)
  /\ \/ Owns(d) = Owns(c) \cup es /\ f = fate
     \/ /\ Owns(d) = Owns(c)
        /\ \E how \in {"dropped", "dead", "dead_silent"} : f = Settle(fate, es, how)

LEMMA NoBatchOK == BatchOK(NoBatch) /\ EventsOf(NoBatch) = {}
BY RowEmpty DEF BatchOK, EventsOf, NoBatch, NewBatch

\* The batch of a result: requeued, requeued as cancelled, dead-lettered or dropped.
LEMMA ResultCloses ==
  ASSUME NEW c, Tidy(c), NEW r, BatchOK(r.batch), EventsOf(r.batch) \cap Owns(c) = {}
  PROVE  Closes(c, ResultQueue(c, r), EventsOf(r.batch), ResultFate(c, r))
<1> DEFINE es == EventsOf(r.batch)
           x == IF r.batch = NoBatch \/ r.ch \in removed THEN c
                ELSE IF Preserved(r.outcome) THEN requeue_as_cancelled(c, r.batch)
                ELSE IF DeadLettered(r.outcome) THEN c
                ELSE requeue(c, r.batch)
           f == ResultFate(c, r)
<1>1. ResultQueue(c, r) = mark_complete(x)
  BY DEF ResultQueue
<1>2. Preserved(r.outcome) => ~DeadLettered(r.outcome)
  BY DEF Preserved, DeadLettered
<1>3. Closes(c, x, es, f)
  <2>1. CASE r.batch = NoBatch
    <3>1. x = c /\ f = fate
      BY <2>1, SMT DEF ResultFate
    <3>2. es = {}
      BY <2>1, NoBatchOK
    <3> HIDE DEF x, f, es
    <3> QED
      BY <3>1, <3>2 DEF Closes
  <2>2. CASE r.batch # NoBatch /\ r.ch \in removed
    <3>1. x = c /\ f = Settle(fate, es, "dropped")
      BY <2>2, SMT DEF ResultFate
    <3> HIDE DEF x, f, es
    <3> QED
      BY <3>1 DEF Closes
  <2>3. CASE r.batch # NoBatch /\ r.ch \notin removed /\ Preserved(r.outcome)
    <3>1. x = requeue_as_cancelled(c, r.batch) /\ f = fate
      BY <1>2, <2>3, SMT DEF ResultFate
    <3>2. Tidy(x) /\ Owns(x) = Owns(c) \cup es
      BY <3>1, RequeueCancelledTidy
    <3> HIDE DEF x, f, es
    <3> QED
      BY <3>1, <3>2 DEF Closes
  <2>4. CASE r.batch # NoBatch /\ r.ch \notin removed /\ DeadLettered(r.outcome)
    <3>1. x = c /\ f = Settle(fate, es, "dead")
      BY <1>2, <2>4, SMT DEF ResultFate
    <3> HIDE DEF x, f, es
    <3> QED
      BY <3>1 DEF Closes
  <2>5. CASE /\ r.batch # NoBatch /\ r.ch \notin removed /\ ~Preserved(r.outcome)
             /\ ~DeadLettered(r.outcome)
    <3>1. x = requeue(c, r.batch)
          /\ f = IF Exhausted(c) THEN Settle(fate, es, "dead") ELSE fate
      BY <2>5, SMT DEF ResultFate
    <3>2. Tidy(x) /\ Owns(x) = Owns(c) \cup (IF Exhausted(c) THEN {} ELSE es)
      BY <3>1, RequeueTidy
    <3> HIDE DEF x, f, es
    <3>3. CASE Exhausted(c)
      BY <3>1, <3>2, <3>3 DEF Closes
    <3>4. CASE ~Exhausted(c)
      BY <3>1, <3>2, <3>4 DEF Closes
    <3> QED
      BY <3>3, <3>4
  <2> HIDE DEF x, f, es
  <2> QED
    BY <2>1, <2>2, <2>3, <2>4, <2>5
<1> HIDE DEF x, f, es
<1>4. Tidy(x)
  BY <1>3 DEF Closes
<1>5. Tidy(mark_complete(x)) /\ Owns(mark_complete(x)) = Owns(x)
  BY <1>4, MarksAlike, AlikeTidy
<1>6. Closes(c, mark_complete(x), es, f)
  BY <1>3, <1>5 DEF Closes
<1> QED
  BY <1>1, <1>6 DEF f, es

\* The account is kept when the batch of a slot is closed.
LEMMA AccountCloses ==
  ASSUME AInv, NEW i \in Slots, NEW ch \in Channels, NEW u, NEW ps,
         Sets(Hands(u, ps), Hands(task, results), i, {}, Slots), AllCarry(u, ps),
         NEW d, NEW f, Closes(q[ch], d, Held(task, results, i), f)
  PROVE  Account([q EXCEPT ![ch] = d], u, ps, Pending(f)) /\ Fates(f, arrived)
<1> DEFINE es == Held(task, results, i)
<1>1. Account(q, task, results, Pending(fate)) /\ Fates(fate, arrived)
  BY DEF AInv
<1>2. es \subseteq Pending(fate)
  BY <1>1, OnTheBooks
<1> HIDE DEF es
<1>3. CASE Owns(d) = Owns(q[ch]) \cup es /\ f = fate
  <2>1. Tidy(d) /\ Owns(d) = Owns(q[ch]) \cup Held(task, results, i)
    BY <1>3 DEF Closes, es
  <2> QED
    BY <1>1, <1>3, <2>1, AccountReturns
<1>4. ASSUME Owns(d) = Owns(q[ch]), NEW how \in {"dropped", "dead", "dead_silent"},
             f = Settle(fate, es, how)
      PROVE  Account([q EXCEPT ![ch] = d], u, ps, Pending(f)) /\ Fates(f, arrived)
  <2>0. how # "pending"
    OBVIOUS
  <2>1. Pending(f) = Pending(fate) \ es /\ Fates(f, arrived)
    BY <1>1, <1>2, <1>4, <2>0, PendingSettled
  <2>2. Account(q, u, ps, Pending(fate) \ es)
    BY <1>1, AccountSettles DEF es
  <2>3. Tidy(d)
    BY DEF Closes
  <2>4. Account([q EXCEPT ![ch] = d], u, ps, Pending(fate) \ es)
    BY <1>4, <2>2, <2>3, AccountTidiedAt
  <2> QED
    BY <2>1, <2>4
<1>5. \/ Owns(d) = Owns(q[ch]) \cup es /\ f = fate
      \/ /\ Owns(d) = Owns(q[ch])
         /\ \E how \in {"dropped", "dead", "dead_silent"} : f = Settle(fate, es, how)
  BY DEF Closes, es
<1> QED
  BY <1>3, <1>4, <1>5

\* A task that carried nothing is over.
LEMMA AccountNothing ==
  ASSUME AInv, NEW i \in Slots, Held(task, results, i) = {}, NEW u, NEW ps,
         Sets(Hands(u, ps), Hands(task, results), i, {}, Slots), AllCarry(u, ps)
  PROVE  Account(q, u, ps, Pending(fate)) /\ Fates(fate, arrived)
<1>1. Account(q, task, results, Pending(fate)) /\ Fates(fate, arrived)
  BY DEF AInv
<1>2. Account(q, u, ps, Pending(fate) \ Held(task, results, i))
  BY <1>1, AccountSettles
<1>3. Pending(fate) \ Held(task, results, i) = Pending(fate)
  OBVIOUS
<1> QED
  BY <1>1, <1>2, <1>3

\* A batch that is retried, or given up.
LEMMA RetryCarries ==
  ASSUME AInv, NEW i \in Slots, task[i] # NoTask, NEW why
  PROVE  LET b == [task[i].batch EXCEPT !.reason = why]
         IN  /\ BatchOK(task[i].batch) /\ BatchOK(b)
             /\ EventsOf(b) = EventsOf(task[i].batch)
<1>1. BatchOK(task[i].batch)
  BY DEF AInv, Account, AllCarry, Carries
<1> DEFINE a == task[i].batch
           b == [a EXCEPT !.reason = why]
<1>2. DOMAIN b = DOMAIN a /\ b.events = a.events /\ b.cancelled = a.cancelled
  BY <1>1 DEF BatchOK
<1> HIDE DEF b
<1>3. BatchOK(b)
  BY <1>1, <1>2 DEF BatchOK
<1>4. EventsOf(b) = EventsOf(a)
  BY <1>2 DEF EventsOf
<1> QED
  BY <1>1, <1>3, <1>4 DEF b

-----------------------------------------------------------------------------
\* The next event is not pending yet.
LEMMA NextEvent ==
  ASSUME NEW f, NEW n, Fates(f, n), n < MaxEvents, NEW how
  PROVE  LET e == n + 1
             g == [f EXCEPT ![e] = how]
         IN  /\ e \in Events /\ e \notin Pending(f) /\ Fates(g, e)
             /\ Pending(g) = IF how = "pending" THEN Pending(f) \cup {e} ELSE Pending(f)
<1> DEFINE e == n + 1
           g == [f EXCEPT ![e] = how]
<1>1. n \in Nat /\ DOMAIN f = Events /\ \A x \in Events : n < x => f[x] = "none"
  BY DEF Fates
<1>2. e \in Events /\ e \in Nat /\ n < e
  BY <1>1, QueueAssumption, SMT DEF Events
<1>3. \A x \in Events : e < x => n < x /\ x # e
  BY <1>1, SMT DEF Events
<1> HIDE DEF e
<1>4. f[e] = "none"
  BY <1>1, <1>2
<1>5. DOMAIN g = Events /\ \A x \in Events : g[x] = IF x = e THEN how ELSE f[x]
  BY <1>1
<1> HIDE DEF g
<1>6. e \notin Pending(f)
  BY <1>4 DEF Pending
<1>7. Fates(g, e)
  BY <1>1, <1>2, <1>3, <1>5 DEF Fates
<1>8. CASE how = "pending"
  <2>1. Pending(g) = Pending(f) \cup {e}
    BY <1>2, <1>5, <1>8 DEF Pending
  <2> QED
    BY <1>2, <1>6, <1>7, <1>8, <2>1 DEF e, g
<1>9. CASE how # "pending"
  <2>1. Pending(g) = Pending(f)
    BY <1>2, <1>4, <1>5, <1>9 DEF Pending
  <2> QED
    BY <1>2, <1>6, <1>7, <1>9, <2>1 DEF e, g
<1> QED
  BY <1>8, <1>9

\* A removal drains the channel: its queued events are dropped.
LEMMA MemberRemovedAccount ==
  ASSUME AInv, NEW ch \in Channels, MemberRemoved(ch)
  PROVE  AInv'
<1> DEFINE c == drain_channel(q[ch])
           B == Drained(q[ch])
<1>1. /\ q' = [q EXCEPT ![ch] = drain_channel(@)] /\ fate' = Settle(fate, B, "dropped")
      /\ task' = task /\ results' = results /\ arrived' = arrived
  BY DEF MemberRemoved
<1>2. /\ Account(q, task, results, Pending(fate)) /\ Fates(fate, arrived)
      /\ DOMAIN q = Channels /\ Tidy(q[ch])
  BY DEF AInv, Account, AllTidy
<1>3. Tidy(c) /\ B \subseteq Owns(q[ch]) /\ Owns(c) = Owns(q[ch]) \ B
  BY <1>2, DrainTidy
<1>4. q' = [q EXCEPT ![ch] = c]
  BY <1>1, <1>2
<1> HIDE DEF c, B
<1>5. B \subseteq Pending(fate)
  BY <1>2, <1>3, OnTheBooks
<1>6. Pending(fate') = Pending(fate) \ B /\ Fates(fate', arrived)
  BY <1>1, <1>2, <1>5, PendingSettled
<1>7. Account([q EXCEPT ![ch] = c], task, results, Pending(fate) \ B)
  BY <1>2, <1>3, AccountLoses
<1> QED
  BY <1>1, <1>4, <1>6, <1>7 DEF AInv

\* The maintenance of the queue keeps every event.
LEMMA MaintainedAccount ==
  ASSUME AInv
  PROVE  Account(MaintainedQueue, task, results, Pending(fate))
<1> DEFINE c == [ch \in Channels |-> compact_expired_state(q[ch])]
<1>1. Account(q, task, results, Pending(fate)) /\ \A ch \in Channels : Tidy(q[ch])
  BY DEF AInv, Account, AllTidy
<1>2. ASSUME NEW ch \in Channels PROVE Tidy(c[ch]) /\ Owns(c[ch]) = Owns(q[ch])
  <2>1. c[ch] = compact_expired_state(q[ch])
    OBVIOUS
  <2> QED
    BY <1>1, <2>1, MarksAlike, AlikeTidy
<1>3. DOMAIN c = Channels /\ MaintainedQueue = ExpireAll(c)
  BY DEF MaintainedQueue
<1> HIDE DEF c
<1>4. Account(c, task, results, Pending(fate))
  BY <1>1, <1>2, <1>3, AccountTidied
<1> QED
  BY <1>3, <1>4, AccountExpires

\* A step of the queue that marks a channel.
LEMMA MarkAccount ==
  ASSUME AInv, NEW ch \in Channels, NEW c, Alike(q[ch], c), q' = [q EXCEPT ![ch] = c],
         UNCHANGED <<task, results, fate, arrived>>
  PROVE  AInv'
<1>1. Account(q, task, results, Pending(fate)) /\ Fates(fate, arrived) /\ Tidy(q[ch])
  BY DEF AInv, Account, AllTidy
<1>2. Tidy(c) /\ Owns(c) = Owns(q[ch])
  BY <1>1, AlikeTidy
<1>3. Account([q EXCEPT ![ch] = c], task, results, Pending(fate))
  BY <1>1, <1>2, AccountTidiedAt
<1> QED
  BY <1>1, <1>3 DEF AInv

\* At the start nothing is pending and nothing is owned.
LEMMA AccountInit ==
  ASSUME Init
  PROVE  AInv
<1>1. /\ q = [ch \in Channels |-> EmptyChannel] /\ task = [i \in Slots |-> NoTask]
      /\ results = <<>> /\ arrived = 0 /\ fate = [e \in Events |-> "none"]
  BY DEF Init
<1> DEFINE c == EmptyChannel
<1>2. /\ DOMAIN c = QFields /\ c.queue = <<>> /\ c.cancelled = <<>> /\ c.withheld = <<>>
      /\ c.evicted = {} /\ c.forgotten = {}
  BY DEF EmptyChannel, QFields
<1> HIDE DEF c
<1>3. Tidy(c) /\ Owns(c) = {}
  BY <1>2, RowEmpty DEF Tidy, Owns, Drained, Gone, Apart
<1>4. AllTidy(q) /\ \A ch \in Channels : Owns(q[ch]) = {}
  BY <1>1, <1>3 DEF AllTidy, c
<1>5. \A i \in Slots : task[i] = NoTask
  BY <1>1
<1>6. DOMAIN results = {}
  BY <1>1, SMT
<1>7. AllCarry(task, results)
  BY <1>5, <1>6 DEF AllCarry
<1>8. \A i \in Slots : Held(task, results, i) = {}
  BY <1>5 DEF Held
<1>9. Pending(fate) = {}
  BY <1>1 DEF Pending
<1>10. Ledger(Books(q), Hands(task, results), Pending(fate))
  BY <1>4, <1>8, <1>9 DEF Ledger, Books, Hands
<1>11. Fates(fate, arrived)
  BY <1>1, SMT DEF Fates
<1> QED
  BY <1>4, <1>7, <1>10, <1>11 DEF AInv, Account

\* An event of a batch on its way is held by its slot.
LEMMA HeldInResult ==
  ASSUME SInv, NEW k \in DOMAIN results, NEW e \in EventsOf(results[k].batch)
  PROVE  /\ results[k].slot \in Slots /\ task[results[k].slot] # NoTask
         /\ task[results[k].slot].phase = "sent"
         /\ e \in Held(task, results, results[k].slot)
<1>1. ResultsOK(results, task)
  BY DEF SInv, Owned
<1>2. /\ results[k].slot \in Slots /\ task[results[k].slot] # NoTask
      /\ task[results[k].slot].phase = "sent"
  BY <1>1 DEF ResultsOK
<1> DEFINE i == results[k].slot
<1>3. e \in UNION {EventsOf(results[n].batch) : n \in {j \in DOMAIN results : results[j].slot = i}}
  OBVIOUS
<1>4. e \in Held(task, results, i)
  BY <1>2, <1>3 DEF Held
<1> QED
  BY <1>2, <1>4

\* The account says what Accounted says.
LEMMA AccountSays ==
  ASSUME SInv, AInv
  PROVE  Accounted
<1>1. SUFFICES ASSUME NEW e \in Events, fate[e] = "pending"
               PROVE  IF e \in Evicted \cup Forgotten THEN Places(e) = {}
                      ELSE \E x \in Places(e) : Places(e) = {x}
  BY DEF Accounted
<1> DEFINE InQ(ch) == e \in Drained(q[ch])
           InT(i) == InTaskMap(i) /\ task[i].phase # "sent" /\ e \in EventsOf(task[i].batch)
           InR(k) == e \in EventsOf(results[k].batch)
<1>2. Ledger(Books(q), Hands(task, results), Pending(fate))
  BY DEF AInv, Account
<1>3. /\ \A i \in Slots : Hands(task, results)[i] = Held(task, results, i)
      /\ \A ch \in Channels : Books(q)[ch] = Owns(q[ch])
  BY DEF Hands, Books
<1>4. e \in Pending(fate)
  BY <1>1 DEF Pending
<1>5. /\ \A c, d \in Channels : e \in Owns(q[c]) /\ e \in Owns(q[d]) => c = d
      /\ \A i, j \in Slots : e \in Held(task, results, i) /\ e \in Held(task, results, j) => i = j
      /\ \A c \in Channels, i \in Slots :
           ~(e \in Owns(q[c]) /\ e \in Held(task, results, i))
      /\ \/ \E c \in Channels : e \in Owns(q[c])
         \/ \E i \in Slots : e \in Held(task, results, i)
  <2>1. \A c, d \in Channels : e \in Owns(q[c]) /\ e \in Owns(q[d]) => c = d
    BY <1>2, <1>3, SMT DEF Ledger
  <2>2. \A i, j \in Slots : e \in Held(task, results, i) /\ e \in Held(task, results, j) => i = j
    BY <1>2, <1>3, SMT DEF Ledger
  <2>3. \A c \in Channels, i \in Slots : ~(e \in Owns(q[c]) /\ e \in Held(task, results, i))
    BY <1>2, <1>3, SMT DEF Ledger
  <2>4. (\E c \in Channels : e \in Owns(q[c])) \/ (\E i \in Slots : e \in Held(task, results, i))
    BY <1>2, <1>3, <1>4, SMT DEF Ledger
  <2> QED
    BY <2>1, <2>2, <2>3, <2>4
<1>6. \A i \in Slots : InT(i) => e \in Held(task, results, i)
  BY DEF Held, InTaskMap
<1>7. \A k \in DOMAIN results :
        InR(k) => /\ results[k].slot \in Slots /\ task[results[k].slot].phase = "sent"
                  /\ e \in Held(task, results, results[k].slot)
  BY HeldInResult
<1>8. \A ch \in Channels : InQ(ch) => e \in Owns(q[ch])
  BY DEF Owns
<1>9. \A x : x \in Places(e) <=> \/ \E ch \in Channels : InQ(ch) /\ x = <<"queue", ch>>
                                 \/ \E i \in Slots : InT(i) /\ x = <<"task", i>>
                                 \/ \E k \in DOMAIN results : InR(k) /\ x = <<"result", k>>
  BY DEF Places
<1>10. \A ch \in Channels : e \in Gone(q[ch]) => ~InQ(ch) /\ e \in Owns(q[ch])
  <2>1. ASSUME NEW ch \in Channels, e \in Gone(q[ch]) PROVE ~InQ(ch)
    <3>1. Tidy(q[ch])
      BY DEF AInv, Account, AllTidy
    <3>2. Drained(q[ch]) \cap Gone(q[ch]) = {}
      BY <3>1 DEF Tidy, Apart, Drained
    <3> QED
      BY <2>1, <3>2
  <2> QED
    BY <2>1 DEF Owns
<1>11. e \in Evicted \cup Forgotten <=> \E ch \in Channels : e \in Gone(q[ch])
  BY DEF Evicted, Forgotten, Gone
<1>12. ResultsOK(results, task)
  BY DEF SInv, Owned
<1>13. \A ch \in Channels : e \in Owns(q[ch]) => InQ(ch) \/ e \in Gone(q[ch])
  BY DEF Owns
<1>14. ASSUME NEW i \in Slots, e \in Held(task, results, i)
       PROVE  InT(i) \/ \E k \in DOMAIN results : InR(k) /\ results[k].slot = i
                                                 /\ task[i].phase = "sent"
  <2>1. task[i] # NoTask
    BY <1>14 DEF Held
  <2>2. CASE task[i].phase # "sent"
    BY <1>14, <2>1, <2>2 DEF Held, InTaskMap
  <2>3. CASE task[i].phase = "sent"
    <3>1. e \in UNION {EventsOf(results[n].batch) : n \in {j \in DOMAIN results : results[j].slot = i}}
      BY <1>14, <2>1, <2>3 DEF Held
    <3> QED
      BY <2>3, <3>1
  <2> QED
    BY <2>2, <2>3
<1> HIDE DEF InQ, InT, InR
<1>15. CASE e \in Evicted \cup Forgotten
  <2>1. PICK ch \in Channels : e \in Gone(q[ch])
    BY <1>11, <1>15
  <2>2. e \in Owns(q[ch]) /\ ~InQ(ch)
    BY <1>10, <2>1
  <2>3. \A c \in Channels : ~InQ(c)
    BY <1>5, <1>8, <2>2
  <2>4. \A i \in Slots : ~InT(i)
    BY <1>5, <1>6, <2>2
  <2>5. \A k \in DOMAIN results : ~InR(k)
    BY <1>5, <1>7, <2>2
  <2>6. Places(e) = {}
    BY <1>9, <2>3, <2>4, <2>5
  <2> QED
    BY <1>15, <2>6
<1>16. CASE e \notin Evicted \cup Forgotten
  <2> SUFFICES \E x : x \in Places(e) /\ \A y \in Places(e) : y = x
    BY <1>16
  <2>1. ASSUME NEW ch \in Channels, e \in Owns(q[ch])
        PROVE  \E x : x \in Places(e) /\ \A y \in Places(e) : y = x
    <3> DEFINE x == <<"queue", ch>>
    <3>1. InQ(ch)
      BY <1>11, <1>13, <1>16, <2>1
    <3>2. \A c \in Channels : InQ(c) => c = ch
      BY <1>5, <1>8, <2>1
    <3>3. \A i \in Slots : ~InT(i)
      BY <1>5, <1>6, <2>1
    <3>4. \A k \in DOMAIN results : ~InR(k)
      BY <1>5, <1>7, <2>1
    <3>5. x \in Places(e)
      BY <1>9, <3>1
    <3>6. \A y \in Places(e) : y = x
      BY <1>9, <3>2, <3>3, <3>4
    <3> QED
      BY <3>5, <3>6
  <2>2. ASSUME NEW i \in Slots, e \in Held(task, results, i)
        PROVE  \E x : x \in Places(e) /\ \A y \in Places(e) : y = x
    <3>1. \A c \in Channels : ~InQ(c)
      BY <1>5, <1>8, <2>2
    <3>2. \A j \in Slots : InT(j) => j = i
      BY <1>5, <1>6, <2>2
    <3>3. \A k \in DOMAIN results : InR(k) => results[k].slot = i /\ task[i].phase = "sent"
      BY <1>5, <1>7, <2>2
    <3>4. CASE InT(i)
      <4> DEFINE x == <<"task", i>>
      <4>1. task[i].phase # "sent"
        BY <3>4 DEF InT
      <4>2. x \in Places(e)
        BY <1>9, <3>4
      <4>3. \A y \in Places(e) : y = x
        BY <1>9, <3>1, <3>2, <3>3, <4>1
      <4> QED
        BY <4>2, <4>3
    <3>5. ASSUME NEW k \in DOMAIN results, InR(k), results[k].slot = i, task[i].phase = "sent"
          PROVE  \E x : x \in Places(e) /\ \A y \in Places(e) : y = x
      <4> DEFINE x == <<"result", k>>
      <4>1. \A j \in Slots : ~InT(j)
        BY <3>2, <3>5 DEF InT
      <4>2. \A n \in DOMAIN results : InR(n) => n = k
        BY <1>12, <3>3, <3>5 DEF ResultsOK
      <4>3. x \in Places(e)
        BY <1>9, <3>5
      <4>4. \A y \in Places(e) : y = x
        BY <1>9, <3>1, <4>1, <4>2
      <4> QED
        BY <4>3, <4>4
    <3> QED
      BY <1>14, <2>2, <3>4, <3>5
  <2> QED
    BY <1>5, <2>1, <2>2
<1> QED
  BY <1>15, <1>16
=============================================================================
