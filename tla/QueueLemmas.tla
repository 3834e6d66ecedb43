---------------------------- MODULE QueueLemmas -----------------------------
(***************************************************************************)
(* Facts about queues of messages that several proofs rest on: where the   *)
(* messages of a kind stand, how many there are, and what happens to both  *)
(* when a message is appended or taken off the front.                      *)
(***************************************************************************)
EXTENDS Queue, FiniteSets, FiniteSetTheorems, FunctionTheorems, SequenceTheorems,
        WellFoundedInduction, TLAPS

\* The places of q that hold a message of P.
Places(q, P) == {i \in DOMAIN q : q[i] \in P}

\* The number of those places.
CountOf(q, P) == Cardinality(Places(q, P))

\* A queue has finitely many places.
LEMMA PlacesFinite ==
    ASSUME NEW S, NEW q \in Seq(S), NEW P
    PROVE  /\ IsFiniteSet(Places(q, P))
           /\ CountOf(q, P) \in Nat
<1>1. IsFiniteSet(1 .. Len(q))
  BY FS_Interval
<1>2. Places(q, P) \in SUBSET (1 .. Len(q))
  BY DEF Places
<1>3. IsFiniteSet(Places(q, P))
  BY <1>1, <1>2, FS_Subset
<1> QED BY <1>3, FS_CardinalityType DEF CountOf

\* There is a message of P exactly when its number is not zero.
LEMMA CountZero ==
    ASSUME NEW S, NEW q \in Seq(S), NEW P
    PROVE  CountOf(q, P) = 0 <=> \A i \in DOMAIN q : q[i] \notin P
<1>1. CountOf(q, P) = 0 <=> Places(q, P) = {}
  BY PlacesFinite, FS_EmptySet DEF CountOf
<1> QED BY <1>1 DEF Places

\* The empty queue holds nothing.
LEMMA CountEmpty == ASSUME NEW P PROVE CountOf(<<>>, P) = 0
BY FS_EmptySet, Places(<<>>, P) = {} DEF CountOf, Places

\* What Post does to a queue.
LEMMA CountAppend ==
    ASSUME NEW S, NEW q \in Seq(S), NEW m \in S, NEW P
    PROVE  CountOf(Append(q, m), P) = CountOf(q, P) + (IF m \in P THEN 1 ELSE 0)
<1> DEFINE n == Len(q) + 1
<1>1. n \notin Places(q, P)
  BY DEF Places
<1>2. CASE m \in P
  <2>1. Places(Append(q, m), P) = Places(q, P) \cup {n}
    BY <1>2 DEF Places
  <2> QED BY <1>1, <1>2, <2>1, PlacesFinite, FS_AddElement DEF CountOf
<1>3. CASE m \notin P
  <2>1. Places(Append(q, m), P) = Places(q, P)
    BY <1>3 DEF Places
  <2> QED BY <1>3, <2>1, PlacesFinite DEF CountOf
<1> QED BY <1>2, <1>3

\* What dispatching the first message does to a queue.
LEMMA CountTail ==
    ASSUME NEW S, NEW q \in Seq(S), q # <<>>, NEW P
    PROVE  CountOf(Tail(q), P) = CountOf(q, P) - (IF Head(q) \in P THEN 1 ELSE 0)
<1> DEFINE A == Places(Tail(q), P)
           B == Places(q, P) \ {1}
           f == [i \in A |-> i + 1]
<1>0. /\ Tail(q) \in Seq(S)
      /\ Len(Tail(q)) = Len(q) - 1
      /\ \A i \in DOMAIN Tail(q) : i + 1 \in DOMAIN q /\ Tail(q)[i] = q[i + 1]
  OBVIOUS
<1>1. f \in Bijection(A, B)
  <2>1. f \in [A -> B]
    BY <1>0 DEF Places
  <2>2. \A i, j \in A : f[i] = f[j] => i = j
    BY <1>0 DEF Places
  <2>3. \A k \in B : \E i \in A : f[i] = k
    <3> TAKE k \in B
    <3>1. k - 1 \in A /\ f[k - 1] = k
      BY <1>0 DEF Places
    <3> QED BY <3>1
  <2> QED BY <2>1, <2>2, <2>3 DEF Bijection, Injection, Surjection, IsInjective
<1>2. IsFiniteSet(A) /\ IsFiniteSet(Places(q, P))
  BY <1>0, PlacesFinite
<1>3. Cardinality(B) = Cardinality(A)
  <2> HIDE DEF A, B, f
  <2>1. ExistsBijection(A, B)
    BY <1>1 DEF ExistsBijection
  <2> QED BY <1>2, <2>1, FS_Bijection
<1>4. Cardinality(B) = IF 1 \in Places(q, P) THEN Cardinality(Places(q, P)) - 1
                                            ELSE Cardinality(Places(q, P))
  BY <1>2, FS_RemoveElement
<1>5. 1 \in Places(q, P) <=> Head(q) \in P
  BY DEF Places
<1>6. Cardinality(Places(q, P)) \in Nat
  BY <1>2, FS_CardinalityType
<1> QED BY <1>3, <1>4, <1>5, <1>6 DEF CountOf

\* Every set of natural numbers has a least element: the form of induction
\* that needs no operator as a parameter.
LEMMA LeastNat ==
    ASSUME NEW T \in SUBSET Nat, T # {}
    PROVE  \E x \in T : \A y \in T : x <= y
<1> DEFINE R == OpToRel(<, Nat)
<1>1. IsWellFoundedOn(R, Nat)
  BY NatLessThanWellFounded
<1> HIDE DEF R
<1>2. PICK x \in T : \A y \in T : <<y, x>> \notin R
  BY <1>1, WFMin
<1>3. \A y \in T : ~(y < x)
  BY <1>2 DEF R, OpToRel
<1> QED BY <1>3

-----------------------------------------------------------------------------
(* Taking messages out.                                                    *)

\* k computes Without(q, P) for the first m messages of q.
Filters(k, q, P, m) ==
    k = [n \in 0 .. m |->
            IF n = 0 THEN <<>>
            ELSE IF q[n] \in P THEN k[n - 1] ELSE Append(k[n - 1], q[n])]

\* Without by the function that computes it.
LEMMA WithoutIs ==
    ASSUME NEW q, NEW P
    PROVE  Without(q, P) = (CHOOSE k : Filters(k, q, P, Len(q)))[Len(q)]
BY DEF Without, Filters

\* There is such a function: the least m without one would have one for m - 1.
LEMMA FiltersExists ==
    ASSUME NEW S, NEW q \in Seq(S), NEW P
    PROVE  \A m \in 0 .. Len(q) : \E k \in [0 .. m -> Seq(S)] : Filters(k, q, P, m)
<1> DEFINE Bad == {m \in 0 .. Len(q) : ~\E k \in [0 .. m -> Seq(S)] : Filters(k, q, P, m)}
<1>1. SUFFICES Bad = {}
  OBVIOUS
<1>2. SUFFICES ASSUME Bad # {} PROVE FALSE
  OBVIOUS
<1>3. PICK m \in Bad : \A y \in Bad : m <= y
  <2>1. Bad \in SUBSET Nat
    OBVIOUS
  <2> HIDE DEF Bad
  <2> QED BY <1>2, <2>1, LeastNat
<1>4. m # 0
  <2>1. SUFFICES ASSUME m = 0 PROVE FALSE
    OBVIOUS
  <2>2. PICK k : k = [n \in 0 .. 0 |-> <<>>]
    OBVIOUS
  <2>3. k \in [0 .. 0 -> Seq(S)] /\ Filters(k, q, P, 0)
    BY <2>2 DEF Filters
  <2> QED BY <2>1, <2>3
<1>5. m \in 1 .. Len(q) /\ m - 1 \in 0 .. Len(q) /\ ~(m <= m - 1)
  BY <1>4
<1>6. PICK k \in [0 .. (m - 1) -> Seq(S)] : Filters(k, q, P, m - 1)
  BY <1>3, <1>5
<1>v. PICK v : v = IF q[m] \in P THEN k[m - 1] ELSE Append(k[m - 1], q[m])
  OBVIOUS
<1>7. v \in Seq(S)
  <2>1. q[m] \in S /\ k[m - 1] \in Seq(S)
    BY <1>5, <1>6
  <2> QED BY <2>1, <1>v
<1>8. PICK l : l = [n \in 0 .. m |-> IF n = m THEN v ELSE k[n]]
  OBVIOUS
<1>9. l \in [0 .. m -> Seq(S)]
  BY <1>5, <1>6, <1>7, <1>8
<1>10. \A n \in 0 .. m :
         l[n] = IF n = 0 THEN <<>>
                ELSE IF q[n] \in P THEN l[n - 1] ELSE Append(l[n - 1], q[n])
  <2> TAKE n \in 0 .. m
  <2>1. CASE n = m
    <3>1. l[n] = v /\ l[n - 1] = k[m - 1] /\ n # 0
      BY <1>5, <1>8, <2>1
    <3> QED BY <3>1, <2>1, <1>v
  <2>2. CASE n # m
    <3>1. l[n] = k[n] /\ n \in 0 .. (m - 1) /\ (n # 0 => l[n - 1] = k[n - 1])
      BY <1>5, <1>8, <2>2
    <3>2. k[n] = IF n = 0 THEN <<>>
                ELSE IF q[n] \in P THEN k[n - 1] ELSE Append(k[n - 1], q[n])
      BY <1>6, <3>1 DEF Filters
    <3> QED BY <3>1, <3>2
  <2> QED BY <2>1, <2>2
<1>11. Filters(l, q, P, m)
  BY <1>9, <1>10 DEF Filters
<1> QED BY <1>3, <1>9, <1>11

\* The function that Without takes its value from.
LEMMA WithoutFrom ==
    ASSUME NEW S, NEW q \in Seq(S), NEW P
    PROVE  \E k \in [0 .. Len(q) -> Seq(S)] :
              Filters(k, q, P, Len(q)) /\ Without(q, P) = k[Len(q)]
<1>1. PICK j \in [0 .. Len(q) -> Seq(S)] : Filters(j, q, P, Len(q))
  <2>1. Len(q) \in 0 .. Len(q)
    OBVIOUS
  <2> QED BY <2>1, FiltersExists
<1>2. PICK k : k = CHOOSE x : Filters(x, q, P, Len(q))
  OBVIOUS
<1>3. Filters(k, q, P, Len(q))
  BY <1>1, <1>2
<1>4. \A n \in 0 .. Len(q) : k[n] \in Seq(S)
  <2> DEFINE Bad == {n \in 0 .. Len(q) : k[n] \notin Seq(S)}
  <2>1. SUFFICES ASSUME Bad # {} PROVE FALSE
    OBVIOUS
  <2>2. PICK n \in Bad : \A y \in Bad : n <= y
    <3>1. Bad \in SUBSET Nat
      OBVIOUS
    <3> HIDE DEF Bad
    <3> QED BY <2>1, <3>1, LeastNat
  <2>n. n \in 0 .. Len(q) /\ k[n] \notin Seq(S)
    OBVIOUS
  <2>3. k[n] = IF n = 0 THEN <<>>
               ELSE IF q[n] \in P THEN k[n - 1] ELSE Append(k[n - 1], q[n])
    BY <1>3, <2>n DEF Filters
  <2>e. <<>> \in Seq(S)
    OBVIOUS
  <2>4. n # 0
    BY <2>3, <2>n, <2>e
  <2>5. n \in 1 .. Len(q) /\ n - 1 \in 0 .. Len(q) /\ ~(n <= n - 1)
    BY <2>4
  <2>6. k[n - 1] \in Seq(S) /\ q[n] \in S
    BY <2>2, <2>5
  <2>7. Append(k[n - 1], q[n]) \in Seq(S)
    BY <2>6
  <2> QED BY <2>3, <2>4, <2>n, <2>6, <2>7
<1>5. k \in [0 .. Len(q) -> Seq(S)]
  BY <1>3, <1>4 DEF Filters
<1> QED BY <1>2, <1>3, <1>5, WithoutIs

\* Clear takes out the messages of P and leaves the others.
LEMMA CountWithout ==
    ASSUME NEW S, NEW q \in Seq(S), NEW P, NEW Q
    PROVE  /\ Without(q, P) \in Seq(S)
           /\ CountOf(Without(q, P), Q) = CountOf(q, Q \ P)
<1>1. PICK k \in [0 .. Len(q) -> Seq(S)] :
              Filters(k, q, P, Len(q)) /\ Without(q, P) = k[Len(q)]
  BY WithoutFrom
<1> DEFINE Bad == {n \in 0 .. Len(q) : CountOf(k[n], Q) # CountOf(SubSeq(q, 1, n), Q \ P)}
<1>2. Bad = {}
  <2>1. SUFFICES ASSUME Bad # {} PROVE FALSE
    OBVIOUS
  <2>2. PICK n \in Bad : \A y \in Bad : n <= y
    <3>1. Bad \in SUBSET Nat
      OBVIOUS
    <3> HIDE DEF Bad
    <3> QED BY <2>1, <3>1, LeastNat
  <2>3. k[n] = IF n = 0 THEN <<>>
               ELSE IF q[n] \in P THEN k[n - 1] ELSE Append(k[n - 1], q[n])
    BY <1>1 DEF Filters
  <2>4. n # 0
    <3>1. SUFFICES ASSUME n = 0 PROVE FALSE
      OBVIOUS
    <3>2. k[n] = <<>> /\ SubSeq(q, 1, n) = <<>>
      BY <2>3, <3>1
    <3> QED BY <3>2, CountEmpty
  <2>5. n \in 1 .. Len(q) /\ n - 1 \in 0 .. Len(q) /\ ~(n <= n - 1)
    BY <2>4
  <2>6. CountOf(k[n - 1], Q) = CountOf(SubSeq(q, 1, n - 1), Q \ P)
    BY <2>2, <2>5
  <2>7. /\ SubSeq(q, 1, n - 1) \in Seq(S) /\ q[n] \in S /\ k[n - 1] \in Seq(S)
        /\ SubSeq(q, 1, n) = Append(SubSeq(q, 1, n - 1), q[n])
    BY <2>5
  <2>8. /\ CountOf(SubSeq(q, 1, n), Q \ P)
             = CountOf(SubSeq(q, 1, n - 1), Q \ P) + (IF q[n] \in Q \ P THEN 1 ELSE 0)
        /\ CountOf(SubSeq(q, 1, n - 1), Q \ P) \in Nat
    <3>1. PICK p : p = SubSeq(q, 1, n - 1)
      OBVIOUS
    <3>2. p \in Seq(S) /\ q[n] \in S
      BY <2>7, <3>1
    <3>3. CountOf(Append(p, q[n]), Q \ P)
             = CountOf(p, Q \ P) + (IF q[n] \in Q \ P THEN 1 ELSE 0)
      BY <3>2, CountAppend
    <3>4. CountOf(p, Q \ P) \in Nat
      BY <3>2, PlacesFinite
    <3> QED BY <2>7, <3>1, <3>3, <3>4
  <2>9. CASE q[n] \in P
    BY <2>3, <2>4, <2>6, <2>8, <2>9
  <2>10. CASE q[n] \notin P
    <3>1. k[n] = Append(k[n - 1], q[n])
      BY <2>3, <2>4, <2>10
    <3>2. CountOf(k[n], Q) = CountOf(k[n - 1], Q) + (IF q[n] \in Q THEN 1 ELSE 0)
      BY <2>7, <3>1, CountAppend
    <3> QED BY <2>6, <2>8, <2>10, <3>2
  <2> QED BY <2>9, <2>10
<1>3. SubSeq(q, 1, Len(q)) = q
  OBVIOUS
<1>4. Len(q) \in 0 .. Len(q)
  OBVIOUS
<1>5. CountOf(k[Len(q)], Q) = CountOf(SubSeq(q, 1, Len(q)), Q \ P)
  BY <1>2, <1>4
<1> QED BY <1>1, <1>3, <1>4, <1>5

\* A message is left exactly when it was there and is not in P.
LEMMA HeldWithout ==
    ASSUME NEW S, NEW q \in Seq(S), NEW P, NEW m
    PROVE  (\E i \in DOMAIN Without(q, P) : Without(q, P)[i] = m)
              <=> m \notin P /\ \E i \in DOMAIN q : q[i] = m
<1>w. PICK w : w = Without(q, P)
  OBVIOUS
<1>1. w \in Seq(S) /\ CountOf(w, {m}) = CountOf(q, {m} \ P)
  BY <1>w, CountWithout
<1>2. CountOf(w, {m}) = 0 <=> \A i \in DOMAIN w : w[i] \notin {m}
  BY <1>1, CountZero
<1>3. CountOf(q, {m} \ P) = 0 <=> \A i \in DOMAIN q : q[i] \notin {m} \ P
  BY CountZero
<1>4. (\E i \in DOMAIN w : w[i] = m) <=> m \notin P /\ \E i \in DOMAIN q : q[i] = m
  BY <1>1, <1>2, <1>3
<1> QED BY <1>4, <1>w

LEMMA WithoutEmpty ==
    ASSUME NEW S, NEW q \in Seq(S), NEW P PROVE q = <<>> => Without(q, P) = <<>>
<1>w. PICK w : w = Without(q, P)
  OBVIOUS
<1>m. PICK m : m = w[1]
  OBVIOUS
<1>1. w \in Seq(S) /\ CountOf(w, {m}) = CountOf(q, {m} \ P)
  BY <1>w, CountWithout
<1>2. CountOf(q, {m} \ P) = 0 <=> \A i \in DOMAIN q : q[i] \notin {m} \ P
  BY CountZero
<1>3. CountOf(w, {m}) = 0 <=> \A i \in DOMAIN w : w[i] \notin {m}
  BY <1>1, CountZero
<1>4. q = <<>> => \A i \in DOMAIN w : w[i] \notin {m}
  BY <1>1, <1>2, <1>3
<1>5. q = <<>> => w = <<>>
  BY <1>1, <1>4, <1>m
<1> QED BY <1>5, <1>w

-----------------------------------------------------------------------------
(* Sequences one behind the other.                                         *)

\* k computes Concat(qs) for the first m sequences of qs.
Joins(k, qs, m) ==
    k = [n \in 0 .. m |-> IF n = 0 THEN <<>> ELSE k[n - 1] \o qs[n]]

LEMMA ConcatIs ==
    ASSUME NEW qs
    PROVE  Concat(qs) = (CHOOSE k : Joins(k, qs, Len(qs)))[Len(qs)]
BY DEF Concat, Joins

LEMMA JoinsExists ==
    ASSUME NEW S, NEW qs \in Seq(Seq(S))
    PROVE  \A m \in 0 .. Len(qs) : \E k \in [0 .. m -> Seq(S)] : Joins(k, qs, m)
<1> DEFINE Bad == {m \in 0 .. Len(qs) : ~\E k \in [0 .. m -> Seq(S)] : Joins(k, qs, m)}
<1>1. SUFFICES Bad = {}
  OBVIOUS
<1>2. SUFFICES ASSUME Bad # {} PROVE FALSE
  OBVIOUS
<1>3. PICK m \in Bad : \A y \in Bad : m <= y
  <2>1. Bad \in SUBSET Nat
    OBVIOUS
  <2> HIDE DEF Bad
  <2> QED BY <1>2, <2>1, LeastNat
<1>4. m # 0
  <2>1. SUFFICES ASSUME m = 0 PROVE FALSE
    OBVIOUS
  <2>2. PICK k : k = [n \in 0 .. 0 |-> <<>>]
    OBVIOUS
  <2>3. k \in [0 .. 0 -> Seq(S)] /\ Joins(k, qs, 0)
    BY <2>2 DEF Joins
  <2> QED BY <2>1, <2>3
<1>5. m \in 1 .. Len(qs) /\ m - 1 \in 0 .. Len(qs) /\ ~(m <= m - 1)
  BY <1>4
<1>6. PICK k \in [0 .. (m - 1) -> Seq(S)] : Joins(k, qs, m - 1)
  BY <1>3, <1>5
<1>v. PICK v : v = k[m - 1] \o qs[m]
  OBVIOUS
<1>7. v \in Seq(S)
  <2>1. qs[m] \in Seq(S) /\ k[m - 1] \in Seq(S)
    BY <1>5, <1>6
  <2> QED BY <2>1, <1>v
<1>8. PICK l : l = [n \in 0 .. m |-> IF n = m THEN v ELSE k[n]]
  OBVIOUS
<1>9. l \in [0 .. m -> Seq(S)]
  BY <1>5, <1>6, <1>7, <1>8
<1>10. \A n \in 0 .. m : l[n] = IF n = 0 THEN <<>> ELSE l[n - 1] \o qs[n]
  <2> TAKE n \in 0 .. m
  <2>1. CASE n = m
    <3>1. l[n] = v /\ l[n - 1] = k[m - 1] /\ n # 0
      BY <1>5, <1>8, <2>1
    <3> QED BY <3>1, <2>1, <1>v
  <2>2. CASE n # m
    <3>1. l[n] = k[n] /\ n \in 0 .. (m - 1) /\ (n # 0 => l[n - 1] = k[n - 1])
      BY <1>5, <1>8, <2>2
    <3>2. k[n] = IF n = 0 THEN <<>> ELSE k[n - 1] \o qs[n]
      BY <1>6, <3>1 DEF Joins
    <3> QED BY <3>1, <3>2
  <2> QED BY <2>1, <2>2
<1>11. Joins(l, qs, m)
  BY <1>9, <1>10 DEF Joins
<1> QED BY <1>3, <1>9, <1>11

\* The function that Concat takes its value from.
LEMMA ConcatFrom ==
    ASSUME NEW S, NEW qs \in Seq(Seq(S))
    PROVE  \E k \in [0 .. Len(qs) -> Seq(S)] :
              /\ k[0] = <<>>
              /\ \A n \in 1 .. Len(qs) : k[n] = k[n - 1] \o qs[n]
              /\ Concat(qs) = k[Len(qs)]
<1>1. PICK j \in [0 .. Len(qs) -> Seq(S)] : Joins(j, qs, Len(qs))
  <2>1. Len(qs) \in 0 .. Len(qs)
    OBVIOUS
  <2> QED BY <2>1, JoinsExists
<1>2. PICK k : k = CHOOSE x : Joins(x, qs, Len(qs))
  OBVIOUS
<1>3. Joins(k, qs, Len(qs))
  BY <1>1, <1>2
<1>e. <<>> \in Seq(S)
  OBVIOUS
<1>0. k[0] = <<>> /\ \A n \in 1 .. Len(qs) : k[n] = k[n - 1] \o qs[n]
  <2>1. \A n \in 0 .. Len(qs) : k[n] = IF n = 0 THEN <<>> ELSE k[n - 1] \o qs[n]
    BY <1>3 DEF Joins
  <2>2. 0 \in 0 .. Len(qs) /\ \A n \in 1 .. Len(qs) : n \in 0 .. Len(qs) /\ n # 0
    OBVIOUS
  <2> QED BY <2>1, <2>2
<1>4. \A n \in 0 .. Len(qs) : k[n] \in Seq(S)
  <2> DEFINE Bad == {n \in 0 .. Len(qs) : k[n] \notin Seq(S)}
  <2>1. SUFFICES ASSUME Bad # {} PROVE FALSE
    OBVIOUS
  <2>2. PICK n \in Bad : \A y \in Bad : n <= y
    <3>1. Bad \in SUBSET Nat
      OBVIOUS
    <3> HIDE DEF Bad
    <3> QED BY <2>1, <3>1, LeastNat
  <2>n. n \in 0 .. Len(qs) /\ k[n] \notin Seq(S)
    OBVIOUS
  <2>4. n # 0
    BY <1>0, <2>n, <1>e
  <2>5. n \in 1 .. Len(qs) /\ n - 1 \in 0 .. Len(qs) /\ ~(n <= n - 1)
    BY <2>4
  <2>6. k[n - 1] \in Seq(S) /\ qs[n] \in Seq(S)
    BY <2>2, <2>5
  <2>7. k[n - 1] \o qs[n] \in Seq(S)
    BY <2>6
  <2> QED BY <1>0, <2>n, <2>5, <2>7
<1>5. k \in [0 .. Len(qs) -> Seq(S)]
  BY <1>3, <1>4 DEF Joins
<1> QED BY <1>0, <1>2, <1>5, ConcatIs

LEMMA ConcatType == ASSUME NEW S, NEW qs \in Seq(Seq(S)) PROVE Concat(qs) \in Seq(S)
<1>1. PICK k \in [0 .. Len(qs) -> Seq(S)] : Concat(qs) = k[Len(qs)]
  BY ConcatFrom
<1>2. Len(qs) \in 0 .. Len(qs)
  OBVIOUS
<1> QED BY <1>1, <1>2

LEMMA ConcatNone == ASSUME NEW S PROVE Concat(<<>>) = <<>>
<1>q. PICK qs : qs = <<>>
  OBVIOUS
<1>0. qs \in Seq(Seq(S))
  BY <1>q
<1>1. PICK k \in [0 .. Len(qs) -> Seq(S)] : k[0] = <<>> /\ Concat(qs) = k[Len(qs)]
  BY <1>0, ConcatFrom
<1>2. Len(qs) = 0
  BY <1>q
<1> QED BY <1>1, <1>2, <1>q

LEMMA ConcatOne == ASSUME NEW S, NEW x \in Seq(S) PROVE Concat(<<x>>) = x
<1>q. PICK qs : qs = <<x>>
  OBVIOUS
<1>0. qs \in Seq(Seq(S)) /\ Len(qs) = 1 /\ qs[1] = x
  BY <1>q
<1>1. PICK k \in [0 .. Len(qs) -> Seq(S)] :
        /\ k[0] = <<>>
        /\ \A n \in 1 .. Len(qs) : k[n] = k[n - 1] \o qs[n]
        /\ Concat(qs) = k[Len(qs)]
  BY <1>0, ConcatFrom
<1>2. k[1] = k[0] \o x
  <2>1. 1 \in 1 .. Len(qs) /\ 1 - 1 = 0
    BY <1>0
  <2>2. k[1] = k[1 - 1] \o qs[1]
    BY <1>1, <2>1
  <2> QED BY <1>0, <2>1, <2>2
<1>3. <<>> \o x = x
  OBVIOUS
<1> QED BY <1>0, <1>1, <1>2, <1>3, <1>q

LEMMA Regroup ==
    ASSUME NEW S, NEW s \in Seq(S), NEW t \in Seq(S), NEW u \in Seq(S)
    PROVE  (s \o t) \o u = s \o (t \o u)
BY SMT

\* Two lists of sequences, one behind the other.
LEMMA ConcatBoth ==
    ASSUME NEW S, NEW qs \in Seq(Seq(S)), NEW rs \in Seq(Seq(S))
    PROVE  Concat(qs \o rs) = Concat(qs) \o Concat(rs)
<1>l. PICK l \in Nat : l = Len(qs)
  OBVIOUS
<1>m. PICK m \in Nat : m = Len(rs)
  OBVIOUS
<1>a. \A s, t, u \in Seq(S) : (s \o t) \o u = s \o (t \o u)
  BY SMTT(40), Regroup
<1>j. PICK j \in Nat : j = l + m
  OBVIOUS
<1>t. PICK ts : ts = qs \o rs
  OBVIOUS
<1>0. /\ ts \in Seq(Seq(S)) /\ Len(ts) = j
      /\ \A n \in 1 .. l : ts[n] = qs[n]
      /\ \A n \in 1 .. m : ts[l + n] = rs[n] /\ rs[n] \in Seq(S)
  BY <1>l, <1>m, <1>j, <1>t
<1>f. PICK f \in [0 .. l -> Seq(S)] :
        f[0] = <<>> /\ (\A n \in 1 .. l : f[n] = f[n - 1] \o qs[n]) /\ Concat(qs) = f[l]
  BY <1>l, ConcatFrom
<1>g. PICK g \in [0 .. m -> Seq(S)] :
        g[0] = <<>> /\ (\A n \in 1 .. m : g[n] = g[n - 1] \o rs[n]) /\ Concat(rs) = g[m]
  BY <1>m, ConcatFrom
<1>h. PICK h \in [0 .. j -> Seq(S)] :
        h[0] = <<>> /\ (\A n \in 1 .. j : h[n] = h[n - 1] \o ts[n]) /\ Concat(ts) = h[j]
  BY <1>0, ConcatFrom
<1>1. \A n \in 0 .. l : h[n] = f[n]
  <2> DEFINE Bad == {n \in 0 .. l : h[n] # f[n]}
  <2>1. SUFFICES ASSUME Bad # {} PROVE FALSE
    OBVIOUS
  <2>2. PICK n \in Bad : \A y \in Bad : n <= y
    <3>1. Bad \in SUBSET Nat
      OBVIOUS
    <3> HIDE DEF Bad
    <3> QED BY <2>1, <3>1, LeastNat
  <2>n. n \in 0 .. l /\ h[n] # f[n]
    OBVIOUS
  <2>3. n # 0
    BY <1>f, <1>h, <2>n
  <2>4. n \in 1 .. l /\ n \in 1 .. j /\ n - 1 \in 0 .. l /\ ~(n <= n - 1)
    BY <1>j, <2>3, <2>n
  <2>5. h[n - 1] = f[n - 1]
    BY <2>2, <2>4
  <2>6. h[n] = h[n - 1] \o ts[n] /\ f[n] = f[n - 1] \o qs[n] /\ ts[n] = qs[n]
    BY <1>0, <1>f, <1>h, <2>4
  <2> QED BY <2>5, <2>6, <2>n
<1>x. PICK x \in Seq(S) : x = f[l]
  BY <1>f
<1>y. h[l] = x
  BY <1>1, <1>x
<1>2. \A n \in 0 .. m : h[l + n] = x \o g[n]
  <2> DEFINE Bad == {n \in 0 .. m : h[l + n] # x \o g[n]}
  <2>1. SUFFICES ASSUME Bad # {} PROVE FALSE
    OBVIOUS
  <2>2. PICK n \in Bad : \A y \in Bad : n <= y
    <3>1. Bad \in SUBSET Nat
      OBVIOUS
    <3> HIDE DEF Bad
    <3> QED BY <2>1, <3>1, LeastNat
  <2>n. n \in 0 .. m /\ h[l + n] # x \o g[n]
    OBVIOUS
  <2>e. x \o <<>> = x /\ l + 0 = l
    OBVIOUS
  <2>3. n # 0
    BY <1>y, <1>g, <2>n, <2>e
  <2>4. /\ n \in 1 .. m /\ l + n \in 1 .. j /\ n - 1 \in 0 .. m /\ ~(n <= n - 1)
        /\ l + (n - 1) = (l + n) - 1
    BY <1>j, <2>3, <2>n
  <2>5. h[l + (n - 1)] = x \o g[n - 1]
    BY <2>2, <2>4
  <2>6. h[l + n] = h[l + (n - 1)] \o ts[l + n]
    <3>1. h[l + n] = h[(l + n) - 1] \o ts[l + n]
      BY <1>h, <2>4
    <3> QED BY <2>4, <3>1
  <2>7. ts[l + n] = rs[n] /\ rs[n] \in Seq(S) /\ g[n - 1] \in Seq(S)
        /\ g[n] = g[n - 1] \o rs[n]
    BY <1>0, <1>g, <2>4
  <2>u. PICK u \in Seq(S) : u = g[n - 1]
    BY <2>7
  <2>v. PICK v \in Seq(S) : v = rs[n]
    BY <2>7
  <2>m. x \in Seq(S) /\ u \in Seq(S) /\ v \in Seq(S)
    OBVIOUS
  <2>8. (x \o u) \o v = x \o (u \o v)
    BY Zenon, <1>a, <2>m
  <2>9. h[l + n] = x \o g[n]
    BY <2>5, <2>6, <2>7, <2>8, <2>u, <2>v
  <2> QED BY <2>9, <2>n
<1>3. h[j] = x \o g[m]
  BY SMTT(40), <1>2, <1>j
<1> QED BY <1>3, <1>x, <1>f, <1>g, <1>h, <1>t

LEMMA ConcatAppend ==
    ASSUME NEW S, NEW qs \in Seq(Seq(S)), NEW x \in Seq(S)
    PROVE  Concat(Append(qs, x)) = Concat(qs) \o x
<1>u. PICK U : U = Seq(S)
  OBVIOUS
<1>q. PICK q \in Seq(U) : q = qs
  BY <1>u
<1>x. PICK y \in U : y = x
  BY <1>u
<1>o. PICK o : o = <<y>>
  OBVIOUS
<1>1. o \in Seq(U) /\ Append(q, y) = q \o o
  BY <1>o
<1>2. o \in Seq(Seq(S))
  BY <1>1, <1>u
<1>3. Concat(qs \o o) = Concat(qs) \o Concat(o)
  BY <1>2, ConcatBoth
<1>4. Concat(o) = x
  BY <1>o, <1>x, ConcatOne
<1> QED BY <1>1, <1>3, <1>4, <1>q, <1>x

\* One element each.
LEMMA ConcatSingles ==
    ASSUME NEW S, NEW c \in Seq(S), NEW qs, qs = [i \in DOMAIN c |-> <<c[i]>>]
    PROVE  qs \in Seq(Seq(S)) /\ Concat(qs) = c
<1>l. PICK l \in Nat : l = Len(c)
  OBVIOUS
<1>0. qs \in Seq(Seq(S)) /\ Len(qs) = l /\ \A n \in 1 .. l : qs[n] = <<c[n]>>
  BY <1>l
<1>k. PICK k \in [0 .. l -> Seq(S)] :
        k[0] = <<>> /\ (\A n \in 1 .. l : k[n] = k[n - 1] \o qs[n]) /\ Concat(qs) = k[l]
  BY <1>0, ConcatFrom
<1>1. \A n \in 0 .. l : k[n] = SubSeq(c, 1, n)
  <2> DEFINE Bad == {n \in 0 .. l : k[n] # SubSeq(c, 1, n)}
  <2>1. SUFFICES ASSUME Bad # {} PROVE FALSE
    OBVIOUS
  <2>2. PICK n \in Bad : \A y \in Bad : n <= y
    <3>1. Bad \in SUBSET Nat
      OBVIOUS
    <3> HIDE DEF Bad
    <3> QED BY <2>1, <3>1, LeastNat
  <2>n. n \in 0 .. l /\ k[n] # SubSeq(c, 1, n)
    OBVIOUS
  <2>z. SubSeq(c, 1, 0) = <<>>
    OBVIOUS
  <2>3. n # 0
    BY <1>k, <2>n, <2>z
  <2>4. n \in 1 .. l /\ n - 1 \in 0 .. l /\ ~(n <= n - 1)
    BY <2>3, <2>n
  <2>5. k[n - 1] = SubSeq(c, 1, n - 1)
    BY <2>2, <2>4
  <2>6. k[n] = k[n - 1] \o qs[n] /\ qs[n] = <<c[n]>>
    BY <1>0, <1>k, <2>4
  <2>7. SubSeq(c, 1, n) = SubSeq(c, 1, n - 1) \o <<c[n]>>
    BY <1>l, <2>4
  <2> QED BY <2>5, <2>6, <2>7, <2>n
<1>2. SubSeq(c, 1, l) = c /\ l \in 0 .. l
  BY <1>l
<1> QED BY <1>0, <1>1, <1>2, <1>k

\* c has the sequences of a, then those of b.
Spliced(c, a, b) ==
    /\ Len(c) = Len(a) + Len(b)
    /\ \A i \in 1 .. Len(a) : c[i] = a[i]
    /\ \A i \in 1 .. Len(b) : c[Len(a) + i] = b[i]

LEMMA ConcatSpliced ==
    ASSUME NEW S, NEW a \in Seq(Seq(S)), NEW b \in Seq(Seq(S)), NEW c \in Seq(Seq(S)),
           Spliced(c, a, b)
    PROVE  Concat(c) = Concat(a) \o Concat(b)
<1>d. PICK d : d = a \o b
  OBVIOUS
<1>1. /\ d \in Seq(Seq(S)) /\ Len(d) = Len(a) + Len(b)
      /\ \A i \in 1 .. Len(a) + Len(b) : d[i] = IF i <= Len(a) THEN a[i] ELSE b[i - Len(a)]
  BY <1>d
<1>n. Len(a) \in Nat /\ Len(b) \in Nat
  OBVIOUS
<1>2. ASSUME NEW i \in 1 .. Len(c) PROVE c[i] = d[i]
  <2>0. i \in 1 .. (Len(a) + Len(b)) /\ d[i] = IF i <= Len(a) THEN a[i] ELSE b[i - Len(a)]
    BY <1>1 DEF Spliced
  <2>1. CASE i <= Len(a)
    <3>1. i \in 1 .. Len(a)
      BY <1>n, <2>0, <2>1
    <3>2. c[i] = a[i]
      BY <3>1 DEF Spliced
    <3> QED BY <2>0, <2>1, <3>2
  <2>2. CASE ~(i <= Len(a))
    <3>k. PICK k : k = i - Len(a)
      OBVIOUS
    <3>1. k \in 1 .. Len(b) /\ i = Len(a) + k
      BY <1>n, <2>0, <2>2, <3>k
    <3>2. c[Len(a) + k] = b[k]
      BY <3>1 DEF Spliced
    <3>3. d[i] = b[k]
      BY <2>0, <2>2, <3>k
    <3> QED BY <3>1, <3>2, <3>3
  <2> QED BY <2>1, <2>2
<1>3. Len(c) = Len(d)
  BY <1>1 DEF Spliced
<1>4. c = d
  BY Zenon, <1>1, <1>2, <1>3, SeqEqual
<1> QED BY <1>4, <1>d, ConcatBoth
=============================================================================
