--------------------------- MODULE Listing_proofs ---------------------------
(***************************************************************************)
(* What the comprehensions of Listing do, for lists of any length.  The    *)
(* prover has no induction over lists, so counting replaces it: a finite   *)
(* set of places in a line is numbered by how many there are up to each.   *)
(***************************************************************************)
EXTENDS Listing, TLAPS, FiniteSetTheorems, FunctionTheorems, SequenceTheorems

(* The numbers from 1 to n are n. *)
LEMMA Upto == ASSUME NEW n \in Nat PROVE IsFiniteSet(1..n) /\ Cardinality(1..n) = n
BY FS_Interval

(* A finite set whose members are in a line, each with those up to it: how many there are up to
   a member numbers the members from 1 to the size of the set. *)
LEMMA Numbering ==
  ASSUME NEW S, IsFiniteSet(S), NEW upTo \in [S -> SUBSET S],
         \A i \in S : i \in upTo[i],
         \A i, k \in S : i # k => \/ upTo[i] \subseteq upTo[k] /\ k \notin upTo[i]
                                  \/ upTo[k] \subseteq upTo[i] /\ i \notin upTo[k]
  PROVE  /\ Cardinality(S) \in Nat
         /\ \A i \in S : Cardinality(upTo[i]) \in 1..Cardinality(S)
         /\ \A i, k \in S : Cardinality(upTo[i]) = Cardinality(upTo[k]) => i = k
         /\ \A i, k \in S : upTo[i] \subseteq upTo[k] => Cardinality(upTo[i]) <= Cardinality(upTo[k])
         /\ \A n \in 1..Cardinality(S) : \E i \in S : Cardinality(upTo[i]) = n
<1> DEFINE M == Cardinality(S)
           number == [i \in S |-> Cardinality(upTo[i])]
<1>1. M \in Nat
  BY FS_CardinalityType
<1>2. \A i \in S : IsFiniteSet(upTo[i]) /\ Cardinality(upTo[i]) \in 1..M
  <2> SUFFICES ASSUME NEW i \in S PROVE IsFiniteSet(upTo[i]) /\ Cardinality(upTo[i]) \in 1..M
    OBVIOUS
  <2>1. upTo[i] \in SUBSET S /\ i \in upTo[i]
    OBVIOUS
  <2>2. IsFiniteSet(upTo[i]) /\ Cardinality(upTo[i]) <= M /\ Cardinality(upTo[i]) \in Nat
    BY <2>1, FS_Subset, FS_CardinalityType
  <2>3. Cardinality(upTo[i]) # 0
    BY <2>1, <2>2, FS_EmptySet
  <2> QED
    BY <1>1, <2>2, <2>3
<1>3. \A i, k \in S : upTo[i] \subseteq upTo[k] => Cardinality(upTo[i]) <= Cardinality(upTo[k])
  BY <1>2, FS_Subset
<1>4. ASSUME NEW i \in S, NEW k \in S, upTo[i] \subseteq upTo[k], k \notin upTo[i]
      PROVE  Cardinality(upTo[i]) # Cardinality(upTo[k])
  <2>1. k \in upTo[k]
    OBVIOUS
  <2> QED
    BY <1>2, <1>4, <2>1, FS_Subset
<1>5. \A i, k \in S : Cardinality(upTo[i]) = Cardinality(upTo[k]) => i = k
  BY <1>4
<1>6. number \in Injection(S, 1..M)
  <2>1. number \in [S -> 1..M]
    BY <1>2
  <2> QED
    BY <1>5, <2>1 DEF Injection, IsInjective
<1>7. IsFiniteSet(1..M) /\ Cardinality(1..M) = M
  BY <1>1, Upto
<1>8. number \in Surjection(S, 1..M)
  BY <1>6, <1>7, FS_Injection
<1>9. \A n \in 1..M : \E i \in S : Cardinality(upTo[i]) = n
  BY <1>8 DEF Surjection
<1> QED
  BY <1>1, <1>2, <1>3, <1>5, <1>9

(* Ranked sorts: every place once, the keys from the greatest down, and what is sorted already
   stays as it is. *)
LEMMA Ranking ==
  ASSUME NEW keys \in Seq(Nat)
  PROVE  /\ Ranked(keys) \in Seq(1..Len(keys)) /\ Len(Ranked(keys)) = Len(keys)
         /\ \A i, k \in 1..Len(keys) : Ranked(keys)[i] = Ranked(keys)[k] => i = k
         /\ \A i \in 1..Len(keys) : \E k \in 1..Len(keys) : Ranked(keys)[k] = i
         /\ \A i, k \in 1..Len(keys) : i < k => keys[Ranked(keys)[i]] >= keys[Ranked(keys)[k]]
         /\ (\A i, k \in 1..Len(keys) : i < k => keys[i] >= keys[k]) =>
               \A k \in 1..Len(keys) : Ranked(keys)[k] = k
<1> DEFINE n == Len(keys)
           S == 1..n
           upTo == [i \in S |-> {j \in S : Before(keys, j, i)}]
           R == Ranked(keys)
<1>1. n \in Nat /\ \A i \in S : keys[i] \in Nat
  OBVIOUS
<1>2. IsFiniteSet(S) /\ Cardinality(S) = n
  BY <1>1, Upto
<1>3. upTo \in [S -> SUBSET S] /\ \A i \in S : i \in upTo[i]
  BY <1>1 DEF Before
<1>4. \A i, k \in S : i # k => \/ upTo[i] \subseteq upTo[k] /\ k \notin upTo[i]
                               \/ upTo[k] \subseteq upTo[i] /\ i \notin upTo[k]
  <2> SUFFICES ASSUME NEW i \in S, NEW k \in S, i # k
               PROVE  \/ upTo[i] \subseteq upTo[k] /\ k \notin upTo[i]
                      \/ upTo[k] \subseteq upTo[i] /\ i \notin upTo[k]
    OBVIOUS
  <2>1. i \in Nat /\ k \in Nat /\ \A j \in S : j \in Nat
    BY <1>1
  <2>2. CASE Before(keys, i, k)
    <3>1. ~Before(keys, k, i)
      BY <1>1, <2>1, <2>2 DEF Before
    <3>2. \A j \in S : Before(keys, j, i) => Before(keys, j, k)
      BY <1>1, <2>1, <2>2 DEF Before
    <3> QED
      BY <3>1, <3>2
  <2>3. CASE ~Before(keys, i, k)
    <3>1. Before(keys, k, i)
      BY <1>1, <2>1, <2>3 DEF Before
    <3>2. \A j \in S : Before(keys, j, k) => Before(keys, j, i)
      BY <1>1, <2>1, <3>1 DEF Before
    <3> QED
      BY <2>3, <3>2
  <2> QED
    BY <2>2, <2>3
<1>5. /\ \A i, k \in S : Cardinality(upTo[i]) = Cardinality(upTo[k]) => i = k
      /\ \A i, k \in S : upTo[i] \subseteq upTo[k] => Cardinality(upTo[i]) <= Cardinality(upTo[k])
      /\ \A m \in 1..n : \E i \in S : Cardinality(upTo[i]) = m
      /\ \A i \in S : Cardinality(upTo[i]) \in 1..n
  <2> HIDE DEF upTo, S
  <2>1. /\ \A i \in S : Cardinality(upTo[i]) \in 1..Cardinality(S)
        /\ \A i, k \in S : Cardinality(upTo[i]) = Cardinality(upTo[k]) => i = k
        /\ \A i, k \in S : upTo[i] \subseteq upTo[k] => Cardinality(upTo[i]) <= Cardinality(upTo[k])
        /\ \A m \in 1..Cardinality(S) : \E i \in S : Cardinality(upTo[i]) = m
    BY <1>2, <1>3, <1>4, Numbering
  <2> QED
    BY <1>2, <2>1
<1>6. /\ R = [k \in S |-> CHOOSE i \in S : Cardinality({j \in S : Before(keys, j, i)}) = k]
      /\ \A i \in S : upTo[i] = {j \in S : Before(keys, j, i)}
  BY DEF Ranked
<1> HIDE DEF upTo, R
<1>7. \A k \in S : R[k] \in S /\ Cardinality(upTo[R[k]]) = k
  <2> SUFFICES ASSUME NEW k \in S PROVE R[k] \in S /\ Cardinality(upTo[R[k]]) = k
    OBVIOUS
  <2>1. PICK i \in S : Cardinality(upTo[i]) = k
    BY <1>5
  <2>2. R[k] = CHOOSE m \in S : Cardinality({j \in S : Before(keys, j, m)}) = k
    BY <1>6
  <2>3. Cardinality({j \in S : Before(keys, j, i)}) = k
    BY <1>6, <2>1
  <2> HIDE DEF S
  <2>4. R[k] \in S /\ Cardinality({j \in S : Before(keys, j, R[k])}) = k
    BY <2>2, <2>3
  <2> QED
    BY <1>6, <2>4
<1>8. R \in Seq(S) /\ Len(R) = n
  <2> DEFINE value(k) == CHOOSE i \in S : Cardinality({j \in S : Before(keys, j, i)}) = k
  <2>0. R = [k \in S |-> value(k)]
    BY <1>6
  <2> HIDE DEF value
  <2>1. R = [k \in S |-> R[k]]
    BY <2>0
  <2> QED
    BY <1>1, <1>7, <2>1
<1>9. \A i, k \in S : R[i] = R[k] => i = k
  <2> HIDE DEF S
  <2> QED BY <1>7
<1>10. \A i \in S : \E k \in S : R[k] = i
  <2> SUFFICES ASSUME NEW i \in S PROVE \E k \in S : R[k] = i
    OBVIOUS
  <2>1. Cardinality(upTo[i]) \in S
    BY <1>5
  <2>2. R[Cardinality(upTo[i])] \in S /\ Cardinality(upTo[R[Cardinality(upTo[i])]]) = Cardinality(upTo[i])
    BY <1>7, <2>1
  <2>3. R[Cardinality(upTo[i])] = i
    BY <1>5, <2>2
  <2> QED
    BY <2>1, <2>3
<1>11. ASSUME NEW i \in S, NEW k \in S, i < k PROVE keys[R[i]] >= keys[R[k]]
  <2>1. R[i] \in S /\ R[k] \in S /\ keys[R[i]] \in Nat /\ keys[R[k]] \in Nat
    BY <1>1, <1>7
  <2>2. ASSUME keys[R[i]] < keys[R[k]] PROVE FALSE
    <3>1. \A j \in S : Before(keys, j, R[k]) => Before(keys, j, R[i])
      <4> SUFFICES ASSUME NEW j \in S, Before(keys, j, R[k]) PROVE Before(keys, j, R[i])
        OBVIOUS
      <4>0. keys[j] \in Nat
        BY <1>1
      <4>1. keys[j] >= keys[R[k]]
        BY <2>1, <4>0 DEF Before
      <4> QED
        BY <2>1, <2>2, <4>0, <4>1 DEF Before
    <3>2. upTo[R[k]] \subseteq upTo[R[i]]
      BY <2>1, <3>1 DEF upTo
    <3>3. Cardinality(upTo[R[k]]) <= Cardinality(upTo[R[i]])
      BY <1>5, <2>1, <3>2
    <3> QED
      BY <1>1, <1>7, <1>11, <3>3
  <2> QED
    BY <2>1, <2>2
<1>12. ASSUME \A i, k \in S : i < k => keys[i] >= keys[k], NEW k \in S PROVE R[k] = k
  <2>1. R[k] \in S /\ Cardinality(upTo[R[k]]) = k
    BY <1>7
  <2>2. upTo[R[k]] = 1..R[k]
    <3>1. \A j \in S : Before(keys, j, R[k]) <=> j <= R[k]
      BY <1>1, <1>12, <2>1 DEF Before
    <3>2. upTo[R[k]] = {j \in S : j <= R[k]}
      BY <2>1, <3>1 DEF upTo
    <3>3. R[k] \in 1..n
      BY <2>1
    <3> QED
      BY <1>1, <3>2, <3>3
  <2>3. R[k] \in Nat /\ R[k] >= 1
    BY <1>1, <2>1
  <2>4. Cardinality(1..R[k]) = R[k]
    BY <2>3, Upto
  <2> QED
    BY <2>1, <2>2, <2>4
<1> QED
  BY <1>8, <1>9, <1>10, <1>11, <1>12 DEF R
(* The places of a list that are kept can be counted off: the k-th one has k of them up to
   it, and every one has its number. *)
LEMMA Counting ==
  ASSUME NEW N \in Nat, NEW at \in SUBSET (1..N)
  PROVE  /\ IsFiniteSet(at) /\ Cardinality(at) \in 0..N
         /\ \A k \in 1..Cardinality(at) : /\ Nth(at, k) \in at
                                          /\ Cardinality({j \in at : j <= Nth(at, k)}) = k
         /\ \A i \in at : \E k \in 1..Cardinality(at) : Nth(at, k) = i
<1>1. IsFiniteSet(1..N) /\ Cardinality(1..N) = N
  BY Upto
<1>2. IsFiniteSet(at) /\ Cardinality(at) \in Nat /\ Cardinality(at) <= N
  BY <1>1, FS_Subset, FS_CardinalityType
<1> DEFINE P == at
           M == Cardinality(P)
           upTo == [i \in P |-> {j \in P : j <= i}]
<1>3. IsFiniteSet(P) /\ upTo \in [P -> SUBSET P] /\ (\A i \in P : i \in upTo[i]) /\ \A j \in P : j \in Nat
  BY <1>2
<1> HIDE DEF P
<1>4. \A i, k \in P : i # k => \/ upTo[i] \subseteq upTo[k] /\ k \notin upTo[i]
                               \/ upTo[k] \subseteq upTo[i] /\ i \notin upTo[k]
  <2> SUFFICES ASSUME NEW i \in P, NEW k \in P, i # k
               PROVE  \/ upTo[i] \subseteq upTo[k] /\ k \notin upTo[i]
                      \/ upTo[k] \subseteq upTo[i] /\ i \notin upTo[k]
    OBVIOUS
  <2>1. \A j \in P : j \in Nat
    BY <1>3
  <2>2. i < k \/ k < i
    BY <2>1
  <2> QED
    BY <2>1, <2>2
<1>5. /\ \A i \in P : Cardinality(upTo[i]) \in 1..M
      /\ \A i, k \in P : Cardinality(upTo[i]) = Cardinality(upTo[k]) => i = k
      /\ \A k \in 1..M : \E i \in P : Cardinality(upTo[i]) = k
  <2> HIDE DEF upTo
  <2> QED
    BY <1>3, <1>4, Numbering
<1>6. \A k \in 1..M : Nth(P, k) \in P /\ Cardinality({j \in P : j <= Nth(P, k)}) = k
  <2> SUFFICES ASSUME NEW k \in 1..M PROVE Nth(P, k) \in P /\ Cardinality({j \in P : j <= Nth(P, k)}) = k
    OBVIOUS
  <2>1. \A i \in P : upTo[i] = {j \in P : j <= i}
    OBVIOUS
  <2> HIDE DEF upTo, M
  <2>2. \E i \in P : Cardinality({j \in P : j <= i}) = k
    BY <1>5, <2>1
  <2> QED
    BY <2>2, Zenon DEF Nth
<1>7. \A i \in P : \E k \in 1..M : Nth(P, k) = i
  <2> SUFFICES ASSUME NEW i \in P PROVE \E k \in 1..M : Nth(P, k) = i
    OBVIOUS
  <2> DEFINE k == Cardinality(upTo[i])
  <2>1. k \in 1..M
    BY <1>5
  <2>2. Nth(P, k) \in P /\ Cardinality(upTo[Nth(P, k)]) = k
    BY <1>6, <2>1
  <2>3. Nth(P, k) = i
    BY <1>5, <2>2
  <2> QED
    BY <2>1, <2>3
<1> QED
  BY <1>2, <1>6, <1>7 DEF P

LEMMA Numbered ==
  ASSUME NEW N \in Nat, NEW at \in SUBSET (1..N)
  PROVE  IsFiniteSet(at) /\ Cardinality(at) \in 0..N /\ \A k \in 1..Cardinality(at) : Nth(at, k) \in at
BY Counting

(* Kept: a list of the elements that are kept, all of them, each once if it was there once. *)
LEMMA KeptIsPart ==
  ASSUME NEW S, NEW s \in Seq(S), NEW keep
  PROVE  /\ Kept(s, keep) \in Seq(S) /\ Len(Kept(s, keep)) <= Len(s)
         /\ Len(Kept(s, keep)) = Cardinality(Places(s, keep))
         /\ \A k \in 1..Len(Kept(s, keep)) : \E i \in 1..Len(s) : Kept(s, keep)[k] = s[i] /\ s[i] \in keep
         /\ \A i \in 1..Len(s) : s[i] \in keep => \E k \in 1..Len(Kept(s, keep)) : Kept(s, keep)[k] = s[i]
         /\ (\A i, j \in 1..Len(s) : s[i] = s[j] => i = j) =>
               \A i, j \in 1..Len(Kept(s, keep)) : Kept(s, keep)[i] = Kept(s, keep)[j] => i = j
<1> DEFINE at == Places(s, keep)
           M == Cardinality(at)
           t == Kept(s, keep)
<1>1. Len(s) \in Nat /\ at \in SUBSET (1..Len(s))
  BY DEF Places
<1>2. /\ IsFiniteSet(at) /\ Cardinality(at) \in 0..Len(s)
      /\ \A k \in 1..M : Nth(at, k) \in at /\ Cardinality({j \in at : j <= Nth(at, k)}) = k
      /\ \A i \in at : \E k \in 1..M : Nth(at, k) = i
  BY <1>1, Counting
<1>3. t = [k \in 1..M |-> s[Nth(at, k)]] /\ M \in Nat
  BY <1>2 DEF Kept
<1>4. \A k \in 1..M : Nth(at, k) \in 1..Len(s) /\ s[Nth(at, k)] \in keep /\ s[Nth(at, k)] \in S
  <2>1. \A i \in at : i \in 1..Len(s) /\ s[i] \in keep
    BY DEF Places
  <2>2. \A i \in 1..Len(s) : s[i] \in S
    OBVIOUS
  <2> HIDE DEF at
  <2> QED
    BY <1>2, <2>1, <2>2
<1>5. t \in Seq(S) /\ Len(t) = M
  BY <1>3, <1>4
<1>6. \A i \in 1..Len(s) : s[i] \in keep => i \in at
  BY DEF Places
<1>7. \A i \in 1..Len(s) : s[i] \in keep => \E k \in 1..Len(t) : t[k] = s[i]
  <2> HIDE DEF at, t
  <2> QED BY <1>2, <1>3, <1>5, <1>6
<1>8. ASSUME \A i, j \in 1..Len(s) : s[i] = s[j] => i = j, NEW i \in 1..Len(t), NEW j \in 1..Len(t), t[i] = t[j] PROVE i = j
  <2>1. s[Nth(at, i)] = s[Nth(at, j)]
    BY <1>3, <1>5, <1>8
  <2>2. Nth(at, i) = Nth(at, j)
    BY <1>4, <1>5, <1>8, <2>1
  <2>3. Cardinality({l \in at : l <= Nth(at, i)}) = i /\ Cardinality({l \in at : l <= Nth(at, j)}) = j
    BY <1>2, <1>5
  <2> HIDE DEF at
  <2> QED
    BY <2>2, <2>3
<1> HIDE DEF at, t
<1> QED
  BY <1>1, <1>2, <1>3, <1>4, <1>5, <1>7, <1>8 DEF at, t
=============================================================================
