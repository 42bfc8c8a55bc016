------------------------ MODULE ConfigPipelineProofs ------------------------
(***************************************************************************)
(* Theorems on ConfigPipeline, for any sources, service overrides, feature *)
(* gates and Secrets, and any order of syncs, rolls, mounts and reads.     *)
(***************************************************************************)
EXTENDS ConfigPipeline, FiniteSetTheorems, WellFoundedInduction, TLAPS

(* Most leaves are first-order; those that need arithmetic or records cite SMT. *)
USE Zenon

-----------------------------------------------------------------------------
(* Sorting *)

\* Nth enumerates a finite set in the order of the ranks.
LEMMA NthOf ==
  ASSUME NEW S, IsFiniteSet(S), NEW rank \in [S -> Nat],
         \A i, j \in S : rank[i] = rank[j] => i = j
  PROVE  /\ \A n \in 1 .. Cardinality(S) : Nth(S, rank, n) \in S
         /\ \A m, n \in 1 .. Cardinality(S) :
              m < n => rank[Nth(S, rank, m)] < rank[Nth(S, rank, n)]
         /\ \A i \in S : \E n \in 1 .. Cardinality(S) : i = Nth(S, rank, n)
<1> DEFINE Below(i) == {j \in S : rank[j] <= rank[i]}
           place == [i \in S |-> Cardinality(Below(i))]
           c == Cardinality(S)
<1>1. c \in Nat
  BY FS_CardinalityType
<1>2. ASSUME NEW i \in S
      PROVE  /\ IsFiniteSet(Below(i)) /\ Cardinality(Below(i)) \in Nat
             /\ Cardinality(Below(i)) <= c /\ Cardinality(Below(i)) # 0
  <2>1. Below(i) \subseteq S /\ i \in Below(i)
    BY SMT
  <2>2. IsFiniteSet(Below(i)) /\ Cardinality(Below(i)) <= c
    BY <2>1, FS_Subset
  <2>3. QED
    BY <2>1, <2>2, FS_CardinalityType, FS_EmptySet
<1>3. ASSUME NEW i \in S, NEW j \in S, rank[i] < rank[j]
      PROVE  Cardinality(Below(i)) < Cardinality(Below(j))
  <2>1. Below(i) \subseteq Below(j) /\ j \in Below(j) /\ j \notin Below(i)
    BY <1>3, SMT
  <2>2. Below(i) # Below(j)
    BY <2>1
  <2>3. IsFiniteSet(Below(j))
    BY <1>2
  <2> HIDE DEF Below
  <2>4. /\ Cardinality(Below(i)) <= Cardinality(Below(j))
        /\ Cardinality(Below(i)) = Cardinality(Below(j)) => Below(i) = Below(j)
    BY <2>1, <2>3, FS_Subset
  <2>5. QED
    BY <2>2, <2>4, <1>2, SMT
<1>4. place \in [S -> 1 .. c]
  <2> HIDE DEF Below
  <2> QED  BY <1>1, <1>2, SMT
<1>5. \A i, j \in S : place[i] = place[j] => i = j
  <2> SUFFICES ASSUME NEW i \in S, NEW j \in S, place[i] = place[j] PROVE i = j
    OBVIOUS
  <2>1. Cardinality(Below(i)) = Cardinality(Below(j))
    OBVIOUS
  <2> HIDE DEF Below
  <2>2. ~(rank[i] < rank[j]) /\ ~(rank[j] < rank[i])
    BY <2>1, <1>2, <1>3, SMT
  <2>3. rank[i] \in Nat /\ rank[j] \in Nat
    OBVIOUS
  <2>4. QED
    BY <2>2, <2>3, SMT
<1>6. place \in Surjection(S, 1 .. c)
  <2> HIDE DEF place
  <2>1. place \in Injection(S, 1 .. c)
    BY <1>4, <1>5 DEF Injection, IsInjective
  <2>2. IsFiniteSet(1 .. c) /\ Cardinality(1 .. c) = c
    BY <1>1, FS_Interval, SMT
  <2>3. QED
    BY <2>1, <2>2, FS_Injection
<1>7. ASSUME NEW n \in 1 .. c PROVE Nth(S, rank, n) \in S /\ place[Nth(S, rank, n)] = n
  <2>1. PICK i \in S : place[i] = n
    <3> HIDE DEF place
    <3> QED  BY <1>6 DEF Surjection
  <2>2. Cardinality(Below(i)) = n
    BY <2>1
  <2>3. Nth(S, rank, n) = CHOOSE x \in S : Cardinality(Below(x)) = n
    BY DEF Nth
  <2> HIDE DEF Below
  <2>4. QED
    BY <2>2, <2>3
<1> HIDE DEF Below
<1>8. ASSUME NEW m \in 1 .. c, NEW n \in 1 .. c, m < n
      PROVE  rank[Nth(S, rank, m)] < rank[Nth(S, rank, n)]
  <2>1. Nth(S, rank, m) \in S /\ Nth(S, rank, n) \in S
    BY <1>7
  <2>2. place[Nth(S, rank, m)] < place[Nth(S, rank, n)]
    BY <1>7, <1>8
  <2>3. QED
    <3> DEFINE x == Nth(S, rank, m)
               y == Nth(S, rank, n)
    <3>1. x \in S /\ y \in S /\ place[x] < place[y] /\ rank[x] \in Nat /\ rank[y] \in Nat
      BY <2>1, <2>2
    <3> HIDE DEF x, y
    <3>2. ~(rank[y] < rank[x])
      BY <3>1, <1>3, <1>2, SMT
    <3>3. rank[x] # rank[y]
      BY <3>1, <1>1, <1>4, SMT
    <3>4. rank[x] < rank[y]
      BY <3>1, <3>2, <3>3, SMT
    <3> QED  BY <3>4 DEF x, y
<1>9. ASSUME NEW i \in S PROVE \E n \in 1 .. c : i = Nth(S, rank, n)
  <2>1. place[i] \in 1 .. c
    BY <1>4
  <2>2. Nth(S, rank, place[i]) \in S /\ place[Nth(S, rank, place[i])] = place[i]
    BY <1>7, <2>1
  <2>3. i = Nth(S, rank, place[i])
    BY <2>2, <1>5
  <2>4. QED
    BY <2>1, <2>3
<1>10. QED
  BY <1>7, <1>8, <1>9

\* A set of numbers has a least one.
LEMMA Least ==
  ASSUME NEW T, T \subseteq Nat, T # {}
  PROVE  \E x \in T : \A y \in T : x <= y
<1>1. PICK x \in T : \A y \in T : ~(<<y, x>> \in OpToRel(<, Nat))
  BY NatLessThanWellFounded, WFMin
<1>2. ASSUME NEW y \in T PROVE x <= y
  <2>1. x \in Nat /\ y \in Nat
    OBVIOUS
  <2>2. ASSUME y < x PROVE FALSE
    <3>1. <<y, x>> \in OpToRel(<, Nat)
      BY <2>1, <2>2 DEF OpToRel
    <3> QED  BY <1>1, <3>1
  <2>3. QED
    BY <2>1, <2>2, SMT
<1>3. QED
  BY <1>2

\* The families are as the user gave them, repetitions apart.
LEMMA DistinctKeeps ==
  ASSUME NEW A, NEW list \in Seq(A)
  PROVE  Range(Distinct(list)) = Range(list)
<1> DEFINE first == {i \in 1 .. Len(list) : \A j \in 1 .. (i - 1) : list[j] # list[i]}
           rank == [i \in first |-> i]
           c == Cardinality(first)
<1>1. Len(list) \in Nat /\ DOMAIN list = 1 .. Len(list)
  BY SMT
<1>2. first \subseteq 1 .. Len(list) /\ IsFiniteSet(first)
  <2>1. first \in SUBSET (1 .. Len(list)) /\ IsFiniteSet(1 .. Len(list))
    BY <1>1, FS_Interval, SMT
  <2> HIDE DEF first
  <2> QED  BY <2>1, FS_Subset
<1>3. \A i \in 1 .. Len(list) : \E k \in first : list[k] = list[i]
  <2> SUFFICES ASSUME NEW i \in 1 .. Len(list) PROVE \E k \in first : list[k] = list[i]
    OBVIOUS
  <2> DEFINE T == {k \in 1 .. Len(list) : list[k] = list[i]}
  <2>1. T \subseteq Nat /\ i \in T
    BY <1>1, SMT
  <2>2. PICK k \in T : \A y \in T : k <= y
    <3> HIDE DEF T
    <3> QED  BY <2>1, Least
  <2>3. ASSUME NEW j \in 1 .. (k - 1), list[j] = list[k] PROVE FALSE
    <3>1. j \in 1 .. Len(list) /\ list[j] = list[i] /\ j < k
      BY <1>1, <2>3, SMT
    <3>2. k <= j
      BY <3>1, <2>2
    <3> QED  BY <3>1, <3>2, <1>1, SMT
  <2>4. k \in first /\ list[k] = list[i]
    BY <2>3
  <2> QED  BY <2>4
<1>4. Distinct(list) = [n \in 1 .. c |-> list[Nth(first, rank, n)]]
  BY DEF Distinct
<1>5. rank \in [first -> Nat] /\ \A i, j \in first : rank[i] = rank[j] => i = j
  BY <1>1, <1>2, SMT
<1> HIDE DEF first, rank
<1>6. /\ \A n \in 1 .. c : Nth(first, rank, n) \in first
      /\ \A i \in first : \E n \in 1 .. c : i = Nth(first, rank, n)
  BY <1>2, <1>5, NthOf
<1>7. Range(Distinct(list)) = {list[Nth(first, rank, n)] : n \in 1 .. c}
  BY <1>4 DEF Range
<1>8. Range(list) = {list[i] : i \in 1 .. Len(list)}
  BY <1>1 DEF Range
<1>9. ASSUME NEW x \in Range(list) PROVE x \in Range(Distinct(list))
  <2>1. PICK i \in 1 .. Len(list) : x = list[i]
    BY <1>8
  <2>2. PICK k \in first : list[k] = x
    BY <1>3, <2>1
  <2>3. PICK n \in 1 .. c : k = Nth(first, rank, n)
    BY <1>6
  <2> QED  BY <1>7, <2>2, <2>3
<1>10. ASSUME NEW x \in Range(Distinct(list)) PROVE x \in Range(list)
  BY <1>2, <1>6, <1>7, <1>8
<1>11. QED
  BY <1>9, <1>10

\* The rank of a name is its place among the names.
LEMMA Ranks ==
  /\ \A x \in Range(SectionNames) : NameRank(x) \in Nat /\ NameRank(x) >= 1
  /\ \A x, y \in Range(SectionNames) : NameRank(x) = NameRank(y) => x = y
  /\ "Global" \in Range(SectionNames) /\ NameRank("Global") = 1
<1>1. Len(SectionNames) \in Nat /\ DOMAIN SectionNames = 1 .. Len(SectionNames) /\ 1 \in 1 .. Len(SectionNames)
  BY NamesAssumption, SMT
<1>2. ASSUME NEW x \in Range(SectionNames)
      PROVE  NameRank(x) \in 1 .. Len(SectionNames) /\ SectionNames[NameRank(x)] = x
  <2>1. \E i \in 1 .. Len(SectionNames) : SectionNames[i] = x
    BY <1>1 DEF Range
  <2> QED  BY <2>1 DEF NameRank
<1>3. "Global" \in Range(SectionNames)
  BY <1>1, NamesAssumption DEF Range
<1>4. NameRank("Global") = 1
  BY <1>1, <1>2, <1>3, NamesAssumption
<1>5. QED
  BY <1>1, <1>2, <1>3, <1>4, SMT

(* What marshalAWSConfig writes: [Global], then the overrides by name.     *)
SortedFrom(cfg, made) ==
  LET D == DOMAIN cfg.overrides
      N == 1 + Cardinality(D)
  IN  /\ made = [n \in 1 .. N |-> made[n]]
      /\ made[1] = [name |-> "Global", keys |-> GlobalSection(cfg.global)]
      /\ \A i \in 2 .. N : /\ made[i].name \in D
                           /\ made[i] = [name |-> made[i].name, keys |-> cfg.overrides[made[i].name]]
      /\ \A i, j \in 1 .. N : i < j => NameRank(made[i].name) < NameRank(made[j].name)
      /\ \A d \in D : \E i \in 2 .. N : made[i].name = d

\* The overrides have names, and [Global] is none of them.
Named(cfg) == DOMAIN cfg.overrides \subseteq Range(SectionNames) \ {"Global"}

(* A parsed source has finitely many overrides.                            *)
LEMMA OverridesFinite ==
  ASSUME NEW cfg, Named(cfg)
  PROVE  IsFiniteSet(DOMAIN cfg.overrides) /\ Cardinality(DOMAIN cfg.overrides) \in Nat
<1> DEFINE f == [x \in Range(SectionNames) |-> NameRank(x)]
           R == 1 .. Len(SectionNames)
<1>1. Len(SectionNames) \in Nat /\ DOMAIN SectionNames = R
  BY NamesAssumption, SMT
<1>2. SectionNames \in Surjection(R, Range(SectionNames))
  BY <1>1, NamesAssumption, SMT DEF Surjection, Range
<1>3. IsFiniteSet(R)
  BY <1>1, FS_Interval, SMT
<1>4. IsFiniteSet(Range(SectionNames))
  <2> HIDE DEF R
  <2> QED  BY <1>2, <1>3, FS_Surjection
<1>5. DOMAIN cfg.overrides \in SUBSET Range(SectionNames)
  BY DEF Named
<1>6. IsFiniteSet(DOMAIN cfg.overrides)
  BY <1>4, <1>5, FS_Subset
<1>7. QED
  BY <1>6, FS_CardinalityType

(* An order of the keys of a map has each of them once.                    *)
LEMMA OrderIsOnto ==
  ASSUME NEW D, IsFiniteSet(D), NEW order \in Orders(D)
  PROVE  /\ order \in [1 .. Cardinality(D) -> D]
         /\ \A i, j \in 1 .. Cardinality(D) : order[i] = order[j] => i = j
         /\ \A d \in D : \E i \in 1 .. Cardinality(D) : order[i] = d
BY DEF Orders, Bijection, Injection, Surjection, IsInjective

(* The sections in the order they are written: Global, then the overrides  *)
(* in any order.                                                           *)
LEMMA ReflectedIs ==
  ASSUME NEW cfg, NEW c \in Nat, NEW order \in [1 .. c -> DOMAIN cfg.overrides]
  PROVE  /\ Len(Reflected(cfg, order)) = c + 1
         /\ Reflected(cfg, order)[1] = [name |-> "Global", keys |-> GlobalSection(cfg.global)]
         /\ \A i \in 1 .. c : Reflected(cfg, order)[i + 1] =
              [name |-> order[i], keys |-> cfg.overrides[order[i]]]
<1> DEFINE D == DOMAIN cfg.overrides
           g == [name |-> "Global", keys |-> GlobalSection(cfg.global)]
           o(d) == [name |-> d, keys |-> cfg.overrides[d]]
           U == {g} \cup {o(d) : d \in D}
           t == [i \in 1 .. Len(order) |-> o(order[i])]
<1>1. order \in Seq(D) /\ Len(order) = c
  BY SMT
<1>2. t \in Seq(U) /\ Len(t) = c /\ \A i \in 1 .. c : t[i] = o(order[i])
  <2> HIDE DEF o
  <2>1. t = [i \in 1 .. c |-> o(order[i])]
    BY <1>1
  <2>2. \A i \in 1 .. c : o(order[i]) \in U
    OBVIOUS
  <2> HIDE DEF U, t
  <2>3. t \in [1 .. c -> U]
    BY <2>1, <2>2
  <2> QED  BY <2>1, <2>3, SMT
<1>3. Reflected(cfg, order) = <<g>> \o t
  BY DEF Reflected
<1>4. <<g>> \in Seq(U)
  BY SMT
<1> HIDE DEF U, t, g, o
<1>5. Len(<<g>> \o t) = 1 + c /\ (<<g>> \o t)[1] = g
  BY <1>2, <1>4, SMT
<1>6. \A i \in 1 .. c : (<<g>> \o t)[i + 1] = t[i]
  BY <1>2, <1>4, SMT
<1>7. QED
  BY <1>2, <1>3, <1>5, <1>6, SMT DEF g, o

\* Whatever order Go walks the overrides in, they are written by name.
LEMMA MarshalSorts ==
  ASSUME NEW cfg, Named(cfg), NEW order \in Orders(DOMAIN cfg.overrides)
  PROVE  /\ SortedFrom(cfg, sorted(Reflected(cfg, order)))
         /\ Len(sorted(Reflected(cfg, order))) = 1 + Cardinality(DOMAIN cfg.overrides)
<1> DEFINE D == DOMAIN cfg.overrides
           c == Cardinality(D)
           S == Reflected(cfg, order)
           N == 1 .. (c + 1)
           rank == [i \in N |-> NameRank(S[i].name)]
           made == sorted(S)
           at(n) == Nth(N, rank, n)
<1>1. c \in Nat /\ IsFiniteSet(D)
  BY OverridesFinite
<1>2. /\ order \in [1 .. c -> D]
      /\ \A i, j \in 1 .. c : order[i] = order[j] => i = j
      /\ \A d \in D : \E i \in 1 .. c : order[i] = d
  BY <1>1, OrderIsOnto
<1>3. /\ Len(S) = c + 1
      /\ S[1] = [name |-> "Global", keys |-> GlobalSection(cfg.global)]
      /\ \A i \in 1 .. c : S[i + 1] = [name |-> order[i], keys |-> cfg.overrides[order[i]]]
  <2>1. c \in Nat /\ order \in [1 .. c -> DOMAIN cfg.overrides]
    BY <1>1, <1>2
  <2> HIDE DEF c
  <2> QED  BY <2>1, ReflectedIs
<1>4. made = [n \in N |-> S[at(n)]]
  BY <1>3 DEF sorted
<1> D \subseteq Range(SectionNames) \ {"Global"}
  BY DEF Named
<1> HIDE DEF D, c, S, made
<1>5. S[1].name = "Global" /\ \A i \in 2 .. (c + 1) : i - 1 \in 1 .. c /\ S[i].name = order[i - 1]
  <2>1. ASSUME NEW i \in 2 .. (c + 1) PROVE i - 1 \in 1 .. c /\ S[i].name = order[i - 1]
    <3>1. i - 1 \in 1 .. c /\ i = (i - 1) + 1
      BY <1>1, SMT
    <3>2. S[(i - 1) + 1] = [name |-> order[i - 1], keys |-> cfg.overrides[order[i - 1]]]
      BY <3>1, <1>3
    <3> QED  BY <3>1, <3>2, SMT
  <2> QED  BY <1>3, <2>1, SMT
<1>6. \A i \in N : S[i].name \in Range(SectionNames)
  <2> SUFFICES ASSUME NEW i \in N PROVE S[i].name \in Range(SectionNames)
    OBVIOUS
  <2>1. i = 1 \/ i \in 2 .. (c + 1)
    BY <1>1, SMT
  <2> QED  BY <2>1, <1>2, <1>5, Ranks
<1>7. \A i, j \in N : S[i].name = S[j].name => i = j
  <2> SUFFICES ASSUME NEW i \in N, NEW j \in N, S[i].name = S[j].name PROVE i = j
    OBVIOUS
  <2>1. (i = 1 \/ i \in 2 .. (c + 1)) /\ (j = 1 \/ j \in 2 .. (c + 1))
    BY <1>1, SMT
  <2>2. \A k \in 2 .. (c + 1) : S[k].name # "Global"
    BY <1>2, <1>5
  <2>3. CASE i = 1
    BY <2>1, <2>2, <2>3, <1>5
  <2>4. CASE j = 1
    BY <2>1, <2>2, <2>4, <1>5
  <2>5. CASE i \in 2 .. (c + 1) /\ j \in 2 .. (c + 1)
    <3>1. i - 1 = j - 1
      BY <2>5, <1>2, <1>5, SMT
    <3> QED  BY <3>1, <1>1, SMT
  <2> QED  BY <2>1, <2>3, <2>4, <2>5
<1>8. rank \in [N -> Nat] /\ \A i, j \in N : rank[i] = rank[j] => i = j
  BY <1>6, <1>7, Ranks
<1>9. IsFiniteSet(N) /\ Cardinality(N) = c + 1
  BY <1>1, FS_Interval, SMT
<1>10. \A i \in N : rank[i] = NameRank(S[i].name)
  OBVIOUS
<1> HIDE DEF rank
<1>11. /\ \A n \in N : at(n) \in N
       /\ \A m, n \in N : m < n => rank[at(m)] < rank[at(n)]
       /\ \A i \in N : \E n \in N : i = at(n)
  <2>1. N = 1 .. Cardinality(N)
    BY <1>9
  <2> HIDE DEF N
  <2>2. /\ \A n \in 1 .. Cardinality(N) : Nth(N, rank, n) \in N
        /\ \A m, n \in 1 .. Cardinality(N) : m < n => rank[Nth(N, rank, m)] < rank[Nth(N, rank, n)]
        /\ \A i \in N : \E n \in 1 .. Cardinality(N) : i = Nth(N, rank, n)
    BY <1>8, <1>9, NthOf
  <2> QED  BY <2>1, <2>2
<1> HIDE DEF at
<1>12. 1 \in N /\ rank[1] = 1 /\ \A i \in N : rank[i] >= 1 /\ rank[i] \in Nat
  BY <1>1, <1>5, <1>6, <1>10, Ranks, SMT
<1>13. at(1) = 1
  <2>1. PICK n \in N : at(n) = 1
    BY <1>11, <1>12
  <2>2. ASSUME n # 1 PROVE FALSE
    <3>1. 1 < n
      BY <1>1, <2>2, SMT
    <3>2. rank[at(1)] < 1
      BY <3>1, <2>1, <1>11, <1>12
    <3>3. at(1) \in N
      BY <1>11, <1>12
    <3> QED  BY <3>2, <3>3, <1>12, SMT
  <2> QED  BY <2>1, <2>2
<1>14. \A n \in 2 .. (c + 1) : n \in N /\ at(n) \in 2 .. (c + 1)
  <2> SUFFICES ASSUME NEW n \in 2 .. (c + 1) PROVE n \in N /\ at(n) \in 2 .. (c + 1)
    OBVIOUS
  <2>1. n \in N /\ 1 < n
    BY <1>1, SMT
  <2>2. rank[at(1)] < rank[at(n)] /\ at(n) \in N
    BY <2>1, <1>11, <1>12
  <2>3. at(n) # 1
    BY <2>2, <1>12, <1>13, SMT
  <2> QED  BY <2>1, <2>2, <2>3, <1>1, SMT
<1>15. \A n \in N : made[n] = S[at(n)]
  BY <1>4
<1>16. made[1] = [name |-> "Global", keys |-> GlobalSection(cfg.global)]
  BY <1>3, <1>12, <1>13, <1>15
<1>17. ASSUME NEW n \in 2 .. (c + 1)
       PROVE  /\ made[n].name \in D
              /\ made[n] = [name |-> made[n].name, keys |-> cfg.overrides[made[n].name]]
  <2> DEFINE k == at(n) - 1
  <2>1. k \in 1 .. c /\ at(n) = k + 1 /\ made[n] = S[at(n)]
    BY <1>1, <1>14, <1>15, SMT
  <2> HIDE DEF k
  <2>2. made[n] = [name |-> order[k], keys |-> cfg.overrides[order[k]]]
    BY <2>1, <1>3
  <2>3. order[k] \in D
    BY <2>1, <1>2
  <2> QED  BY <2>2, <2>3, SMT
<1>18. ASSUME NEW i \in N, NEW j \in N, i < j
       PROVE  NameRank(made[i].name) < NameRank(made[j].name)
  <2>1. at(i) \in N /\ at(j) \in N /\ rank[at(i)] < rank[at(j)]
    BY <1>11, <1>18
  <2>2. NameRank(S[at(i)].name) < NameRank(S[at(j)].name)
    BY <2>1, <1>10
  <2> QED  BY <2>2, <1>15
<1>19. ASSUME NEW d \in D PROVE \E n \in 2 .. (c + 1) : made[n].name = d
  <2>1. PICK i \in 1 .. c : order[i] = d
    BY <1>2
  <2>2. i + 1 \in N /\ S[i + 1].name = d
    <3>1. S[i + 1] = [name |-> order[i], keys |-> cfg.overrides[order[i]]]
      BY <1>3
    <3>2. i + 1 \in N
      BY <1>1, SMT
    <3> QED  BY <3>1, <3>2, <2>1, SMT
  <2>3. PICK n \in N : i + 1 = at(n)
    BY <2>2, <1>11
  <2>4. made[n].name = d
    BY <2>2, <2>3, <1>15
  <2>5. n # 1
    BY <2>3, <1>13, <1>1, <2>1, SMT
  <2>6. n \in 2 .. (c + 1)
    BY <2>5, <1>1, SMT
  <2> QED  BY <2>4, <2>6
<1>20. made = [n \in N |-> made[n]] /\ Len(made) = c + 1
  <2>1. made = [n \in N |-> made[n]]
    BY <1>4
  <2>2. made \in [1 .. (c + 1) -> {made[n] : n \in N}]
    BY <2>1
  <2>3. Len(made) = c + 1
    BY <2>2, <1>1, SMT
  <2> QED  BY <2>1, <2>3
<1>21. c + 1 = 1 + Cardinality(DOMAIN cfg.overrides) /\ 1 + Cardinality(DOMAIN cfg.overrides) = c + 1
  BY <1>1, SMT DEF c, D
<1>22. SortedFrom(cfg, made)
  BY <1>16, <1>17, <1>18, <1>19, <1>20, <1>21 DEF SortedFrom, D
<1>23. QED
  BY <1>20, <1>21, <1>22 DEF made, S

\* There is one way to write them by name.
LEMMA SortedUnique ==
  ASSUME NEW cfg, Named(cfg), NEW a, NEW b, SortedFrom(cfg, a), SortedFrom(cfg, b)
  PROVE  a = b
<1> DEFINE D == DOMAIN cfg.overrides
           N == 1 + Cardinality(D)
           r(x) == NameRank(x.name)
           T == {n \in 1 .. N : a[n] # b[n]}
<1>1. N \in Nat
  BY OverridesFinite, SMT
<1>2. /\ a = [n \in 1 .. N |-> a[n]]
      /\ b = [n \in 1 .. N |-> b[n]]
      /\ a[1] = b[1]
  BY DEF SortedFrom
<1>3. ASSUME NEW x, SortedFrom(cfg, x), NEW i \in 1 .. N PROVE r(x[i]) \in Nat
  <2>1. i = 1 \/ i \in 2 .. N
    BY <1>1, SMT
  <2>2. CASE i = 1
    <3>1. x[1].name = "Global"
      BY <1>3, SMT DEF SortedFrom
    <3> QED  BY <3>1, <2>2, Ranks
  <2>3. CASE i \in 2 .. N
    <3>1. x[i].name \in Range(SectionNames)
      BY <2>3, <1>3 DEF SortedFrom, Named
    <3> QED  BY <3>1, Ranks
  <2> QED  BY <2>1, <2>2, <2>3
<1>4. ASSUME NEW x, NEW y, SortedFrom(cfg, x), SortedFrom(cfg, y), NEW i \in 2 .. N,
             x[i] # y[i], \A k \in 1 .. N : k < i => x[k] = y[k]
      PROVE  \E j \in 1 .. N : i < j /\ x[i] = y[j]
  <2>1. x[i].name \in D /\ x[i] = [name |-> x[i].name, keys |-> cfg.overrides[x[i].name]]
    BY <1>4 DEF SortedFrom
  <2>2. PICK j \in 2 .. N : y[j].name = x[i].name
    BY <2>1, <1>4 DEF SortedFrom
  <2>3. y[j] = [name |-> y[j].name, keys |-> cfg.overrides[y[j].name]]
    BY <1>4 DEF SortedFrom
  <2>4. y[j] = x[i]
    BY <2>1, <2>2, <2>3
  <2>5. j # i /\ i \in 1 .. N /\ j \in 1 .. N
    BY <1>1, <1>4, <2>4, SMT
  <2>6. ~(j < i)
    <3>1. ASSUME j < i PROVE FALSE
      <4>1. x[j] = x[i]
        BY <3>1, <2>4, <2>5, <1>4
      <4>2. r(x[j]) < r(x[i])
        BY <3>1, <2>5, <1>4 DEF SortedFrom
      <4>3. r(x[i]) \in Nat
        BY <1>3, <1>4, <2>5
      <4> QED  BY <4>1, <4>2, <4>3, SMT
    <3> QED  BY <3>1
  <2>7. i < j
    BY <2>5, <2>6, <1>1, SMT
  <2> QED  BY <2>4, <2>5, <2>7
<1>5. T = {}
  <2> SUFFICES ASSUME T # {} PROVE FALSE
    OBVIOUS
  <2>1. T \subseteq Nat
    BY <1>1, SMT
  <2>2. PICK i \in T : \A k \in T : i <= k
    <3> HIDE DEF T
    <3> QED  BY <2>1, Least
  <2>3. i \in 2 .. N /\ a[i] # b[i] /\ i \in 1 .. N
    BY <1>1, <1>2, SMT
  <2>4. \A k \in 1 .. N : k < i => a[k] = b[k]
    <3> SUFFICES ASSUME NEW k \in 1 .. N, k < i, a[k] # b[k] PROVE FALSE
      OBVIOUS
    <3>1. k \in T
      OBVIOUS
    <3>2. i <= k
      BY <3>1, <2>2
    <3> QED  BY <3>2, <2>3, <1>1, SMT
  <2>5. PICK j \in 1 .. N : i < j /\ a[i] = b[j]
    BY <2>3, <2>4, <1>4, SMT
  <2>6. PICK k \in 1 .. N : i < k /\ b[i] = a[k]
    BY <2>3, <2>4, <1>4, SMT
  <2>7. r(b[i]) < r(b[j]) /\ r(a[i]) < r(a[k])
    BY <2>3, <2>5, <2>6 DEF SortedFrom
  <2>8. r(a[i]) \in Nat /\ r(b[i]) \in Nat
    BY <1>3, <2>3
  <2> QED  BY <2>5, <2>6, <2>7, <2>8, SMT
<1>6. \A n \in 1 .. N : a[n] = b[n]
  BY <1>5
<1>7. QED
  BY <1>2, <1>6

-----------------------------------------------------------------------------
(* Keys and values *)

(* What the Global section has of each key: empty strings and lists are    *)
(* dropped, the boolean is not.                                            *)
LEMMA GlobalSectionIs ==
  ASSUME NEW global
  PROVE  /\ \A x \in Strings : Get(GlobalSection(global), x) = Get(global, x)
         /\ \A x \in Strings : x \in DOMAIN GlobalSection(global) <=> Get(global, x) # ""
         /\ Get(GlobalSection(global), "DisableSecurityGroupIngress") =
              IF "DisableSecurityGroupIngress" \in DOMAIN global
              THEN global["DisableSecurityGroupIngress"] ELSE "false"
         /\ "NodeIPFamilies" \in DOMAIN GlobalSection(global) <=>
              "NodeIPFamilies" \in DOMAIN global /\ global["NodeIPFamilies"] # << >>
         /\ "NodeIPFamilies" \in DOMAIN GlobalSection(global) =>
              GlobalSection(global)["NodeIPFamilies"] = Distinct(global["NodeIPFamilies"])
<1> DEFINE fields == [k \in Strings |-> Get(global, k)]
           flag == "DisableSecurityGroupIngress"
           families == "NodeIPFamilies"
           kept == Restrict(fields, {k \in Strings : fields[k] # ""})
           value == IF flag \in DOMAIN global THEN global[flag] ELSE "false"
           flagged == With(kept, flag, value)
           made == GlobalSection(global)
           listed == families \in DOMAIN global /\ global[families] # << >>
<1>1. made = IF ~listed THEN flagged ELSE With(flagged, families, Distinct(global[families]))
  BY DEF GlobalSection
<1>2. /\ \A x : x \in DOMAIN kept <=> x \in Strings /\ Get(global, x) # ""
      /\ \A x \in Strings : Get(kept, x) = Get(global, x)
  BY DEF Restrict, Get
<1>3. flag \notin Strings /\ families \notin Strings /\ flag # families
  BY DEF Strings
<1> HIDE DEF kept, fields, value, listed, made
<1>4. /\ \A x \in Strings : Get(flagged, x) = Get(global, x) /\ (x \in DOMAIN flagged <=> Get(global, x) # "")
      /\ Get(flagged, flag) = value /\ families \notin DOMAIN flagged
  <2>1. \A x : /\ x \in DOMAIN flagged <=> x \in DOMAIN kept \/ x = flag
               /\ Get(flagged, x) = IF x = flag THEN value ELSE Get(kept, x)
    BY DEF With, Get
  <2> HIDE DEF flagged, flag, families
  <2> QED  BY <2>1, <1>2, <1>3
<1> HIDE DEF flagged
<1>5. CASE ~listed
  BY <1>1, <1>4, <1>5 DEF value, listed, made
<1>6. CASE listed
  <2>1. made = With(flagged, families, Distinct(global[families]))
    BY <1>1, <1>6
  <2>2. \A x : /\ x \in DOMAIN made <=> x \in DOMAIN flagged \/ x = families
               /\ Get(made, x) = IF x = families THEN Distinct(global[families]) ELSE Get(flagged, x)
    BY <2>1 DEF With, Get
  <2>3. made[families] = Distinct(global[families])
    BY <2>1 DEF With
  <2>4. /\ \A x \in Strings : Get(made, x) = Get(global, x) /\ (x \in DOMAIN made <=> Get(global, x) # "")
        /\ Get(made, flag) = value /\ families \in DOMAIN made
    <3> HIDE DEF flag, families
    <3> QED  BY <2>2, <1>3, <1>4
  <2> QED  BY <2>3, <2>4, <1>6 DEF value, listed, made
<1>7. QED
  BY <1>5, <1>6

-----------------------------------------------------------------------------
(* The transformer of AWS *)

User(s) == IF s.form = "empty" THEN << >> ELSE s.global
Overrides(s) == IF s.form = "empty" THEN << >> ELSE s.overrides
Made(s, gates) == setOpenShiftDefaults(readAWSConfig(s), gates)

Probe == "ClusterServiceLoadBalancerHealthProbeMode"
Mode == "NLBSecurityGroupMode"

Probed(user) == IF Get(user, Probe) # "" THEN user ELSE With(user, Probe, "Shared")
Moded(user, gates) ==
  IF "AWSServiceLBNetworkSecurityGroup" \in gates THEN With(user, Mode, "Managed") ELSE user

(* The config before it is written: the source's overrides, and its Global *)
(* section with both settings.                                             *)
LEMMA MadeIs ==
  ASSUME NEW s, NEW gates
  PROVE  /\ Made(s, gates).overrides = Overrides(s)
         /\ Made(s, gates).global = Moded(Probed(User(s)), gates)
<1>1. readAWSConfig(s).global = User(s) /\ readAWSConfig(s).overrides = Overrides(s)
  BY DEF readAWSConfig, User, Overrides
<1>2. QED
  BY <1>1 DEF Made, setOpenShiftDefaults, isFeatureGateEnabled, Probe, Mode, Probed, Moded

(* A probe mode the user set stays, one that is missing becomes Shared.    *)
LEMMA ProbedIs ==
  ASSUME NEW user
  PROVE  /\ Get(user, Probe) # "" => Get(Probed(user), Probe) = Get(user, Probe)
         /\ Get(user, Probe) = "" => Get(Probed(user), Probe) = "Shared"
         /\ \A x : x # Probe => /\ Get(Probed(user), x) = Get(user, x)
                                /\ x \in DOMAIN Probed(user) <=> x \in DOMAIN user
BY DEF Probed, With, Get

(* The feature gate sets the security group mode, and nothing else.        *)
LEMMA ModedIs ==
  ASSUME NEW user, NEW gates
  PROVE  /\ Get(Moded(user, gates), Mode) =
              IF "AWSServiceLBNetworkSecurityGroup" \in gates THEN "Managed" ELSE Get(user, Mode)
         /\ \A x : x # Mode => /\ Get(Moded(user, gates), x) = Get(user, x)
                               /\ x \in DOMAIN Moded(user, gates) <=> x \in DOMAIN user
BY DEF Moded, With, Get

(* What the AWS transformer returns is the sorted form of the config it    *)
(* made.                                                                   *)
LEMMA AWSOutcome ==
  ASSUME NEW s, IsAWSSource(s), NEW gates, NEW o \in AWSTransformer(s, gates), o # Error
  PROVE  /\ Named(Made(s, gates)) /\ o = Ok(o.conf) /\ SortedFrom(Made(s, gates), o.conf)
         /\ Len(o.conf) = 1 + Cardinality(DOMAIN Overrides(s))
<1> DEFINE cfg == Made(s, gates)
<1>1. s.form # "unparsable"
  BY DEF AWSTransformer
<1>2. cfg.overrides = Overrides(s)
  BY MadeIs
<1>3. Named(cfg)
  BY <1>1, <1>2, SMT DEF Named, Overrides, IsAWSSource
<1>4. o \in marshalAWSConfig(cfg)
  BY <1>1 DEF AWSTransformer, Made
<1> HIDE DEF cfg
<1>5. PICK order \in Orders(DOMAIN cfg.overrides) : o = Ok(sorted(Reflected(cfg, order)))
  BY <1>4 DEF marshalAWSConfig
<1>6. o.conf = sorted(Reflected(cfg, order)) /\ o = Ok(o.conf)
  BY <1>5 DEF Ok
<1>7. SortedFrom(cfg, o.conf) /\ Len(o.conf) = 1 + Cardinality(DOMAIN cfg.overrides)
  BY <1>3, <1>6, MarshalSorts
<1>8. QED
  BY <1>2, <1>3, <1>6, <1>7 DEF cfg

(* The AWS transformer keeps its contract.                                 *)
LEMMA AWSMakes ==
  ASSUME NEW s, IsAWSSource(s), NEW gates, NEW o \in AWSTransformer(s, gates), o # Error
  PROVE  AWSContract(s, gates, o.conf) /\ o.conf # None
<1> DEFINE cfg == Made(s, gates)
           made == o.conf
           user == User(s)
           N == 1 + Cardinality(DOMAIN Overrides(s))
           keys == made[1].keys
           flag == "DisableSecurityGroupIngress"
           given == Restrict(user, {k \in DOMAIN user : k \in Strings => user[k] # ""})
<1>1. Named(cfg) /\ SortedFrom(cfg, made) /\ Len(made) = N /\ cfg.overrides = Overrides(s)
  BY AWSOutcome, MadeIs
<1>2. N \in Nat /\ N >= 1
  BY <1>1, OverridesFinite, SMT
<1>3. /\ made = [n \in 1 .. N |-> made[n]]
      /\ made[1] = [name |-> "Global", keys |-> GlobalSection(cfg.global)]
      /\ \A i \in 2 .. N : made[i] = [name |-> made[i].name, keys |-> Overrides(s)[made[i].name]]
      /\ \A i \in 2 .. N : made[i].name \in DOMAIN Overrides(s)
      /\ \A d \in DOMAIN Overrides(s) : \E i \in 2 .. N : made[i].name = d
  BY <1>1 DEF SortedFrom
<1>4. keys = GlobalSection(cfg.global) /\ made[1].name = "Global"
  BY <1>3, SMT
<1>5. \A i \in 2 .. N : made[i].keys = Overrides(s)[made[i].name]
  <2> SUFFICES ASSUME NEW i \in 2 .. N PROVE made[i].keys = Overrides(s)[made[i].name]
    OBVIOUS
  <2> DEFINE x == made[i]
  <2>1. x = [name |-> x.name, keys |-> Overrides(s)[x.name]]
    BY <1>3
  <2> HIDE DEF x
  <2>2. x.keys = Overrides(s)[x.name]
    BY <2>1, SMT
  <2> QED  BY <2>2 DEF x
<1>6. {made[i].name : i \in 2 .. N} = DOMAIN Overrides(s)
  BY <1>3
<1>7. made # None
  <2>1. 1 \in DOMAIN made
    BY <1>2, <1>3, SMT
  <2> QED  BY <2>1, SMT DEF None
<1>8. /\ Get(user, Probe) # "" => Get(cfg.global, Probe) = Get(user, Probe)
      /\ Get(user, Probe) = "" => Get(cfg.global, Probe) = "Shared"
      /\ Get(cfg.global, Mode) =
           IF "AWSServiceLBNetworkSecurityGroup" \in gates THEN "Managed" ELSE Get(user, Mode)
      /\ \A x : x \notin Strings => (x \in DOMAIN cfg.global <=> x \in DOMAIN user)
      /\ \A x : x \notin Strings /\ x \in DOMAIN user => cfg.global[x] = user[x]
  <2> DEFINE probed == Probed(user)
             global == Moded(probed, gates)
  <2>1. cfg.global = global
    BY MadeIs
  <2> HIDE DEF cfg, user
  <2>2. /\ Get(user, Probe) # "" => Get(probed, Probe) = Get(user, Probe)
        /\ Get(user, Probe) = "" => Get(probed, Probe) = "Shared"
        /\ \A x : x # Probe => Get(probed, x) = Get(user, x) /\ (x \in DOMAIN probed <=> x \in DOMAIN user)
    BY ProbedIs
  <2> HIDE DEF probed
  <2>3. /\ Get(global, Mode) =
             IF "AWSServiceLBNetworkSecurityGroup" \in gates THEN "Managed" ELSE Get(probed, Mode)
        /\ \A x : x # Mode => Get(global, x) = Get(probed, x) /\ (x \in DOMAIN global <=> x \in DOMAIN probed)
    BY ModedIs
  <2> HIDE DEF global
  <2>4. Probe # Mode /\ Probe \in Strings /\ Mode \in Strings
    BY DEF Probe, Mode, Strings
  <2>5. \A x : x \notin Strings => Get(global, x) = Get(user, x) /\ (x \in DOMAIN global <=> x \in DOMAIN user)
    BY <2>2, <2>3, <2>4
  <2>6. \A x : x \notin Strings /\ x \in DOMAIN user => global[x] = user[x]
    BY <2>5 DEF Get
  <2> QED  BY <2>1, <2>2, <2>3, <2>4, <2>5, <2>6
<1> HIDE DEF cfg, made, user, N, keys
<1>9. /\ \A x \in Strings : Get(keys, x) = Get(cfg.global, x)
      /\ \A x \in Strings : x \in DOMAIN keys <=> Get(cfg.global, x) # ""
      /\ Get(keys, flag) = IF flag \in DOMAIN cfg.global THEN cfg.global[flag] ELSE "false"
      /\ "NodeIPFamilies" \in DOMAIN keys <=>
           "NodeIPFamilies" \in DOMAIN cfg.global /\ cfg.global["NodeIPFamilies"] # << >>
      /\ "NodeIPFamilies" \in DOMAIN keys => keys["NodeIPFamilies"] = Distinct(cfg.global["NodeIPFamilies"])
  BY <1>4, GlobalSectionIs, ZenonT(60)
<1>10. Probe \in Strings /\ Mode \in Strings /\ flag \notin Strings /\ "NodeIPFamilies" \notin Strings
  BY DEF Strings, Probe, Mode
<1>11. Kept({Probe}, given, keys)
  <2>1. ASSUME NEW k \in {Probe} \cap DOMAIN given PROVE Get(keys, k) = given[k]
    <3>1. k \in DOMAIN user /\ given[k] = user[k] /\ (k \in Strings => user[k] # "")
      BY DEF Restrict
    <3>2. Get(user, Probe) = user[k] /\ user[k] # ""
      BY <3>1, <1>10 DEF Get
    <3> QED  BY <3>1, <3>2, <1>8, <1>9, <1>10
  <2> HIDE DEF given
  <2> QED  BY <2>1 DEF Kept
<1>12. Probe \in DOMAIN keys /\ (Get(keys, flag) = "true" <=> Get(user, flag) = "true")
  <2>1. Probe \in DOMAIN keys
    BY <1>8, <1>9, <1>10
  <2>2. CASE flag \in DOMAIN user
    <3>1. Get(keys, flag) = user[flag]
      BY <2>2, <1>8, <1>9, <1>10
    <3> QED  BY <2>1, <2>2, <3>1 DEF Get
  <2>3. CASE flag \notin DOMAIN user
    <3>1. Get(keys, flag) = "false" /\ Get(user, flag) = ""
      BY <2>3, <1>8, <1>9, <1>10 DEF Get
    <3> QED  BY <2>1, <3>1
  <2> QED  BY <2>2, <2>3
<1>13. IF "AWSServiceLBNetworkSecurityGroup" \in gates THEN Get(keys, Mode) = "Managed"
       ELSE Get(keys, Mode) = Get(user, Mode)
  BY <1>8, <1>9, <1>10
<1>14. Families(keys) = Families(user)
  <2>1. CASE "NodeIPFamilies" \notin DOMAIN user
    BY <2>1, <1>8, <1>9, <1>10 DEF Families
  <2>2. CASE "NodeIPFamilies" \in DOMAIN user
    <3> DEFINE list == user["NodeIPFamilies"]
    <3>1. list \in Seq(STRING)
      BY <2>2, <1>12, AWSOutcome, SMT DEF user, User, IsAWSSource, AWSTransformer
    <3>2. cfg.global["NodeIPFamilies"] = list /\ "NodeIPFamilies" \in DOMAIN cfg.global
      BY <2>2, <1>8, <1>10
    <3>3. Families(user) = Range(list)
      BY <2>2 DEF Families
    <3> HIDE DEF list
    <3>4. CASE list = << >>
      <4>1. Range(list) = {}
        BY <3>4, SMT DEF Range
      <4> QED  BY <4>1, <3>2, <3>3, <3>4, <1>9 DEF Families
    <3>5. CASE list # << >>
      <4>1. Range(Distinct(list)) = Range(list)
        BY <3>1, DistinctKeeps
      <4>2. Families(keys) = Range(Distinct(list))
        BY <3>2, <3>5, <1>9 DEF Families
      <4> QED  BY <4>1, <4>2, <3>3
    <3> QED  BY <3>4, <3>5
  <2> QED  BY <2>1, <2>2
<1>15. QED
  BY <1>1, <1>4, <1>5, <1>6, <1>7, <1>11, <1>12, <1>13, <1>14
     DEF AWSContract, User, Overrides, user, N, keys, made, Probe, Mode

-----------------------------------------------------------------------------
(* The transformers of Azure *)

(* A config with a key is there.                                           *)
LEMMA SomethingThere ==
  ASSUME NEW f, DOMAIN f # {}
  PROVE  f # None
<1>1. DOMAIN None = {}
  <2>1. None \in Seq({}) /\ Len(None) = 0
    BY SMT DEF None
  <2> QED  BY <2>1, SMT
<1>2. QED
  BY <1>1

(* Parsing into the struct keeps the known fields and drops the others.    *)
LEMMA UnmarshalledIs ==
  ASSUME NEW object
  PROVE  /\ \A x \in AzureFields \ {"useManagedIdentityExtension"} :
              Get(Unmarshalled(object), x) = Get(object, x)
         /\ DOMAIN Unmarshalled(object) \subseteq AzureFields
<1> DEFINE S == {k \in DOMAIN object \cap AzureFields :
                   object[k] \notin IF k = "useManagedIdentityExtension" THEN {FALSE} ELSE {""}}
<1>1. Unmarshalled(object) = [x \in S |-> object[x]]
  BY DEF Unmarshalled, Restrict
<1>2. ASSUME NEW x \in AzureFields \ {"useManagedIdentityExtension"}
      PROVE  x \in S <=> x \in DOMAIN object /\ object[x] # ""
  OBVIOUS
<1>3. S \subseteq AzureFields
  OBVIOUS
<1> HIDE DEF S
<1>4. QED
  BY <1>1, <1>2, <1>3 DEF Get

(* A VM type the user set stays, and one is always set.                    *)
LEMMA VMTypeIs ==
  ASSUME NEW cfg, DOMAIN cfg \subseteq AzureFields
  PROVE  /\ Get(VMTypeSet(cfg), "vmType") # ""
         /\ Get(cfg, "vmType") # "" => Get(VMTypeSet(cfg), "vmType") = Get(cfg, "vmType")
         /\ \A x : x # "vmType" => Get(VMTypeSet(cfg), x) = Get(cfg, x)
         /\ "vmType" \in DOMAIN VMTypeSet(cfg) /\ DOMAIN VMTypeSet(cfg) \subseteq AzureFields
<1>1. "vmType" \in AzureFields
  BY DEF AzureFields
<1>2. CASE Get(cfg, "vmType") = ""
  BY <1>1, <1>2 DEF VMTypeSet, With, Get
<1>3. CASE Get(cfg, "vmType") # ""
  BY <1>3 DEF VMTypeSet, Get
<1>4. QED
  BY <1>2, <1>3

\* What the user set of the type and the secret is kept.
LEMMA AzureKeeps ==
  ASSUME NEW keys, NEW made,
         Get(made, "aadClientSecret") = Get(keys, "aadClientSecret"),
         Get(keys, "vmType") # "" => Get(made, "vmType") = Get(keys, "vmType")
  PROVE  Kept({"vmType", "aadClientSecret"},
              Restrict(keys, {k \in DOMAIN keys : k = "vmType" => keys[k] # ""}), made)
<1> DEFINE S == {k \in DOMAIN keys : k = "vmType" => keys[k] # ""}
<1>1. ASSUME NEW k \in {"vmType", "aadClientSecret"} \cap S PROVE Get(made, k) = keys[k]
  BY DEF Get
<1>2. ASSUME NEW k \in S PROVE Restrict(keys, S)[k] = keys[k]
  BY DEF Restrict
<1>3. DOMAIN Restrict(keys, S) = S
  BY DEF Restrict
<1> HIDE DEF S
<1>4. Kept({"vmType", "aadClientSecret"}, Restrict(keys, S), made)
  BY <1>1, <1>2, <1>3 DEF Kept
<1>5. QED
  BY <1>4 DEF S

(* The Azure Stack Hub transformer keeps its contract.                     *)
LEMMA AzureStackMakes ==
  ASSUME NEW s, IsAzureStackHub(platform), NEW o, o = AzureStackTransformer(s), o # Error
  PROVE  /\ AzureContract(s, o.conf) /\ o = Ok(o.conf)
         /\ o.conf # None /\ DOMAIN o.conf \subseteq AzureFields
<1> DEFINE cfg == Unmarshalled(s.keys)
           made == VMTypeSet(cfg)
<1>1. o = Ok(made) /\ o.conf = made
  BY DEF AzureStackTransformer, Ok
<1>2. /\ \A x \in AzureFields \ {"useManagedIdentityExtension"} : Get(cfg, x) = Get(s.keys, x)
      /\ DOMAIN cfg \subseteq AzureFields
  BY UnmarshalledIs
<1> HIDE DEF cfg
<1>3. /\ Get(made, "vmType") # ""
      /\ Get(cfg, "vmType") # "" => Get(made, "vmType") = Get(cfg, "vmType")
      /\ \A x : x # "vmType" => Get(made, x) = Get(cfg, x)
      /\ "vmType" \in DOMAIN made /\ DOMAIN made \subseteq AzureFields
  BY <1>2, VMTypeIs
<1> HIDE DEF made
<1>4. /\ Get(made, "aadClientSecret") = Get(s.keys, "aadClientSecret")
      /\ Get(s.keys, "vmType") # "" => Get(made, "vmType") = Get(s.keys, "vmType")
  BY <1>2, <1>3 DEF AzureFields
<1>5. AzureContract(s, made)
  BY <1>3, <1>4, AzureKeeps DEF AzureContract
<1>6. made # None
  BY <1>3, SomethingThere
<1>7. QED
  BY <1>1, <1>3, <1>5, <1>6

(* The Azure transformer keeps its contract.                               *)
LEMMA AzureMakes ==
  ASSUME NEW s, NEW o, o = AzureTransformer(s, platform.cloudName), o # Error, o # Panic
  PROVE  /\ AzureContract(s, o.conf) /\ o = Ok(o.conf)
         /\ o.conf # None /\ DOMAIN o.conf \subseteq AzureFields
<1> DEFINE cloud == IF platform.cloudName = "" THEN "AzurePublicCloud" ELSE platform.cloudName
           probe == "clusterServiceLoadBalancerHealthProbeMode"
           cfg == Unmarshalled(s.keys)
           typed == VMTypeSet(cfg)
           ours == [cloud |-> cloud, clusterServiceLoadBalancerHealthProbeMode |-> "shared"]
           made == Over(ours, typed)
<1>1. o = Ok(made) /\ CloudMatches(cfg, cloud)
  BY DEF AzureTransformer
<1>2. /\ \A x \in AzureFields \ {"useManagedIdentityExtension"} : Get(cfg, x) = Get(s.keys, x)
      /\ DOMAIN cfg \subseteq AzureFields
  BY UnmarshalledIs
<1> HIDE DEF cfg
<1>3. /\ Get(typed, "vmType") # ""
      /\ Get(cfg, "vmType") # "" => Get(typed, "vmType") = Get(cfg, "vmType")
      /\ \A x : x # "vmType" => Get(typed, x) = Get(cfg, x)
      /\ "vmType" \in DOMAIN typed /\ DOMAIN typed \subseteq AzureFields
  BY <1>2, VMTypeIs
<1> HIDE DEF typed, cloud
<1>4. DOMAIN ours = {"cloud", probe} /\ ours["cloud"] = cloud /\ ours[probe] = "shared"
  OBVIOUS
<1> HIDE DEF ours
<1>5. /\ DOMAIN made = {"cloud", probe} \cup DOMAIN typed
      /\ made["cloud"] = cloud /\ made[probe] = "shared"
      /\ \A x : x \notin {"cloud", probe} => Get(made, x) = Get(typed, x)
  BY <1>4 DEF Over, Get
<1> HIDE DEF made
<1>6. /\ Get(made, "aadClientSecret") = Get(s.keys, "aadClientSecret")
      /\ Get(s.keys, "vmType") # "" => Get(made, "vmType") = Get(s.keys, "vmType")
      /\ Get(made, "vmType") # ""
  <2>1. Get(cfg, "aadClientSecret") = Get(s.keys, "aadClientSecret") /\ Get(cfg, "vmType") = Get(s.keys, "vmType")
    BY <1>2 DEF AzureFields
  <2>2. Get(made, "aadClientSecret") = Get(typed, "aadClientSecret") /\ Get(made, "vmType") = Get(typed, "vmType")
    BY <1>5
  <2> QED  BY <2>1, <2>2, <1>3
<1>7. Get(s.keys, "cloud") \in {"", cloud, "AZUREPUBLICCLOUD"}
  <2>1. Get(cfg, "cloud") = Get(s.keys, "cloud")
    BY <1>2 DEF AzureFields
  <2>2. Get(cfg, "cloud") # "" => cfg["cloud"] = Get(cfg, "cloud")
    BY DEF Get
  <2> QED  BY <2>1, <2>2, <1>1 DEF CloudMatches, EqualFold
<1>8. Kept({"vmType", "aadClientSecret"},
           Restrict(s.keys, {k \in DOMAIN s.keys : k = "vmType" => s.keys[k] # ""}), made)
  BY <1>6, AzureKeeps
<1>9. AzureContract(s, made)
  BY <1>5, <1>6, <1>7, <1>8 DEF AzureContract, cloud
<1>10. made # None /\ DOMAIN made \subseteq AzureFields
  <2>1. made # None
    BY <1>5, SomethingThere
  <2> QED  BY <2>1, <1>3, <1>5 DEF AzureFields
<1>11. o.conf = made /\ o = Ok(o.conf)
  BY <1>1, SMT DEF Ok
<1>12. QED
  BY <1>9, <1>10, <1>11

-----------------------------------------------------------------------------
(* The transformer of OpenStack *)

LegacyKeys == {"secret-name", "secret-namespace", "kubeconfig-path"}

(* The keys the OpenStack transformer adds are none of those it removes.   *)
LEMMA CloudsAre ==
  /\ DOMAIN CloudsKeys \cap LegacyKeys = {} /\ "clouds-file" \in DOMAIN CloudsKeys
  /\ CloudsKeys["clouds-file"] = "/etc/openstack/secret/clouds.yaml"
  /\ DOMAIN Legacy = LegacyKeys
BY DEF CloudsKeys, LegacyKeys, Legacy

\* [Global] loses the legacy keys and gets those of clouds.yaml.
LEMMA GlobalIs ==
  ASSUME NEW global, DOMAIN global \cap LegacyKeys = {}
  PROVE  /\ DOMAIN Over(CloudsKeys, global) \cap LegacyKeys = {}
         /\ Over(CloudsKeys, global)["clouds-file"] = "/etc/openstack/secret/clouds.yaml"
<1> HIDE DEF CloudsKeys
<1>1. QED
  BY CloudsAre DEF Over

\* [LoadBalancer] loses use-octavia, keeps the user's keys and gets the others.
BalancerContract(given, made) ==
  /\ "use-octavia" \notin DOMAIN made
  /\ Kept(DOMAIN given \ {"use-octavia"}, given, made)
  /\ {"max-shared-lb", "manage-security-groups"} \subseteq DOMAIN made

(* A LoadBalancer section that is made keeps the contract.                 *)
LEMMA BalancerCreated ==
  ASSUME NEW given, DOMAIN given = {} PROVE BalancerContract(given, createLoadBalancerSection)
BY DEF BalancerContract, createLoadBalancerSection, Kept

(* So does one the user had.                                               *)
LEMMA BalancerUpdated ==
  ASSUME NEW given PROVE BalancerContract(given, updateLoadBalancerSection(given))
<1> DEFINE c == createLoadBalancerSection
           w == Without(given, {"use-octavia"})
           made == updateLoadBalancerSection(given)
<1>1. DOMAIN c = {"max-shared-lb", "manage-security-groups"}
  BY DEF createLoadBalancerSection
<1>2. DOMAIN w = DOMAIN given \ {"use-octavia"} /\ \A x \in DOMAIN w : w[x] = given[x]
  BY DEF Without, Restrict
<1>3. made = Over(w, c)
  BY DEF updateLoadBalancerSection
<1> HIDE DEF c, w, made
<1>4. DOMAIN made = DOMAIN w \cup DOMAIN c /\ \A x \in DOMAIN w : Get(made, x) = w[x]
  BY <1>3 DEF Over, Get
<1>5. BalancerContract(given, made)
  BY <1>1, <1>2, <1>4 DEF BalancerContract, Kept
<1>6. QED
  BY <1>5 DEF made

Given(s) == IF s.form = "empty" THEN << >> ELSE s.sections
GivenBalancer(s) == IF "LoadBalancer" \in DOMAIN Given(s) THEN Given(s)["LoadBalancer"] ELSE << >>

\* OpenStackContract, for a configuration whose two sections are known.
LEMMA SectionsMake ==
  ASSUME NEW s, NEW made,
         DOMAIN made = (DOMAIN Given(s) \ {"BlockStorage"}) \cup {"Global", "LoadBalancer"},
         DOMAIN made["Global"] \cap LegacyKeys = {},
         made["Global"]["clouds-file"] = "/etc/openstack/secret/clouds.yaml",
         BalancerContract(GivenBalancer(s), made["LoadBalancer"]),
         \A k \in DOMAIN Given(s) \ {"Global", "LoadBalancer", "BlockStorage"} : made[k] = Given(s)[k]
  PROVE  OpenStackContract(s, made)
<1>1. Kept(DOMAIN Given(s) \ {"Global", "LoadBalancer", "BlockStorage"}, Given(s), made)
  BY DEF Kept, Get
<1>2. QED
  BY <1>1 DEF OpenStackContract, BalancerContract, LegacyKeys, Given, GivenBalancer

(* The OpenStack transformer keeps its contract.                           *)
LEMMA OpenStackMakes ==
  ASSUME NEW s, NEW o, o = OpenStackTransformer(s), o # Error
  PROVE  OpenStackContract(s, o.conf) /\ o = Ok(o.conf) /\ o.conf # None
<1> DEFINE given == s.sections
           global == IF "Global" \in DOMAIN given THEN Without(given["Global"], DOMAIN Legacy) ELSE << >>
           balancer == IF "LoadBalancer" \in DOMAIN given
                       THEN updateLoadBalancerSection(given["LoadBalancer"]) ELSE createLoadBalancerSection
           ours == [name \in {"Global", "LoadBalancer"} |->
                      IF name = "Global" THEN Over(CloudsKeys, global) ELSE balancer]
           default == [name \in {"Global", "LoadBalancer"} |->
                         IF name = "Global" THEN CloudsKeys ELSE createLoadBalancerSection]
           rest == Without(given, {"BlockStorage"})
           made == Over(ours, rest)
<1>1. s.form # "unparsable"
  BY DEF OpenStackTransformer
<1>2. DOMAIN << >> = {}
  <2>1. << >> \in Seq({}) /\ Len(<< >>) = 0
    BY SMT
  <2> QED  BY <2>1, SMT
<1>3. CASE s.form = "empty"
  <2>1. o = Ok(default)
    BY <1>3 DEF OpenStackTransformer
  <2>2. /\ DOMAIN default = {"Global", "LoadBalancer"}
        /\ default["Global"] = CloudsKeys /\ default["LoadBalancer"] = createLoadBalancerSection
    OBVIOUS
  <2> HIDE DEF default
  <2>3. BalancerContract(<< >>, default["LoadBalancer"])
    BY <1>2, <2>2, BalancerCreated
  <2>4. OpenStackContract(s, default)
    <3>1. Given(s) = << >> /\ GivenBalancer(s) = << >>
      BY <1>2, <1>3 DEF Given, GivenBalancer
    <3> QED  BY <3>1, <1>2, <2>2, <2>3, CloudsAre, SectionsMake
  <2>5. default # None
    BY <2>2, SomethingThere
  <2>6. o.conf = default /\ o = Ok(o.conf)
    BY <2>1, SMT DEF Ok
  <2> QED  BY <2>4, <2>5, <2>6
<1>4. CASE s.form # "empty"
  <2>1. o = Ok(made)
    BY <1>1, <1>4 DEF OpenStackTransformer
  <2>2. DOMAIN global \cap LegacyKeys = {}
    BY <1>2, CloudsAre DEF Without, Restrict
  <2> HIDE DEF global
  <2>3. BalancerContract(IF "LoadBalancer" \in DOMAIN given THEN given["LoadBalancer"] ELSE << >>, balancer)
    BY <1>2, BalancerCreated, BalancerUpdated
  <2> HIDE DEF balancer
  <2>4. DOMAIN ours = {"Global", "LoadBalancer"} /\ ours["Global"] = Over(CloudsKeys, global)
        /\ ours["LoadBalancer"] = balancer
    OBVIOUS
  <2> HIDE DEF ours
  <2>5. DOMAIN rest = DOMAIN given \ {"BlockStorage"} /\ \A x \in DOMAIN rest : rest[x] = given[x]
    BY DEF Without, Restrict
  <2> HIDE DEF rest
  <2>6. /\ DOMAIN made = DOMAIN ours \cup DOMAIN rest
        /\ \A x \in DOMAIN ours : made[x] = ours[x]
        /\ \A x \in DOMAIN rest \ DOMAIN ours : made[x] = rest[x]
    BY DEF Over
  <2> HIDE DEF made
  <2>7. /\ made["Global"] = Over(CloudsKeys, global) /\ made["LoadBalancer"] = balancer
        /\ DOMAIN made = (DOMAIN given \ {"BlockStorage"}) \cup {"Global", "LoadBalancer"}
        /\ \A k \in DOMAIN given \ {"Global", "LoadBalancer", "BlockStorage"} : made[k] = given[k]
    BY <2>4, <2>5, <2>6
  <2>8. /\ DOMAIN made["Global"] \cap LegacyKeys = {}
        /\ made["Global"]["clouds-file"] = "/etc/openstack/secret/clouds.yaml"
    BY <2>2, <2>7, GlobalIs
  <2>9. OpenStackContract(s, made)
    <3>1. Given(s) = given
      BY <1>4 DEF Given
    <3>2. BalancerContract(GivenBalancer(s), made["LoadBalancer"])
      BY <3>1, <2>3, <2>7 DEF GivenBalancer
    <3> QED  BY <3>1, <3>2, <2>7, <2>8, SectionsMake
  <2>10. made # None
    BY <2>7, SomethingThere
  <2>11. o.conf = made /\ o = Ok(o.conf)
    BY <2>1, SMT DEF Ok
  <2> QED  BY <2>9, <2>10, <2>11
<1>5. QED
  BY <1>3, <1>4

-----------------------------------------------------------------------------
(* Every transformer *)

\* What a source of the platform is made into.
LEMMA TransformMakes ==
  ASSUME platform \in PlatformsOf, NEW s \in SourcesOf(platform), NEW gates,
         NEW o \in Transform(platform, s, gates), o.result = "ok"
  PROVE  /\ o = Ok(o.conf) /\ o.conf # None
         /\ platform.type = "AWS" => AWSContract(s, gates, o.conf)
         /\ platform.type = "Azure" => AzureContract(s, o.conf) /\ DOMAIN o.conf \subseteq AzureFields
         /\ platform.type = "OpenStack" => OpenStackContract(s, o.conf)
<1>1. o # Error /\ o # Panic
  BY SMT DEF Error, Panic
<1>2. CASE platform.type = "AWS"
  <2>1. o \in AWSTransformer(s, gates)
    BY <1>2 DEF Transform
  <2>2. IsAWSSource(s)
    BY <1>2, InputsAssumption
  <2>3. AWSContract(s, gates, o.conf) /\ o.conf # None /\ o = Ok(o.conf)
    BY <1>1, <2>1, <2>2, AWSMakes, AWSOutcome
  <2> QED  BY <1>2, <2>3
<1>3. CASE platform.type = "OpenStack"
  <2>1. o = OpenStackTransformer(s)
    BY <1>3 DEF Transform
  <2>2. OpenStackContract(s, o.conf) /\ o = Ok(o.conf) /\ o.conf # None
    BY <1>1, <2>1, OpenStackMakes
  <2> QED  BY <1>3, <2>2
<1>4. CASE platform.type = "Azure"
  <2>1. /\ AzureContract(s, o.conf) /\ o = Ok(o.conf)
        /\ o.conf # None /\ DOMAIN o.conf \subseteq AzureFields
    <3>1. CASE IsAzureStackHub(platform)
      <4>1. o = AzureStackTransformer(s)
        BY <1>4, <3>1 DEF Transform
      <4> QED  BY <1>1, <3>1, <4>1, AzureStackMakes
    <3>2. CASE ~IsAzureStackHub(platform)
      <4>1. o = AzureTransformer(s, platform.cloudName)
        BY <1>4, <3>2 DEF Transform
      <4> QED  BY <1>1, <4>1, AzureMakes
    <3> QED  BY <3>1, <3>2
  <2> QED  BY <1>4, <2>1
<1>5. QED
  BY <1>2, <1>3, <1>4, PipelineAssumption

\* A transformer that succeeds has one result, in whatever order Go walks its maps.
LEMMA TransformUnique ==
  ASSUME platform \in PlatformsOf, NEW s \in SourcesOf(platform), NEW gates,
         NEW a \in Transform(platform, s, gates), NEW b \in Transform(platform, s, gates),
         a.result = "ok", b.result = "ok"
  PROVE  a = b
<1>1. a # Error /\ b # Error
  BY SMT DEF Error
<1>2. CASE platform.type = "AWS"
  <2>1. a \in AWSTransformer(s, gates) /\ b \in AWSTransformer(s, gates)
    BY <1>2 DEF Transform
  <2>2. IsAWSSource(s)
    BY <1>2, InputsAssumption
  <2>3. /\ Named(Made(s, gates)) /\ a = Ok(a.conf) /\ b = Ok(b.conf)
        /\ SortedFrom(Made(s, gates), a.conf) /\ SortedFrom(Made(s, gates), b.conf)
    BY <1>1, <2>1, <2>2, AWSOutcome
  <2>4. a.conf = b.conf
    BY <2>3, SortedUnique
  <2> QED  BY <2>3, <2>4
<1>3. CASE platform.type = "OpenStack"
  BY <1>3 DEF Transform
<1>4. CASE platform.type = "Azure"
  BY <1>4, SMT DEF Transform
<1>5. QED
  BY <1>2, <1>3, <1>4, PipelineAssumption

-----------------------------------------------------------------------------
(* cloud-conf *)

(* The invariant: cloud-conf is a result for what it was made from.        *)
SyncInv ==
  /\ platform \in PlatformsOf /\ source \in SourcesOf(platform)
  /\ cloudConf = None => syncedFrom = None
  /\ cloudConf # None =>
       /\ syncedFrom.source \in SourcesOf(platform)
       /\ Ok(cloudConf) \in Transform(platform, syncedFrom.source, syncedFrom.features)

\* A step that syncs, or leaves cloud-conf alone.
Synced ==
  /\ cloudConf' # None
  /\ syncedFrom' = [source |-> source, features |-> features]
  /\ Ok(cloudConf') \in Transform(platform, source, features)
  /\ UNCHANGED <<platform, source, features>>

NotSynced ==
  /\ UNCHANGED <<platform, cloudConf, syncedFrom>>
  /\ source' = source \/ source' \in SourcesOf(platform)

(* A sync writes a result of the transformer, or leaves cloud-conf alone.  *)
LEMMA SyncStep ==
  ASSUME platform \in PlatformsOf, source \in SourcesOf(platform), Sync PROVE Synced \/ NotSynced
<1>1. PICK outcome \in Transform(platform, source, features) :
        \/ outcome.result = "panic" /\ UNCHANGED <<cloudConf, reported, historyVars>>
        \/ /\ outcome.result = "error"
           /\ reported' = "degraded"
           /\ UNCHANGED <<cloudConf, historyVars>>
        \/ /\ outcome.result = "ok"
           /\ reported' = "available"
           /\ cloudConf' = outcome.conf
           /\ syncedFrom' = [source |-> source, features |-> features]
           /\ IF outcome.conf = cloudConf THEN UNCHANGED returned
              ELSE Record("cloud-conf", outcome.conf)
  BY DEF Sync
<1>2. UNCHANGED inputVars
  BY DEF Sync
<1>3. CASE outcome.result = "ok"
  <2>1. outcome = Ok(outcome.conf) /\ outcome.conf # None
    BY <1>3, TransformMakes
  <2>2. cloudConf' = outcome.conf /\ syncedFrom' = [source |-> source, features |-> features]
    BY <1>1, <1>3
  <2> QED  BY <1>2, <2>1, <2>2 DEF Synced, inputVars
<1>4. CASE outcome.result # "ok"
  BY <1>1, <1>2, <1>4 DEF NotSynced, inputVars, historyVars
<1>5. QED
  BY <1>3, <1>4

(* So does every step.                                                     *)
LEMMA StepSyncs ==
  ASSUME SyncInv, [Next]_vars PROVE Synced \/ NotSynced
<1>1. CASE Sync
  BY <1>1, SyncStep DEF SyncInv
<1>2. CASE \/ Apply \/ ApplyUnread \/ StartPod \/ ReadFile \/ StartCCM \/ ReplacePod \/ RestartCCM
           \/ \E n \in Mounted : Refresh(n)
  BY <1>2 DEF NotSynced, Apply, ApplyUnread, StartPod, ReadFile, StartCCM, ReplacePod, RestartCCM,
              Refresh, unlessPod, inputVars, historyVars
<1>3. ASSUME NEW s \in SourcesOf(platform), ChangeSource(s) PROVE NotSynced
  BY <1>3 DEF NotSynced, ChangeSource, Change
<1>4. ASSUME NEW f \in FeatureSets, ChangeFeatures(f) PROVE NotSynced
  BY <1>4 DEF NotSynced, ChangeFeatures, Change
<1>5. ASSUME NEW x \in SecretsOf(platform), ChangeSecret(x) PROVE NotSynced
  BY <1>5 DEF NotSynced, ChangeSecret, Change
<1>6. ASSUME NEW b \in Bundles, ChangeBundle(b) PROVE NotSynced
  BY <1>6 DEF NotSynced, ChangeBundle, Change
<1>7. CASE UNCHANGED vars
  BY <1>7 DEF NotSynced, vars, inputVars, historyVars
<1>8. QED
  BY <1>1, <1>2, <1>3, <1>4, <1>5, <1>6, <1>7 DEF Next

(* Initially there is no cloud-conf.                                       *)
LEMMA InitSync ==
  ASSUME Init PROVE SyncInv
BY DEF Init, SyncInv

(* Every step keeps cloud-conf a result for what it was made from.         *)
LEMMA SyncStays ==
  ASSUME SyncInv, [Next]_vars PROVE SyncInv'
<1>1. CASE Synced
  <2>1. syncedFrom'.source = source /\ syncedFrom'.features = features
    BY <1>1 DEF Synced
  <2> QED  BY <1>1, <2>1 DEF Synced, SyncInv
<1>2. CASE NotSynced
  BY <1>2 DEF NotSynced, SyncInv
<1>3. QED
  BY <1>1, <1>2, StepSyncs

(* The invariant of cloud-conf holds.                                      *)
LEMMA AlwaysSync ==
  Spec => []SyncInv
<1>1. Init => SyncInv
  BY InitSync
<1>2. SyncInv /\ [Next]_vars => SyncInv'
  BY SyncStays
<1>3. QED
  BY <1>1, <1>2, PTL DEF Spec

(* A result for its inputs meets the contract.                             *)
LEMMA SyncMeansContract ==
  ASSUME SyncInv PROVE TransformContract
<1> SUFFICES ASSUME cloudConf # None
             PROVE  /\ platform.type = "AWS" => AWSContract(syncedFrom.source, syncedFrom.features, cloudConf)
                    /\ platform.type = "Azure" => AzureContract(syncedFrom.source, cloudConf)
                    /\ platform.type = "OpenStack" => OpenStackContract(syncedFrom.source, cloudConf)
  BY PipelineAssumption DEF TransformContract, SyncInv
<1> DEFINE o == Ok(cloudConf)
           s == syncedFrom.source
           gates == syncedFrom.features
<1>1. o.result = "ok" /\ o.conf = cloudConf
  BY DEF Ok
<1>2. platform \in PlatformsOf /\ s \in SourcesOf(platform) /\ o \in Transform(platform, s, gates)
  BY DEF SyncInv
<1> HIDE DEF o, s, gates
<1>3. /\ platform.type = "AWS" => AWSContract(s, gates, o.conf)
      /\ platform.type = "Azure" => AzureContract(s, o.conf)
      /\ platform.type = "OpenStack" => OpenStackContract(s, o.conf)
  BY <1>1, <1>2, TransformMakes
<1>4. QED
  BY <1>1, <1>3 DEF s, gates

(* For any source, service overrides and feature gates, and in whatever    *)
(* order Go walks the overrides, cloud-conf is what the transformer of the *)
(* platform is for: OpenShift's settings where they are due, the user's    *)
(* otherwise, each section once, [Global] first, and no legacy setting.    *)
THEOREM TransformContractHolds ==
  Spec => []TransformContract
<1>1. SyncInv => TransformContract
  BY SyncMeansContract
<1>2. QED
  BY <1>1, AlwaysSync, PTL

(* For any source and gates, a sync rewrites cloud-conf only for a source  *)
(* or gates it was not made from: the result is the same in whatever order *)
(* the overrides come out of the map.                                      *)
THEOREM SyncIsAlwaysStable ==
  Spec => SyncIsStable
<1>1. SyncInv /\ [Next]_vars =>
        [cloudConf' # cloudConf => syncedFrom # [source |-> source, features |-> features]]_vars
  <2> SUFFICES ASSUME SyncInv, [Next]_vars, cloudConf' # cloudConf,
                      syncedFrom = [source |-> source, features |-> features]
               PROVE  FALSE
    OBVIOUS
  <2>1. Synced
    BY StepSyncs DEF NotSynced
  <2>2. cloudConf # None
    <3>1. DOMAIN syncedFrom = {"source", "features"}
      OBVIOUS
    <3>2. syncedFrom # None
      BY <3>1, SomethingThere
    <3> QED  BY <3>2 DEF SyncInv
  <2>3. syncedFrom.source = source /\ syncedFrom.features = features
    OBVIOUS
  <2>4. /\ platform \in PlatformsOf /\ source \in SourcesOf(platform)
        /\ Ok(cloudConf) \in Transform(platform, source, features)
        /\ Ok(cloudConf') \in Transform(platform, source, features)
    BY <2>1, <2>2, <2>3 DEF SyncInv, Synced
  <2>5. Ok(cloudConf).result = "ok" /\ Ok(cloudConf').result = "ok"
    BY DEF Ok
  <2>6. Ok(cloudConf) = Ok(cloudConf')
    BY <2>4, <2>5, TransformUnique
  <2>7. Ok(cloudConf).conf = cloudConf /\ Ok(cloudConf').conf = cloudConf'
    BY DEF Ok
  <2> QED  BY <2>6, <2>7
<1>2. QED
  BY <1>1, AlwaysSync, PTL DEF Spec, SyncIsStable

-----------------------------------------------------------------------------
(* Types, and what the steps do to the pod *)

(* The injector reads four files, then the manager starts.                 *)
LEMMA Stages ==
  /\ Len(CredentialFiles) = 4 /\ Starting = 5 /\ Running = 6
  /\ Range(CredentialFiles) = {CredentialFiles[i] : i \in 1 .. 4}
  /\ \A i \in 1 .. 4 : CredentialFiles[i] \in Range(CredentialFiles)
<1>1. Len(CredentialFiles) = 4 /\ DOMAIN CredentialFiles = 1 .. 4
  BY SMT DEF CredentialFiles
<1> HIDE DEF CredentialFiles
<1>2. QED
  BY <1>1, SMT DEF Starting, Running, Range

Names == {"cloud-conf", "ccm-trusted-ca", "credentials"}

\* The related configs, by name.
Contents ==
  [n \in Names |-> CASE n = "cloud-conf" -> cloudConf
                     [] n = "ccm-trusted-ca" -> bundle
                     [] OTHER -> secret]

(* Each name has its content; those of the platform's Deployment are hashed. *)
LEMMA ContentsAre ==
  /\ DOMAIN Contents = Names
  /\ Contents["cloud-conf"] = cloudConf /\ Contents["ccm-trusted-ca"] = bundle
  /\ Contents["credentials"] = secret
  /\ \A n \in Names : Related(n) = Contents[n]
  /\ Mounted \subseteq Names /\ "cloud-conf" \in Mounted /\ "ccm-trusted-ca" \in Mounted
  /\ "credentials" \in Mounted <=> platform.type # "AWS"
  /\ collectRelatedConfigSources = Mounted
<1>1. /\ DOMAIN Contents = Names
      /\ Contents["cloud-conf"] = cloudConf /\ Contents["ccm-trusted-ca"] = bundle
      /\ Contents["credentials"] = secret
  BY SMT DEF Contents, Names
<1>2. \A n \in Names : Related(n) = Contents[n]
  BY SMT DEF Contents, Names, Related
<1>3. /\ Mounted \subseteq Names /\ "cloud-conf" \in Mounted /\ "ccm-trusted-ca" \in Mounted
      /\ "credentials" \in Mounted <=> platform.type # "AWS"
  BY DEF Mounted, Names
<1>4. collectRelatedConfigSources = Mounted
  BY DEF collectRelatedConfigSources, Kind
<1>5. QED
  BY <1>1, <1>2, <1>3, <1>4

Fields == {"template", "stage", "mounts", "files", "config"}

TypeInv ==
  /\ TypeOK /\ platform \in PlatformsOf
  /\ pod # None => DOMAIN pod = Fields /\ pod.mounts = [n \in Mounted |-> pod.mounts[n]]

PodIs(p, hash, stage, mounts, files, config) ==
  /\ DOMAIN p = Fields
  /\ p.template = hash /\ p.stage = stage /\ p.mounts = mounts
  /\ p.files = files /\ p.config = config

\* The mounts of a pod that starts now.
Mounts == [n \in Mounted |-> Contents[n]]

\* A pod starts.
Fresh ==
  \/ /\ template # NoTemplate /\ cloudConf # None
     /\ PodIs(pod', template, FirstStage, Mounts, << >>, None)
  \/ pod # None /\ PodIs(pod', pod.template, FirstStage, Mounts, << >>, None)

\* The kubelet replaces its files.
Remounts ==
  /\ pod # None
  /\ \E mounts :
       /\ mounts = [n \in Mounted |-> mounts[n]]
       /\ \A n \in Mounted : mounts[n] = pod.mounts[n] \/ mounts[n] = Contents[n]
       /\ PodIs(pod', pod.template, pod.stage, mounts, pod.files, pod.config)

\* The injector reads a file.
Reads ==
  /\ pod # None /\ pod.stage \in 1 .. 4
  /\ LET file == CredentialFiles[pod.stage]
         found == pod.mounts["credentials"]
     IN  \/ pod' = pod
         \/ /\ file \in DOMAIN found
            /\ PodIs(pod', pod.template, pod.stage + 1, pod.mounts,
                     With(pod.files, file, found[file]), pod.config)
         \/ /\ file \notin DOMAIN found
            /\ PodIs(pod', pod.template, pod.stage + 1, pod.mounts, pod.files, pod.config)

\* The manager starts, or the injector has to start again.
Starts ==
  /\ pod # None
  /\ \/ /\ platform.type # "Azure"
        /\ PodIs(pod', pod.template, Running, pod.mounts, pod.files, Config(pod.mounts, pod.mounts))
     \/ /\ platform.type = "Azure" /\ pod.stage = Starting /\ Complete(pod.files)
        /\ PodIs(pod', pod.template, Running, pod.mounts, pod.files,
                 Config(pod.mounts, prepareCloudConfig(pod.mounts["cloud-conf"], pod.files,
                                                       ~IsAzureStackHub(platform))))
     \/ /\ platform.type = "Azure" /\ pod.stage = Starting
        /\ PodIs(pod', pod.template, 1, pod.mounts, << >>, pod.config)
     \/ /\ platform.type = "Azure" /\ pod.stage = Running
        /\ PodIs(pod', pod.template, Running, pod.mounts, pod.files,
                 Config(pod.mounts, pod.config.settings))

(* A new pod has the mounts of now, and has read nothing.                  *)
LEMMA NewPodIs ==
  PodIs(NewPod, template, FirstStage, Mounts, << >>, None)
<1>1. [n \in Mounted |-> Related(n)] = Mounts
  BY ContentsAre DEF Mounts
<1>2. QED
  BY <1>1 DEF PodIs, NewPod, Fields

(* A pod of a new template, or in the place of another, is a fresh one.    *)
LEMMA StartPodStep ==
  ASSUME StartPod \/ ReplacePod PROVE Fresh
<1>1. CASE StartPod
  <2>1. cloudConf # None
    BY <1>1, ContentsAre DEF StartPod
  <2> QED  BY <1>1, <2>1, NewPodIs DEF StartPod, Fresh
<1>2. CASE ReplacePod
  <2>1. pod # None /\ pod' = [NewPod EXCEPT !.template = pod.template]
    BY <1>2 DEF ReplacePod
  <2>2. PodIs(pod', pod.template, FirstStage, Mounts, << >>, None)
    BY <2>1, NewPodIs DEF PodIs, Fields
  <2> QED  BY <2>1, <2>2 DEF Fresh
<1>3. QED
  BY <1>1, <1>2

(* The kubelet replaces the files of a volume.                             *)
LEMMA RefreshStep ==
  ASSUME TypeInv, NEW n \in Mounted, Refresh(n) PROVE Remounts
<1> DEFINE mounts == [pod.mounts EXCEPT ![n] = Related(n)]
<1>1. /\ pod # None /\ DOMAIN pod = Fields /\ DOMAIN pod.mounts = Mounted
      /\ pod' = [pod EXCEPT !.mounts = mounts]
  BY DEF Refresh, TypeInv, TypeOK
<1>2. /\ mounts = [m \in Mounted |-> mounts[m]]
      /\ \A m \in Mounted : mounts[m] = pod.mounts[m] \/ mounts[m] = Related(m)
  BY <1>1
<1> HIDE DEF mounts
<1>3. PodIs(pod', pod.template, pod.stage, mounts, pod.files, pod.config)
  BY <1>1 DEF PodIs, Fields
<1>4. \A m \in Mounted : mounts[m] = pod.mounts[m] \/ mounts[m] = Contents[m]
  BY <1>2, ContentsAre
<1>5. QED
  BY <1>1, <1>2, <1>3, <1>4 DEF Remounts

(* The injector reads a file, or finds none, or waits.                     *)
LEMMA ReadStep ==
  ASSUME TypeInv, ReadFile PROVE Reads
<1> DEFINE file == CredentialFiles[pod.stage]
           found == pod.mounts["credentials"]
           more == With(pod.files, file, found[file])
<1>1. pod # None /\ DOMAIN pod = Fields /\ pod.stage \in 1 .. 4
  BY Stages DEF ReadFile, TypeInv
<1>2. pod' = IF file \in DOMAIN found
             THEN [pod EXCEPT !.files = more, !.stage = pod.stage + 1]
             ELSE IF file = "azure_client_id" THEN pod
                  ELSE [pod EXCEPT !.stage = pod.stage + 1]
  BY DEF ReadFile
<1> HIDE DEF file, more, found
<1>3. CASE file \in DOMAIN found
  <2>1. pod' = [pod EXCEPT !.files = more, !.stage = pod.stage + 1]
    BY <1>2, <1>3
  <2>2. PodIs(pod', pod.template, pod.stage + 1, pod.mounts, more, pod.config)
    BY <1>1, <2>1 DEF PodIs, Fields
  <2> QED  BY <1>1, <1>3, <2>2 DEF Reads, file, more, found
<1>4. CASE file \notin DOMAIN found /\ file = "azure_client_id"
  BY <1>1, <1>2, <1>4 DEF Reads
<1>5. CASE file \notin DOMAIN found /\ file # "azure_client_id"
  <2>1. pod' = [pod EXCEPT !.stage = pod.stage + 1]
    BY <1>2, <1>5
  <2>2. PodIs(pod', pod.template, pod.stage + 1, pod.mounts, pod.files, pod.config)
    BY <1>1, <2>1 DEF PodIs, Fields
  <2> QED  BY <1>1, <1>5, <2>2 DEF Reads, file, found
<1>6. QED
  BY <1>3, <1>4, <1>5

(* The manager starts, or the injector refuses and starts again.           *)
LEMMA StartCCMStep ==
  ASSUME TypeInv, StartCCM PROVE Starts
<1> DEFINE mounted == Config(pod.mounts, pod.mounts)
           prepared == Config(pod.mounts, prepareCloudConfig(pod.mounts["cloud-conf"], pod.files,
                                                             ~IsAzureStackHub(platform)))
<1>1. pod # None /\ DOMAIN pod = Fields /\ pod.stage = Starting
  BY DEF StartCCM, TypeInv
<1>2. pod' = IF platform.type # "Azure"
             THEN [pod EXCEPT !.stage = Running, !.config = mounted]
             ELSE IF Complete(pod.files)
             THEN [pod EXCEPT !.stage = Running, !.config = prepared]
             ELSE [pod EXCEPT !.stage = 1, !.files = << >>]
  BY DEF StartCCM
<1> HIDE DEF mounted, prepared
<1>3. CASE platform.type # "Azure"
  <2>1. pod' = [pod EXCEPT !.stage = Running, !.config = mounted]
    BY <1>2, <1>3
  <2>2. PodIs(pod', pod.template, Running, pod.mounts, pod.files, mounted)
    BY <1>1, <2>1 DEF PodIs, Fields
  <2> QED  BY <1>1, <1>3, <2>2 DEF Starts, mounted
<1>4. CASE platform.type = "Azure" /\ Complete(pod.files)
  <2>1. pod' = [pod EXCEPT !.stage = Running, !.config = prepared]
    BY <1>2, <1>4
  <2>2. PodIs(pod', pod.template, Running, pod.mounts, pod.files, prepared)
    BY <1>1, <2>1 DEF PodIs, Fields
  <2> QED  BY <1>1, <1>4, <2>2 DEF Starts, prepared
<1>5. CASE platform.type = "Azure" /\ ~Complete(pod.files)
  <2>1. pod' = [pod EXCEPT !.stage = 1, !.files = << >>]
    BY <1>2, <1>5
  <2>2. PodIs(pod', pod.template, 1, pod.mounts, << >>, pod.config)
    BY <1>1, <2>1 DEF PodIs, Fields
  <2> QED  BY <1>1, <1>5, <2>2 DEF Starts
<1>6. QED
  BY <1>3, <1>4, <1>5

(* A restarted manager has the files of now, and on Azure what the         *)
(* injector wrote.                                                         *)
LEMMA RestartStep ==
  ASSUME TypeInv, RestartCCM PROVE Starts
<1> DEFINE settings == IF platform.type = "Azure" THEN pod.config.settings ELSE pod.mounts
           config == Config(pod.mounts, settings)
<1>1. pod # None /\ DOMAIN pod = Fields /\ pod.stage = Running /\ pod' = [pod EXCEPT !.config = config]
  BY DEF RestartCCM, TypeInv
<1> HIDE DEF config
<1>2. PodIs(pod', pod.template, Running, pod.mounts, pod.files, config)
  BY <1>1 DEF PodIs, Fields
<1>3. QED
  BY <1>1, <1>2 DEF Starts, config

\* What a step of the pod leaves alone.
Still == UNCHANGED <<platform, source, features, secret, bundle, cloudConf, template, syncedFrom>>

Moves == (Remounts \/ Reads \/ Starts) /\ UNCHANGED returned

(* All that a step can do to the pod; the platform is fixed.               *)
LEMMA PodSteps ==
  ASSUME TypeInv, [Next]_vars
  PROVE  /\ platform' = platform /\ Mounted' = Mounted
         /\ UNCHANGED pod \/ (Still /\ (Fresh \/ Moves))
<1> SUFFICES platform' = platform /\ (UNCHANGED pod \/ (Still /\ (Fresh \/ Moves)))
  BY DEF Mounted
<1>1. CASE Sync \/ Apply \/ ApplyUnread
  BY <1>1 DEF Sync, Apply, ApplyUnread, inputVars
<1>2. CASE StartPod \/ ReplacePod
  <2>1. Still
    BY <1>2 DEF Still, StartPod, ReplacePod, unlessPod, inputVars
  <2> QED  BY <1>2, <2>1, StartPodStep DEF Still
<1>3. CASE ReadFile \/ StartCCM \/ RestartCCM
  <2>1. Still /\ UNCHANGED returned
    BY <1>3 DEF Still, ReadFile, StartCCM, RestartCCM, unlessPod, inputVars
  <2>2. Reads \/ Starts
    BY <1>3, ReadStep, StartCCMStep, RestartStep
  <2> QED  BY <2>1, <2>2 DEF Still, Moves
<1>4. ASSUME NEW n \in Mounted, Refresh(n) PROVE platform' = platform /\ Still /\ Moves
  <2>1. Still /\ UNCHANGED returned
    BY <1>4 DEF Still, Refresh, unlessPod, inputVars
  <2> QED  BY <1>4, <2>1, RefreshStep DEF Still, Moves
<1>5. ASSUME NEW s \in SourcesOf(platform), ChangeSource(s) PROVE UNCHANGED <<platform, pod>>
  BY <1>5 DEF ChangeSource, Change
<1>6. ASSUME NEW f \in FeatureSets, ChangeFeatures(f) PROVE UNCHANGED <<platform, pod>>
  BY <1>6 DEF ChangeFeatures, Change
<1>7. ASSUME NEW x \in SecretsOf(platform), ChangeSecret(x) PROVE UNCHANGED <<platform, pod>>
  BY <1>7 DEF ChangeSecret, Change
<1>8. ASSUME NEW b \in Bundles, ChangeBundle(b) PROVE UNCHANGED <<platform, pod>>
  BY <1>8 DEF ChangeBundle, Change
<1>9. CASE UNCHANGED vars
  BY <1>9 DEF vars, inputVars
<1>10. QED
  BY <1>1, <1>2, <1>3, <1>4, <1>5, <1>6, <1>7, <1>8, <1>9 DEF Next

\* What the injector makes is there.
LEMMA PreparedThere ==
  ASSUME NEW conf, NEW files, NEW off PROVE prepareCloudConfig(conf, files, off) # None
<1>1. "aadClientId" \in DOMAIN prepareCloudConfig(conf, files, off)
  BY DEF prepareCloudConfig, Over
<1>2. QED
  BY <1>1, SomethingThere

(* A running manager has a config, made of settings and trusted CAs.       *)
LEMMA ConfigIs ==
  ASSUME NEW mounts, NEW settings
  PROVE  /\ Config(mounts, settings) # None
         /\ Config(mounts, settings).settings = settings
         /\ Config(mounts, settings).trust = mounts["ccm-trusted-ca"]
         /\ Config(mounts, settings) = [settings |-> settings, trust |-> mounts["ccm-trusted-ca"]]
<1>1. DOMAIN Config(mounts, settings) # {}
  BY DEF Config
<1>2. QED
  BY <1>1, SomethingThere DEF Config

\* The part of TypeOK that is about the pod.
PodTyped(p, M) ==
  /\ DOMAIN p = Fields
  /\ DOMAIN p.template \in {{}, M}
  /\ DOMAIN p.mounts = M /\ p.mounts = [n \in M |-> p.mounts[n]]
  /\ p.stage \in 1 .. Running
  /\ DOMAIN p.files \subseteq Range(CredentialFiles)
  /\ p.stage = Running <=> p.config # None

(* Every step keeps the type of the pod.                                   *)
LEMMA PodTypeStays ==
  ASSUME TypeInv, [Next]_vars, pod' # None PROVE PodTyped(pod', Mounted)
<1> DEFINE M == Mounted
<1>1. pod # None => PodTyped(pod, M)
  BY DEF TypeInv, TypeOK, PodTyped
<1>2. DOMAIN << >> = {}
  BY SMT
<1> HIDE DEF M
<1>3. CASE UNCHANGED pod
  BY <1>1, <1>3 DEF M
<1>4. CASE Fresh
  <2>1. PICK hash : PodIs(pod', hash, FirstStage, Mounts, << >>, None) /\ DOMAIN hash \in {{}, M}
    <3>1. template # NoTemplate => DOMAIN template \in {{}, M}
      BY DEF TypeInv, TypeOK, M
    <3>2. pod # None => DOMAIN pod.template \in {{}, M}
      BY <1>1 DEF PodTyped
    <3> QED  BY <1>4, <3>1, <3>2 DEF Fresh
  <2>2. FirstStage \in {1, 5}
    BY Stages DEF FirstStage
  <2>3. DOMAIN Mounts = M /\ Mounts = [n \in M |-> Mounts[n]]
    BY DEF Mounts, M
  <2>4. FirstStage \in 1 .. Running /\ FirstStage # Running
    BY <2>2, Stages, SMT
  <2> QED  BY <1>2, <2>1, <2>3, <2>4 DEF PodIs, PodTyped, M
<1>5. CASE Remounts
  <2>1. PICK mounts :
          /\ mounts = [n \in M |-> mounts[n]]
          /\ PodIs(pod', pod.template, pod.stage, mounts, pod.files, pod.config)
    BY <1>5 DEF Remounts, M
  <2>2. PodTyped(pod, M) /\ DOMAIN mounts = M
    BY <1>1, <1>5, <2>1 DEF Remounts
  <2> QED  BY <2>1, <2>2 DEF PodIs, PodTyped, M
<1>6. CASE Reads
  <2> DEFINE file == CredentialFiles[pod.stage]
             found == pod.mounts["credentials"]
             more == With(pod.files, file, found[file])
  <2>1. pod.stage \in 1 .. 4 /\ PodTyped(pod, M)
    BY <1>1, <1>6 DEF Reads
  <2>2. DOMAIN more \subseteq Range(CredentialFiles)
    <3>1. file \in Range(CredentialFiles)
      BY <2>1, Stages
    <3>2. DOMAIN more = DOMAIN pod.files \cup {file}
      BY DEF With
    <3> HIDE DEF file, more
    <3> QED  BY <2>1, <3>1, <3>2 DEF PodTyped
  <2> HIDE DEF more
  <2>3. pod.stage # Running /\ pod.stage + 1 \in 1 .. Running /\ pod.stage + 1 # Running
    BY <2>1, Stages, SMT
  <2>4. pod.config = None
    BY <2>1, <2>3 DEF PodTyped
  <2>5. CASE pod' = pod
    BY <2>1, <2>5 DEF M
  <2>6. CASE PodIs(pod', pod.template, pod.stage + 1, pod.mounts, more, pod.config)
    BY <2>1, <2>2, <2>3, <2>4, <2>6 DEF PodIs, PodTyped, M
  <2>7. CASE PodIs(pod', pod.template, pod.stage + 1, pod.mounts, pod.files, pod.config)
    BY <2>1, <2>3, <2>4, <2>7 DEF PodIs, PodTyped, M
  <2> QED  BY <1>6, <2>5, <2>6, <2>7 DEF Reads, more
<1>7. CASE Starts
  <2>1. PodTyped(pod, M)
    BY <1>1, <1>7 DEF Starts
  <2>2. Running \in 1 .. Running /\ 1 \in 1 .. Running /\ 1 # Running /\ Starting # Running
    BY Stages, SMT
  <2>3. CASE \E settings : PodIs(pod', pod.template, Running, pod.mounts, pod.files,
                                 Config(pod.mounts, settings))
    <3>1. PICK settings : PodIs(pod', pod.template, Running, pod.mounts, pod.files,
                                Config(pod.mounts, settings))
      BY <2>3
    <3>2. Config(pod.mounts, settings) # None
      BY ConfigIs
    <3> QED  BY <2>1, <2>2, <3>1, <3>2 DEF PodIs, PodTyped, M
  <2>4. CASE /\ pod.stage = Starting
             /\ PodIs(pod', pod.template, 1, pod.mounts, << >>, pod.config)
    BY <1>2, <2>1, <2>2, <2>4 DEF PodIs, PodTyped, M
  <2> QED  BY <1>7, <2>3, <2>4 DEF Starts
<1>8. QED
  BY <1>3, <1>4, <1>5, <1>6, <1>7, PodSteps DEF Moves

(* Apply hashes all that the pods of the platform read, or nothing.        *)
LEMMA TemplateIs ==
  ASSUME Apply \/ ApplyUnread PROVE DOMAIN template' \in {{}, Mounted}
<1>1. DOMAIN Hashless = {}
  BY SMT DEF Hashless
<1>2. CASE template' = Hashless
  BY <1>1, <1>2
<1>3. CASE template' = [n \in Mounted |-> Related(n)]
  BY <1>3
<1>4. QED
  BY <1>2, <1>3, ContentsAre DEF Apply, ApplyUnread, calculateRelatedConfigsHash

(* Every step keeps the types.                                             *)
LEMMA TypeStays ==
  ASSUME TypeInv, [Next]_vars PROVE TypeInv'
<1> USE PipelineAssumption
<1>1. pod' # None => PodTyped(pod', Mounted)
  BY PodTypeStays
<1> DEFINE Numbers == changes \in 0 .. MaxChanges /\ faults \in 0 .. MaxFaults
           Inputs ==
             /\ platform \in PlatformsOf /\ source \in SourcesOf(platform)
             /\ secret \in SecretsOf(platform) /\ bundle \in Bundles
           Rest ==
             /\ reported \in {"none", "degraded", "available"} /\ returned \in BOOLEAN
             /\ template = NoTemplate \/ DOMAIN template \in {{}, Mounted}
<1>2. Inputs /\ Numbers /\ Rest
  BY DEF TypeInv, TypeOK
<1>3. platform' = platform /\ Mounted' = Mounted
  BY PodSteps
<1>4. (Inputs /\ Numbers /\ Rest)'
  <2>1. CASE Sync
    <3>1. PICK outcome \in Transform(platform, source, features) :
            \/ outcome.result = "panic" /\ UNCHANGED <<cloudConf, reported, historyVars>>
            \/ /\ outcome.result = "error"
               /\ reported' = "degraded"
               /\ UNCHANGED <<cloudConf, historyVars>>
            \/ /\ outcome.result = "ok"
               /\ reported' = "available"
               /\ cloudConf' = outcome.conf
               /\ syncedFrom' = [source |-> source, features |-> features]
               /\ IF outcome.conf = cloudConf THEN UNCHANGED returned
                  ELSE Record("cloud-conf", outcome.conf)
      BY <2>1 DEF Sync
    <3>2. reported' \in {"none", "degraded", "available"} /\ returned' \in BOOLEAN
      BY <1>2, <3>1 DEF historyVars, Record
    <3>3. UNCHANGED <<inputVars, template, faults>>
      BY <2>1 DEF Sync
    <3> QED  BY <1>2, <1>3, <3>2, <3>3 DEF inputVars
  <2>2. CASE Apply \/ ApplyUnread
    <3>1. DOMAIN template' \in {{}, Mounted}
      BY <2>2, TemplateIs
    <3>2. UNCHANGED <<inputVars, reported, historyVars>>
      BY <2>2 DEF Apply, ApplyUnread
    <3>3. Inputs' /\ Rest'
      BY <1>2, <1>3, <3>1, <3>2 DEF inputVars, historyVars
    <3>4. changes' = changes /\ (faults' = faults \/ Fault)
      BY <2>2, <3>2 DEF Apply, ApplyUnread, inputVars
    <3>5. Numbers'
      BY <1>2, <3>4, SMT DEF Fault
    <3> QED  BY <3>3, <3>5
  <2>3. CASE StartPod \/ ReadFile \/ StartCCM \/ ReplacePod \/ RestartCCM \/ \E n \in Mounted : Refresh(n)
    <3>1. UNCHANGED unlessPod /\ (faults' = faults \/ Fault) /\ (returned' = FALSE \/ UNCHANGED returned)
      BY <2>3 DEF StartPod, ReadFile, StartCCM, ReplacePod, RestartCCM, Refresh
    <3>2. Inputs' /\ Rest' /\ changes' = changes
      BY <1>2, <1>3, <3>1 DEF unlessPod, inputVars
    <3>3. Numbers'
      BY <1>2, <3>1, <3>2, SMT DEF Fault
    <3> QED  BY <3>2, <3>3
  <2>4. ASSUME \/ \E s \in SourcesOf(platform) : ChangeSource(s)
               \/ \E f \in FeatureSets : ChangeFeatures(f)
               \/ \E x \in SecretsOf(platform) : ChangeSecret(x)
               \/ \E b \in Bundles : ChangeBundle(b)
        PROVE  (Inputs /\ Numbers /\ Rest)'
    <3>1. Change
      BY <2>4 DEF ChangeSource, ChangeFeatures, ChangeSecret, ChangeBundle
    <3>2. /\ source' = source \/ source' \in SourcesOf(platform)
          /\ secret' = secret \/ secret' \in SecretsOf(platform)
          /\ bundle' = bundle \/ bundle' \in Bundles
          /\ returned' = returned \/ \E n, c : Record(n, c)
      BY <2>4 DEF ChangeSource, ChangeFeatures, ChangeSecret, ChangeBundle
    <3>3. Inputs'
      BY <1>2, <1>3, <3>2
    <3>4. returned' \in BOOLEAN
      BY <1>2, <3>2 DEF Record
    <3>5. Rest'
      BY <1>2, <1>3, <3>1, <3>4 DEF Change
    <3>6. Numbers'
      BY <1>2, <3>1, SMT DEF Change
    <3> QED  BY <3>3, <3>5, <3>6
  <2>5. CASE UNCHANGED vars
    BY <1>2, <1>3, <2>5 DEF vars, inputVars, historyVars
  <2>6. QED
    BY <2>1, <2>2, <2>3, <2>4, <2>5 DEF Next
<1>5. QED
  BY <1>1, <1>3, <1>4 DEF TypeInv, TypeOK, PodTyped

(* The type invariant holds.                                               *)
LEMMA AlwaysTyped ==
  Spec => []TypeInv
<1>1. ASSUME Init PROVE TypeInv
  <2>1. changes \in 0 .. MaxChanges /\ faults \in 0 .. MaxFaults
    BY <1>1, PipelineAssumption, SMT DEF Init
  <2>2. pod = None /\ template = NoTemplate /\ bundle \in Bundles
    BY <1>1, InputsAssumption DEF Init
  <2>3. /\ source \in SourcesOf(platform) /\ secret \in SecretsOf(platform)
        /\ reported \in {"none", "degraded", "available"} /\ returned \in BOOLEAN
        /\ platform \in PlatformsOf
    BY <1>1 DEF Init
  <2> QED  BY <2>1, <2>2, <2>3 DEF TypeInv, TypeOK
<1>2. TypeInv /\ [Next]_vars => TypeInv'
  BY TypeStays
<1>3. QED
  BY <1>1, <1>2, PTL DEF Spec

(* Types, for any inputs: a pod has a config for its manager just when the *)
(* manager runs, and only files of credentials are kept.                   *)
THEOREM PipelineTypes ==
  Spec => []TypeOK
<1>1. TypeInv => TypeOK
  BY DEF TypeInv
<1>2. QED
  BY <1>1, AlwaysTyped, PTL

-----------------------------------------------------------------------------
(* The related configs *)

\* A related config gets another content.
Replaced(name) ==
  /\ \A n \in Names : n # name => Contents'[n] = Contents[n]
  /\ Record(name, Contents'[name])
  /\ UNCHANGED <<platform, pod>>

\* None does.
Same == Contents' = Contents /\ UNCHANGED <<platform, returned>>

(* A step changes one related config, or the template, or the pod.         *)
LEMMA RelatedSteps ==
  ASSUME TypeInv, [Next]_vars
  PROVE  \/ \E n \in Names : Replaced(n)
         \/ Same /\ UNCHANGED pod
         \/ Contents' = Contents /\ UNCHANGED platform /\ (Fresh \/ Moves)
<1>1. ASSUME UNCHANGED <<cloudConf, bundle, secret>> PROVE Contents' = Contents
  BY <1>1 DEF Contents
<1>2. ASSUME NEW n \in Names, UNCHANGED <<platform, pod>>,
             n # "cloud-conf" => UNCHANGED cloudConf,
             n # "ccm-trusted-ca" => UNCHANGED bundle,
             n # "credentials" => UNCHANGED secret,
             Record(n, IF n = "cloud-conf" THEN cloudConf'
                       ELSE IF n = "ccm-trusted-ca" THEN bundle' ELSE secret')
      PROVE  Replaced(n)
  <2>1. \A m \in Names : Contents'[m] = IF m = "cloud-conf" THEN cloudConf'
                                        ELSE IF m = "ccm-trusted-ca" THEN bundle' ELSE secret'
    BY SMT DEF Contents, Names
  <2>2. \A m \in Names : Contents[m] = IF m = "cloud-conf" THEN cloudConf
                                       ELSE IF m = "ccm-trusted-ca" THEN bundle ELSE secret
    BY SMT DEF Contents, Names
  <2>3. ASSUME NEW m \in Names, m # n PROVE Contents'[m] = Contents[m]
    <3>1. CASE m = "cloud-conf"
      BY <1>2, <2>1, <2>2, <2>3, <3>1
    <3>2. CASE m = "ccm-trusted-ca"
      BY <1>2, <2>1, <2>2, <2>3, <3>2
    <3>3. CASE m = "credentials"
      BY <1>2, <2>1, <2>2, <2>3, <3>3
    <3> QED  BY <3>1, <3>2, <3>3 DEF Names
  <2> QED  BY <1>2, <2>1, <2>3 DEF Replaced
<1>3. CASE Sync
  <2>1. PICK outcome \in Transform(platform, source, features) :
          \/ outcome.result = "panic" /\ UNCHANGED <<cloudConf, reported, historyVars>>
          \/ /\ outcome.result = "error"
             /\ reported' = "degraded"
             /\ UNCHANGED <<cloudConf, historyVars>>
          \/ /\ outcome.result = "ok"
             /\ reported' = "available"
             /\ cloudConf' = outcome.conf
             /\ syncedFrom' = [source |-> source, features |-> features]
             /\ IF outcome.conf = cloudConf THEN UNCHANGED returned
                ELSE Record("cloud-conf", outcome.conf)
    BY <1>3 DEF Sync
  <2>2. UNCHANGED <<platform, bundle, secret, pod>>
    BY <1>3 DEF Sync, inputVars
  <2>3. CASE UNCHANGED <<cloudConf, returned>>
    BY <1>1, <2>2, <2>3 DEF Same
  <2>4. CASE Record("cloud-conf", cloudConf')
    BY <1>2, <2>2, <2>4 DEF Names
  <2> QED  BY <2>1, <2>3, <2>4 DEF historyVars
<1>4. CASE Apply \/ ApplyUnread
  <2>1. UNCHANGED <<platform, cloudConf, bundle, secret, pod, returned>>
    BY <1>4 DEF Apply, ApplyUnread, inputVars, historyVars
  <2> QED  BY <1>1, <2>1 DEF Same
<1>5. ASSUME NEW s \in SourcesOf(platform), ChangeSource(s) PROVE Same /\ UNCHANGED pod
  BY <1>1, <1>5 DEF Same, ChangeSource, Change
<1>6. ASSUME NEW f \in FeatureSets, ChangeFeatures(f) PROVE Same /\ UNCHANGED pod
  BY <1>1, <1>6 DEF Same, ChangeFeatures, Change
<1>7. ASSUME NEW x \in SecretsOf(platform), ChangeSecret(x) PROVE Replaced("credentials")
  BY <1>2, <1>7 DEF ChangeSecret, Change, Names
<1>8. ASSUME NEW b \in Bundles, ChangeBundle(b) PROVE Replaced("ccm-trusted-ca")
  BY <1>2, <1>8 DEF ChangeBundle, Change, Names
<1>9. CASE UNCHANGED vars
  BY <1>1, <1>9 DEF Same, vars, inputVars, historyVars
<1>10. CASE \/ StartPod \/ ReadFile \/ StartCCM \/ ReplacePod \/ RestartCCM
            \/ \E n \in Mounted : Refresh(n)
  <2>1. UNCHANGED <<platform, cloudConf, bundle, secret>>
    BY <1>10 DEF StartPod, ReadFile, StartCCM, ReplacePod, RestartCCM, Refresh, unlessPod, inputVars
  <2>2. Fresh \/ ((Reads \/ Starts \/ Remounts) /\ UNCHANGED returned)
    <3>1. CASE StartPod \/ ReplacePod
      BY <3>1, StartPodStep
    <3>2. CASE ReadFile \/ StartCCM \/ RestartCCM
      BY <3>2, ReadStep, StartCCMStep, RestartStep DEF ReadFile, StartCCM, RestartCCM
    <3>3. ASSUME NEW n \in Mounted, Refresh(n) PROVE Remounts /\ UNCHANGED returned
      BY <3>3, RefreshStep DEF Refresh
    <3> QED  BY <1>10, <3>1, <3>2, <3>3
  <2> QED  BY <1>1, <2>1, <2>2 DEF Moves
<1>11. QED
  BY <1>3, <1>4, <1>5, <1>6, <1>7, <1>8, <1>9, <1>10, ContentsAre DEF Next, Names

-----------------------------------------------------------------------------
(* One whole way to authenticate *)

\* Where there is a pod there is a cloud-conf; the one in a pod of Azure has no
\* setting but those of the struct.
AzureInv ==
  /\ pod # None => cloudConf # None
  /\ platform.type = "Azure" /\ pod # None => DOMAIN pod.mounts["cloud-conf"] \subseteq AzureFields

(* A cloud-conf of Azure has only fields of the struct.                    *)
LEMMA ConfOfStruct ==
  ASSUME SyncInv, platform.type = "Azure", cloudConf # None
  PROVE  DOMAIN cloudConf \subseteq AzureFields
<1> DEFINE o == Ok(cloudConf)
<1>1. o.result = "ok" /\ o.conf = cloudConf
  BY DEF Ok
<1>2. /\ platform \in PlatformsOf /\ syncedFrom.source \in SourcesOf(platform)
      /\ o \in Transform(platform, syncedFrom.source, syncedFrom.features)
  BY DEF SyncInv
<1> HIDE DEF o
<1>3. QED
  BY <1>1, <1>2, TransformMakes

(* So has the copy in every pod.                                           *)
LEMMA AzureStays ==
  ASSUME SyncInv, TypeInv, AzureInv, [Next]_vars PROVE AzureInv'
<1>1. platform' = platform /\ (cloudConf # None => cloudConf' # None)
  BY PodSteps, StepSyncs DEF Synced, NotSynced
<1>2. ASSUME pod' # None, ~UNCHANGED pod PROVE cloudConf # None
  BY <1>2, PodSteps DEF AzureInv, Fresh, Moves, Remounts, Reads, Starts
<1>3. pod' # None => cloudConf' # None
  BY <1>1, <1>2 DEF AzureInv
<1> SUFFICES ASSUME platform.type = "Azure", pod' # None
             PROVE  DOMAIN pod'.mounts["cloud-conf"] \subseteq AzureFields
  BY <1>1, <1>3 DEF AzureInv
<1>4. pod # None => DOMAIN pod.mounts["cloud-conf"] \subseteq AzureFields
  BY DEF AzureInv
<1>5. cloudConf # None => DOMAIN cloudConf \subseteq AzureFields
  BY ConfOfStruct
<1>6. CASE UNCHANGED pod
  BY <1>4, <1>6
<1>7. CASE ~UNCHANGED pod /\ Fresh
  <2>1. pod'.mounts["cloud-conf"] = cloudConf
    BY <1>7, ContentsAre DEF Fresh, PodIs, Mounts
  <2> QED  BY <1>2, <1>5, <1>7, <2>1
<1>8. CASE ~UNCHANGED pod /\ Remounts
  <2>1. \/ pod'.mounts["cloud-conf"] = pod.mounts["cloud-conf"]
        \/ pod'.mounts["cloud-conf"] = cloudConf
    BY <1>8, ContentsAre DEF Remounts, PodIs
  <2> QED  BY <1>2, <1>4, <1>5, <1>8, <2>1 DEF Remounts
<1>9. CASE Reads \/ Starts
  BY <1>4, <1>9 DEF Reads, Starts, PodIs
<1>10. QED
  BY <1>6, <1>7, <1>8, <1>9, PodSteps DEF Moves

\* MethodComplete says this of the pod.
Authenticates(files, config) ==
  (\A f \in DOMAIN files : files[f] # "") =>
    IF "useFederatedWorkloadIdentityExtension" \in DOMAIN config
    THEN Get(config, "tenantId") # "" /\ Get(config, "aadFederatedTokenFile") # ""
    ELSE Get(config, "aadClientSecret") # ""

(* The injector's merge of a complete set of files gives one whole way to  *)
(* authenticate.                                                           *)
LEMMA PreparedAuthenticates ==
  ASSUME NEW conf, NEW files, NEW off, Complete(files), DOMAIN conf \subseteq AzureFields
  PROVE  Authenticates(files, prepareCloudConfig(conf, files, off))
<1> DEFINE key == "useManagedIdentityExtension"
           base == IF key \in DOMAIN conf /\ off THEN [conf EXCEPT ![key] = FALSE] ELSE conf
           token == Get(files, "azure_federated_token_file")
           tenant == Get(files, "azure_tenant_id")
           own == Get(files, "azure_client_secret")
           federated == [aadClientId |-> files["azure_client_id"], tenantId |-> tenant,
                         aadFederatedTokenFile |-> token,
                         useFederatedWorkloadIdentityExtension |-> TRUE]
           secretly == [aadClientId |-> files["azure_client_id"], aadClientSecret |-> own]
           config == prepareCloudConfig(conf, files, off)
<1> SUFFICES ASSUME \A f \in DOMAIN files : files[f] # ""
             PROVE  IF "useFederatedWorkloadIdentityExtension" \in DOMAIN config
                    THEN Get(config, "tenantId") # "" /\ Get(config, "aadFederatedTokenFile") # ""
                    ELSE Get(config, "aadClientSecret") # ""
  BY DEF Authenticates
<1>1. config = IF tenant # "" /\ token # "" THEN Over(federated, base) ELSE Over(secretly, base)
  BY DEF prepareCloudConfig
<1>2. DOMAIN base \subseteq AzureFields
  OBVIOUS
<1> HIDE DEF config, base
<1>3. CASE tenant # "" /\ token # ""
  <2>1. config = Over(federated, base)
    BY <1>1, <1>3
  <2>2. /\ "useFederatedWorkloadIdentityExtension" \in DOMAIN config
        /\ Get(config, "tenantId") = tenant /\ Get(config, "aadFederatedTokenFile") = token
    <3> HIDE DEF tenant, token
    <3> QED  BY <2>1 DEF Over, Get
  <2> QED  BY <1>3, <2>2
<1>4. CASE ~(tenant # "" /\ token # "")
  <2>1. config = Over(secretly, base)
    BY <1>1, <1>4
  <2>2. own # ""
    BY <1>4 DEF Complete, Get
  <2>3. /\ "useFederatedWorkloadIdentityExtension" \notin DOMAIN config
        /\ Get(config, "aadClientSecret") = own
    <3> HIDE DEF own
    <3> QED  BY <1>2, <2>1 DEF Over, Get, AzureFields
  <2> QED  BY <2>2, <2>3
<1>5. QED
  BY <1>3, <1>4

(* MethodComplete, of the fields of the pod.                               *)
LEMMA MethodIs ==
  MethodComplete <=>
    (platform.type = "Azure" /\ pod # None /\ pod.stage = Running =>
       Authenticates(pod.files, pod.config.settings))
BY DEF MethodComplete, Authenticates

(* Every step keeps it.                                                    *)
LEMMA MethodStays ==
  ASSUME TypeInv, AzureInv, MethodComplete, [Next]_vars PROVE MethodComplete'
<1>1. platform' = platform
  BY PodSteps
<1> SUFFICES ASSUME platform.type = "Azure", pod' # None, pod'.stage = Running
             PROVE  Authenticates(pod'.files, pod'.config.settings)
  BY <1>1 DEF MethodComplete, Authenticates
<1>2. pod # None /\ pod.stage = Running => Authenticates(pod.files, pod.config.settings)
  BY MethodIs
<1>3. CASE UNCHANGED pod
  BY <1>2, <1>3
<1>4. CASE Fresh
  BY <1>4, Stages, SMT DEF Fresh, PodIs, FirstStage
<1>5. CASE Remounts
  BY <1>2, <1>5 DEF Remounts, PodIs
<1>6. CASE Reads
  <2>1. pod # None /\ pod.stage \in 1 .. 4 /\ pod.stage + 1 # Running /\ pod.stage # Running
    BY <1>6, Stages, SMT DEF Reads
  <2> QED  BY <1>6, <2>1 DEF Reads, PodIs
<1>7. CASE Starts
  <2> DEFINE prepared == prepareCloudConfig(pod.mounts["cloud-conf"], pod.files, ~IsAzureStackHub(platform))
  <2>1. 1 # Running
    BY Stages, SMT
  <2>2. CASE /\ Complete(pod.files)
             /\ PodIs(pod', pod.template, Running, pod.mounts, pod.files, Config(pod.mounts, prepared))
    <3>1. DOMAIN pod.mounts["cloud-conf"] \subseteq AzureFields
      BY <1>7 DEF AzureInv, Starts
    <3>2. Authenticates(pod.files, prepared)
      BY <2>2, <3>1, PreparedAuthenticates
    <3>3. pod'.config.settings = prepared /\ pod'.files = pod.files
      <4>1. pod'.config = Config(pod.mounts, prepared) /\ pod'.files = pod.files
        BY <2>2 DEF PodIs
      <4> HIDE DEF prepared
      <4>2. Config(pod.mounts, prepared).settings = prepared
        BY ConfigIs
      <4> QED  BY <4>1, <4>2
    <3> HIDE DEF prepared
    <3> QED  BY <3>2, <3>3
  <2>3. CASE /\ pod.stage = Running
             /\ PodIs(pod', pod.template, Running, pod.mounts, pod.files, Config(pod.mounts, pod.config.settings))
    <3> DEFINE settings == pod.config.settings
    <3>1. pod'.config.settings = settings /\ pod'.files = pod.files
      <4>1. pod'.config = Config(pod.mounts, settings) /\ pod'.files = pod.files
        BY <2>3 DEF PodIs
      <4> HIDE DEF settings
      <4>2. Config(pod.mounts, settings).settings = settings
        BY ConfigIs
      <4> QED  BY <4>1, <4>2
    <3> QED  BY <1>2, <1>7, <2>3, <3>1 DEF Starts
  <2> QED  BY <1>7, <2>1, <2>2, <2>3 DEF Starts, PodIs
<1>8. QED
  BY <1>3, <1>4, <1>5, <1>6, <1>7, PodSteps DEF Moves

\* What is known of every state.
PipelineInv == SyncInv /\ TypeInv /\ AzureInv /\ MethodComplete

(* What is known of every state holds.                                     *)
LEMMA AlwaysPipeline ==
  Spec => []PipelineInv
<1>1. ASSUME Init PROVE AzureInv /\ MethodComplete
  BY <1>1 DEF Init, AzureInv, MethodComplete
<1>2. SyncInv /\ TypeInv /\ AzureInv /\ MethodComplete /\ [Next]_vars =>
        (AzureInv /\ MethodComplete)'
  BY AzureStays, MethodStays
<1>3. QED
  BY <1>1, <1>2, AlwaysSync, AlwaysTyped, PTL DEF Spec, PipelineInv

(* For any contents of the Secret and any change of it between two reads   *)
(* of the injector, the manager of an Azure pod has one whole way to       *)
(* authenticate, as long as no file is empty.                              *)
THEOREM MethodAlwaysComplete ==
  Spec => []MethodComplete
<1>1. PipelineInv => MethodComplete
  BY DEF PipelineInv
<1>2. QED
  BY <1>1, AlwaysPipeline, PTL

-----------------------------------------------------------------------------
(* The newest pod *)

\* The hash of the pod is of this content.
Now(p, n, c) == n \in DOMAIN p.template /\ p.template[n] = c[n]

\* The injector has read just what the Secret has of the files before the stage.
Matches(files, stage, sec) ==
  \A i \in 1 .. 4 :
    /\ CredentialFiles[i] \in DOMAIN files =>
         i < stage /\ CredentialFiles[i] \in DOMAIN sec
    /\ CredentialFiles[i] \in DOMAIN sec /\ i < stage =>
         CredentialFiles[i] \in DOMAIN files /\ files[CredentialFiles[i]] = sec[CredentialFiles[i]]

\* What a manager is to run with, for the contents c of the volumes M.
Wanted(pf, M, c) ==
  IF pf.type = "Azure"
  THEN prepareCloudConfig(c["cloud-conf"], c["credentials"], ~IsAzureStackHub(pf))
  ELSE [n \in M |-> c[n]]

\* It has its settings and trusted CAs, and on Azure credentials that are complete.
RunsWith(config, pf, M, c) ==
  /\ config = [settings |-> Wanted(pf, M, c), trust |-> c["ccm-trusted-ca"]]
  /\ pf.type = "Azure" => Complete(c["credentials"])

\* The pod has read the contents of now, where its hash is of them.
UpToDate(p, pf, M, c) ==
  /\ \A n \in M : Now(p, n, c) => p.mounts[n] = c[n]
  /\ pf.type = "Azure" /\ Now(p, "credentials", c) => Matches(p.files, p.stage, c["credentials"])
  /\ (\A n \in M : Now(p, n, c)) /\ p.stage = Running => RunsWith(p.config, pf, M, c)

PodInv == ~returned /\ pod # None => UpToDate(pod, platform, Mounted, Contents)

\* Files that match the Secret to the last are as good as the Secret.
LEMMA MatchesAll ==
  ASSUME NEW files, NEW sec, Matches(files, 5, sec), Complete(files), NEW conf, NEW off
  PROVE  /\ Complete(sec)
         /\ prepareCloudConfig(conf, files, off) = prepareCloudConfig(conf, sec, off)
<1>1. ASSUME NEW f \in {"azure_client_id", "azure_client_secret", "azure_federated_token_file",
                        "azure_tenant_id"}
      PROVE  /\ f \in DOMAIN files <=> f \in DOMAIN sec
             /\ f \in DOMAIN files => files[f] = sec[f]
  <2>1. PICK i \in 1 .. 4 : f = CredentialFiles[i]
    <3>1. /\ CredentialFiles[1] = "azure_client_id" /\ CredentialFiles[2] = "azure_client_secret"
          /\ CredentialFiles[3] = "azure_federated_token_file"
          /\ CredentialFiles[4] = "azure_tenant_id"
      BY DEF CredentialFiles
    <3> HIDE DEF CredentialFiles
    <3> QED  BY <1>1, <3>1, SMT
  <2> QED  BY <2>1, SMT DEF Matches
<1>2. Complete(sec)
  BY <1>1 DEF Complete
<1>3. /\ files["azure_client_id"] = sec["azure_client_id"]
      /\ Get(files, "azure_client_secret") = Get(sec, "azure_client_secret")
      /\ Get(files, "azure_federated_token_file") = Get(sec, "azure_federated_token_file")
      /\ Get(files, "azure_tenant_id") = Get(sec, "azure_tenant_id")
  BY <1>1 DEF Get, Complete
<1>4. QED
  BY <1>2, <1>3 DEF prepareCloudConfig

(* The four credential files have four names.                              *)
LEMMA FilesDiffer ==
  \A i, j \in 1 .. 4 : CredentialFiles[i] = CredentialFiles[j] => i = j
BY SMT DEF CredentialFiles

(* Reading the next file of the Secret keeps the match with it.            *)
LEMMA ReadMatches ==
  ASSUME NEW files, NEW sec, NEW stage \in 1 .. 4, Matches(files, stage, sec)
  PROVE  LET file == CredentialFiles[stage]
         IN  /\ file \in DOMAIN sec => Matches(With(files, file, sec[file]), stage + 1, sec)
             /\ file \notin DOMAIN sec => Matches(files, stage + 1, sec)
<1> DEFINE file == CredentialFiles[stage]
           more == With(files, file, sec[file])
<1>1. /\ DOMAIN more = DOMAIN files \cup {file} /\ more[file] = sec[file]
      /\ \A k \in DOMAIN files : k # file => more[k] = files[k]
  BY DEF With
<1>2. file \in DOMAIN sec => Matches(more, stage + 1, sec)
  <2> HIDE DEF more
  <2> QED  BY <1>1, FilesDiffer, SMT DEF Matches
<1>3. file \notin DOMAIN sec => Matches(files, stage + 1, sec)
  BY FilesDiffer, SMT DEF Matches
<1>4. QED
  BY <1>2, <1>3

(* Before the first read the files match any Secret.                       *)
LEMMA NothingRead ==
  ASSUME NEW sec PROVE Matches(<< >>, 1, sec)
BY SMT DEF Matches

\* As UpToDate, of the fields of a pod.
LEMMA UpToDateIs ==
  ASSUME NEW pf, NEW M, NEW c,
         NEW p, NEW hash, NEW stage, NEW mounts, NEW files, NEW config,
         PodIs(p, hash, stage, mounts, files, config),
         \A n \in M : n \in DOMAIN hash /\ hash[n] = c[n] => mounts[n] = c[n],
         pf.type = "Azure" /\ "credentials" \in DOMAIN hash /\ hash["credentials"] = c["credentials"] =>
           Matches(files, stage, c["credentials"]),
         (\A n \in M : n \in DOMAIN hash /\ hash[n] = c[n]) /\ stage = Running => RunsWith(config, pf, M, c)
  PROVE  UpToDate(p, pf, M, c)
BY DEF UpToDate, PodIs, Now

(* A pod that starts has read nothing, and has the mounts of now.          *)
LEMMA FreshIsUpToDate ==
  ASSUME Fresh PROVE UpToDate(pod', platform, Mounted, Contents)
<1> DEFINE c == Contents
           M == Mounted
<1>1. PICK hash : PodIs(pod', hash, FirstStage, Mounts, << >>, None)
  BY DEF Fresh
<1>2. FirstStage # Running /\ (platform.type = "Azure" => FirstStage = 1)
  BY Stages, SMT DEF FirstStage
<1>3. \A n \in M : Mounts[n] = c[n]
  BY DEF Mounts
<1>4. platform.type = "Azure" => Matches(<< >>, FirstStage, c["credentials"])
  BY <1>2, NothingRead
<1> HIDE DEF c, M
<1>5. UpToDate(pod', platform, M, c)
  BY <1>1, <1>2, <1>3, <1>4, UpToDateIs
<1>6. QED
  BY <1>5 DEF c, M

(* A later step of the pod keeps what it has read in line with its hash.   *)
LEMMA PodKeepsUp ==
  ASSUME TypeInv, pod # None, UpToDate(pod, platform, Mounted, Contents), Remounts \/ Reads \/ Starts
  PROVE  UpToDate(pod', platform, Mounted, Contents)
<1> DEFINE c == Contents
           M == Mounted
           h == pod.template
           sec == c["credentials"]
           now(n) == n \in DOMAIN h /\ h[n] = c[n]
           off == ~IsAzureStackHub(platform)
<1>1. /\ \A n \in M : now(n) => pod.mounts[n] = c[n]
      /\ platform.type = "Azure" /\ now("credentials") => Matches(pod.files, pod.stage, sec)
      /\ (\A n \in M : now(n)) /\ pod.stage = Running => RunsWith(pod.config, platform, M, c)
  BY DEF UpToDate, Now
<1>2. /\ "cloud-conf" \in M /\ "ccm-trusted-ca" \in M
      /\ platform.type = "Azure" => "credentials" \in M
      /\ pod.mounts = [n \in M |-> pod.mounts[n]]
  BY ContentsAre DEF TypeInv
<1>3. CASE Remounts
  <2>1. PICK mounts :
          /\ \A n \in M : mounts[n] = pod.mounts[n] \/ mounts[n] = c[n]
          /\ PodIs(pod', h, pod.stage, mounts, pod.files, pod.config)
    BY <1>3 DEF Remounts
  <2>2. \A n \in M : now(n) => mounts[n] = c[n]
    BY <1>1, <2>1
  <2> HIDE DEF c, M, h
  <2>3. UpToDate(pod', platform, M, c)
    BY <1>1, <2>1, <2>2, UpToDateIs
  <2> QED  BY <2>3 DEF c, M
<1>4. CASE Reads
  <2> DEFINE file == CredentialFiles[pod.stage]
             found == pod.mounts["credentials"]
             more == With(pod.files, file, found[file])
  <2>1. pod.stage \in 1 .. 4
    BY <1>4 DEF Reads
  <2>2. pod.stage + 1 # Running
    BY <2>1, Stages, SMT
  <2>3. platform.type = "Azure" /\ now("credentials") => found = sec
    BY <1>1, <1>2
  <2>4. CASE pod' = pod
    BY <2>4
  <2>5. CASE /\ file \in DOMAIN found
             /\ PodIs(pod', h, pod.stage + 1, pod.mounts, more, pod.config)
    <3>1. platform.type = "Azure" /\ now("credentials") => Matches(more, pod.stage + 1, sec)
      <4> HIDE DEF c
      <4> QED  BY <1>1, <2>1, <2>3, <2>5, ReadMatches
    <3> HIDE DEF more, file, found, c, M, h
    <3>2. UpToDate(pod', platform, M, c)
      BY <1>1, <2>2, <2>5, <3>1, UpToDateIs
    <3> QED  BY <3>2 DEF c, M
  <2>6. CASE /\ file \notin DOMAIN found
             /\ PodIs(pod', h, pod.stage + 1, pod.mounts, pod.files, pod.config)
    <3>1. platform.type = "Azure" /\ now("credentials") => Matches(pod.files, pod.stage + 1, sec)
      <4> HIDE DEF c
      <4> QED  BY <1>1, <2>1, <2>3, <2>6, ReadMatches
    <3> HIDE DEF more, file, found, c, M, h
    <3>2. UpToDate(pod', platform, M, c)
      BY <1>1, <2>2, <2>6, <3>1, UpToDateIs
    <3> QED  BY <3>2 DEF c, M
  <2> QED  BY <1>4, <2>4, <2>5, <2>6 DEF Reads
<1>5. CASE Starts
  <2> DEFINE all == \A n \in M : now(n)
             prepared == prepareCloudConfig(pod.mounts["cloud-conf"], pod.files, off)
             was == pod.config.settings
  <2>1. 1 # Running
    BY Stages, SMT
  <2>2. all => /\ pod.mounts["cloud-conf"] = c["cloud-conf"]
               /\ pod.mounts["ccm-trusted-ca"] = c["ccm-trusted-ca"]
               /\ pod.mounts = [n \in M |-> c[n]]
    BY <1>1, <1>2
  <2>3. ASSUME NEW settings, all,
               settings = Wanted(platform, M, c), platform.type = "Azure" => Complete(sec)
        PROVE  RunsWith(Config(pod.mounts, settings), platform, M, c)
    <3>1. Config(pod.mounts, settings) = [settings |-> settings, trust |-> pod.mounts["ccm-trusted-ca"]]
      BY ConfigIs
    <3>2. pod.mounts["ccm-trusted-ca"] = c["ccm-trusted-ca"]
      BY <2>2, <2>3
    <3> HIDE DEF c, M
    <3> QED  BY <2>3, <3>1, <3>2 DEF RunsWith
  <2>4. CASE /\ platform.type # "Azure"
             /\ PodIs(pod', h, Running, pod.mounts, pod.files, Config(pod.mounts, pod.mounts))
    <3>1. all => RunsWith(Config(pod.mounts, pod.mounts), platform, M, c)
      <4>1. all => pod.mounts = Wanted(platform, M, c)
        BY <2>2, <2>4 DEF Wanted
      <4> HIDE DEF all, c, M
      <4> QED  BY <2>3, <2>4, <4>1
    <3> HIDE DEF c, M, h
    <3>2. UpToDate(pod', platform, M, c)
      BY <1>1, <2>4, <3>1, UpToDateIs
    <3> QED  BY <3>2 DEF c, M
  <2>5. CASE /\ platform.type = "Azure" /\ pod.stage = Starting /\ Complete(pod.files)
             /\ PodIs(pod', h, Running, pod.mounts, pod.files, Config(pod.mounts, prepared))
    <3>1. now("credentials") => Matches(pod.files, 5, sec)
      BY <1>1, <2>5, Stages
    <3>2. all => RunsWith(Config(pod.mounts, prepared), platform, M, c)
      <4> SUFFICES ASSUME all PROVE RunsWith(Config(pod.mounts, prepared), platform, M, c)
        OBVIOUS
      <4>1. prepared = prepareCloudConfig(c["cloud-conf"], pod.files, off)
        BY <2>2
      <4>2. Complete(pod.files) /\ Matches(pod.files, 5, sec)
        BY <1>2, <2>5, <3>1
      <4>3. Wanted(platform, M, c) = prepareCloudConfig(c["cloud-conf"], sec, off)
        BY <2>5 DEF Wanted
      <4> HIDE DEF off, prepared, sec
      <4>4. Complete(sec) /\ prepared = prepareCloudConfig(c["cloud-conf"], sec, off)
        <5> DEFINE conf == c["cloud-conf"]
                   files == pod.files
        <5> HIDE DEF conf, files
        <5>1. prepared = prepareCloudConfig(conf, files, off) /\ Complete(files) /\ Matches(files, 5, sec)
          BY <4>1, <4>2 DEF conf, files
        <5>2. Complete(sec) /\ prepareCloudConfig(conf, files, off) = prepareCloudConfig(conf, sec, off)
          BY <5>1, MatchesAll, SMT
        <5> QED  BY <5>1, <5>2 DEF conf
      <4>5. Complete(sec) /\ prepared = Wanted(platform, M, c)
        BY <4>3, <4>4
      <4> HIDE DEF all, c, M
      <4> QED  BY <2>3, <4>5
    <3>3. now("credentials") => Matches(pod.files, Running, sec)
      BY <3>1, Stages, SMT DEF Matches
    <3> HIDE DEF prepared, c, M, h
    <3>4. UpToDate(pod', platform, M, c)
      BY <1>1, <2>5, <3>2, <3>3, UpToDateIs
    <3> QED  BY <3>4 DEF c, M
  <2>6. CASE /\ platform.type = "Azure" /\ pod.stage = Starting
             /\ PodIs(pod', h, 1, pod.mounts, << >>, pod.config)
    <3>1. Matches(<< >>, 1, sec)
      BY NothingRead
    <3> HIDE DEF c, M, h
    <3>2. UpToDate(pod', platform, M, c)
      BY <1>1, <2>1, <2>6, <3>1, UpToDateIs
    <3> QED  BY <3>2 DEF c, M
  <2>7. CASE /\ platform.type = "Azure" /\ pod.stage = Running
             /\ PodIs(pod', h, Running, pod.mounts, pod.files, Config(pod.mounts, was))
    <3>1. ASSUME all PROVE was = Wanted(platform, M, c) /\ Complete(sec)
      <4> DEFINE w == Wanted(platform, M, c)
                 t == c["ccm-trusted-ca"]
      <4>1. pod.config = [settings |-> w, trust |-> t] /\ Complete(sec)
        BY <1>1, <2>7, <3>1 DEF RunsWith
      <4> HIDE DEF w, t
      <4>2. was = w
        <5>1. [settings |-> w, trust |-> t].settings = w
          OBVIOUS
        <5> QED  BY <4>1, <5>1
      <4> QED  BY <4>1, <4>2 DEF w
    <3> HIDE DEF was
    <3>2. all => RunsWith(Config(pod.mounts, was), platform, M, c)
      <4> HIDE DEF all, c, M
      <4> QED  BY <2>3, <3>1
    <3> HIDE DEF c, M, h
    <3>3. UpToDate(pod', platform, M, c)
      BY <1>1, <2>7, <3>2, UpToDateIs
    <3> QED  BY <3>3 DEF c, M
  <2> QED  BY <1>5, <2>4, <2>5, <2>6, <2>7 DEF Starts
<1>6. QED
  BY <1>3, <1>4, <1>5

(* A content the hash of the pod is not of does not matter to it.          *)
LEMMA OthersStay ==
  ASSUME NEW p, NEW pf, NEW M, NEW c, NEW d, NEW name, M \subseteq Names,
         pf.type = "Azure" => "credentials" \in M,
         "ccm-trusted-ca" \in M, "cloud-conf" \in M,
         \A n \in Names : n # name => d[n] = c[n],
         ~Now(p, name, d), UpToDate(p, pf, M, c)
  PROVE  UpToDate(p, pf, M, d)
<1>1. \A n \in Names : Now(p, n, d) => n # name /\ d[n] = c[n] /\ Now(p, n, c)
  BY DEF Now
<1>2. \A n \in M : Now(p, n, d) => p.mounts[n] = d[n]
  BY <1>1 DEF UpToDate
<1>3. pf.type = "Azure" /\ Now(p, "credentials", d) => Matches(p.files, p.stage, d["credentials"])
  BY <1>1 DEF UpToDate, Names
<1>4. (\A n \in M : Now(p, n, d)) /\ p.stage = Running => RunsWith(p.config, pf, M, d)
  <2> SUFFICES ASSUME \A n \in M : Now(p, n, d), p.stage = Running PROVE RunsWith(p.config, pf, M, d)
    OBVIOUS
  <2>1. \A n \in M : d[n] = c[n] /\ Now(p, n, c)
    BY <1>1
  <2>2. RunsWith(p.config, pf, M, c)
    BY <2>1 DEF UpToDate
  <2>3. d["ccm-trusted-ca"] = c["ccm-trusted-ca"] /\ (pf.type = "Azure" => d["credentials"] = c["credentials"])
    BY <2>1
  <2>4. d["cloud-conf"] = c["cloud-conf"]
    BY <2>1
  <2> QED  BY <2>1, <2>2, <2>3, <2>4 DEF RunsWith, Wanted
<1>5. QED
  BY <1>2, <1>3, <1>4 DEF UpToDate

(* What a pod has read stays in line with its hash.                        *)
LEMMA PodStays ==
  ASSUME TypeInv, PodInv, [Next]_vars PROVE PodInv'
<1> DEFINE M == Mounted
<1>1. /\ platform' = platform /\ Mounted' = M
      /\ M \subseteq Names /\ "cloud-conf" \in M /\ "ccm-trusted-ca" \in M
      /\ platform.type = "Azure" => "credentials" \in M
  BY PodSteps, ContentsAre
<1> SUFFICES ASSUME ~returned', pod' # None PROVE UpToDate(pod', platform, M, Contents')
  BY <1>1 DEF PodInv
<1>2. ASSUME NEW name \in Names, Replaced(name)
      PROVE  UpToDate(pod', platform, M, Contents')
  <2>1. /\ pod' = pod /\ ~returned
        /\ \A n \in Names : n # name => Contents'[n] = Contents[n]
    BY <1>2 DEF Replaced, Record
  <2>2. ~Now(pod, name, Contents')
    BY <1>2, <2>1 DEF Replaced, Record, Now
  <2>3. UpToDate(pod, platform, M, Contents)
    BY <2>1 DEF PodInv
  <2> DEFINE c == Contents
             d == Contents'
  <2>4. /\ \A n \in Names : n # name => d[n] = c[n]
        /\ ~Now(pod, name, d) /\ UpToDate(pod, platform, M, c)
    BY <2>1, <2>2, <2>3
  <2> HIDE DEF c, d, M
  <2>5. UpToDate(pod, platform, M, d)
    BY <1>1, <2>4, OthersStay
  <2> QED  BY <2>1, <2>5 DEF d
<1>3. CASE Same /\ UNCHANGED pod
  BY <1>3 DEF Same, PodInv
<1>4. CASE Contents' = Contents /\ Fresh
  BY <1>4, FreshIsUpToDate
<1>5. CASE Contents' = Contents /\ Moves
  <2>1. ~returned /\ pod # None /\ (Remounts \/ Reads \/ Starts)
    BY <1>5 DEF Moves, Remounts, Reads, Starts
  <2> QED  BY <1>5, <2>1, PodKeepsUp DEF PodInv
<1>6. QED
  BY <1>2, <1>3, <1>4, <1>5, RelatedSteps

(* At rest the hash is the one of now, so the pod has read the inputs of   *)
(* now.                                                                    *)
LEMMA AtRestMeans ==
  ASSUME PipelineInv, PodInv PROVE PodAtRest
<1> SUFFICES ASSUME ~returned, AtRest PROVE pod.config \in Expected
  BY DEF PodAtRest
<1> DEFINE c == Contents
           M == Mounted
<1>1. /\ syncedFrom = [source |-> source, features |-> features]
      /\ pod # None /\ pod.stage = Running
      /\ pod.template = calculateRelatedConfigsHash(M)
  BY ContentsAre DEF AtRest
<1>2. cloudConf # None
  BY <1>1 DEF PipelineInv, AzureInv
<1>3. \A n \in M : Related(n) # None /\ Related(n) = c[n]
  <2>1. /\ bundle \in Bundles /\ secret \in SecretsOf(platform) /\ platform \in PlatformsOf
    BY DEF PipelineInv, TypeInv, TypeOK
  <2>2. bundle # None /\ (platform.type # "AWS" => secret # None)
    BY <2>1, InputsAssumption
  <2>3. "credentials" \in M => c["credentials"] # None
    BY <2>2, ContentsAre
  <2>4. c["cloud-conf"] # None /\ c["ccm-trusted-ca"] # None
    BY <1>2, <2>2, ContentsAre
  <2>5. \A n \in M : n \in Names /\ Related(n) = c[n]
    BY ContentsAre
  <2> HIDE DEF c, M
  <2> QED  BY <2>3, <2>4, <2>5 DEF Names
<1>4. \A n \in M : Now(pod, n, c)
  BY <1>1, <1>3 DEF Now, calculateRelatedConfigsHash
<1>5. RunsWith(pod.config, platform, M, c)
  BY <1>1, <1>4 DEF PodInv, UpToDate
<1>6. Ok(cloudConf) \in Outcomes
  <2>1. syncedFrom.source = source /\ syncedFrom.features = features
    BY <1>1
  <2>2. Ok(cloudConf).result = "ok"
    BY DEF Ok
  <2> QED  BY <1>2, <2>1, <2>2 DEF PipelineInv, SyncInv, Outcomes
<1>7. Accepted
  BY <1>5, <1>6, ContentsAre DEF Accepted, RunsWith
<1>8. Settings(cloudConf) = Wanted(platform, M, c)
  <2>1. CASE platform.type = "Azure"
    BY <2>1, ContentsAre DEF Settings, Wanted
  <2>2. CASE platform.type # "Azure"
    <3>1. \A n \in M : (IF n = "cloud-conf" THEN cloudConf ELSE Related(n)) = c[n]
      BY <1>3, ContentsAre
    <3> QED  BY <2>2, <3>1 DEF Settings, Wanted
  <2> QED  BY <2>1, <2>2
<1>9. Ok(cloudConf).conf = cloudConf
  BY DEF Ok
<1>10. pod.config = [settings |-> Settings(Ok(cloudConf).conf), trust |-> bundle]
  BY <1>5, <1>8, <1>9, ContentsAre DEF RunsWith
<1>11. QED
  BY <1>6, <1>7, <1>10 DEF Expected

(* For any inputs and changes of them, any failed reads and restarts, and  *)
(* any order of the kubelet's and the injector's steps: a pod under the    *)
(* hash of now, with cloud-conf made from the inputs of now, runs with     *)
(* just those inputs and trusted CAs, unless a content its hash is of went *)
(* and came back while it stayed.                                          *)
THEOREM PodAtRestHolds ==
  Spec => []PodAtRest
<1>1. Init => PodInv
  BY DEF Init, PodInv
<1>2. PipelineInv /\ PodInv /\ [Next]_vars => PodInv'
  BY PodStays DEF PipelineInv
<1>3. PipelineInv /\ PodInv => PodAtRest
  BY AtRestMeans
<1>4. QED
  BY <1>1, <1>2, <1>3, AlwaysPipeline, PTL DEF Spec

=============================================================================
