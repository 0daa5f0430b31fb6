-------------------------- MODULE CatalogSyncProofs --------------------------
(***************************************************************************)
(* What Catalog and CatalogSync promise, proved for any feeds, any number  *)
(* of jobs and runs of the sync, any limit, and any faults.                *)
(***************************************************************************)
EXTENDS CatalogSync, FiniteSetTheorems, SequenceTheorems, TLAPS

-------------------------------------------------------------------------------
(* Sorting *)

IsOrder(order, S) ==
  /\ order \subseteq S \X S
  /\ \A x \in S : <<x, x>> \notin order
  /\ \A x, y \in S : x = y \/ <<x, y>> \in order \/ <<y, x>> \in order
  /\ \A x, y, z \in S : <<x, y>> \in order /\ <<y, z>> \in order => <<x, z>> \in order

(***************************************************************************)
(* A finite set in an order of its elements is a sequence of all of them,  *)
(* each once and where the order has it: the number of elements before one *)
(* is an injection into 0..n-1, so it takes every value.                   *)
(***************************************************************************)
LEMMA ArrangedFacts ==
  ASSUME NEW S, IsFiniteSet(S), NEW order, IsOrder(order, S)
  PROVE  /\ Cardinality(S) \in Nat
         /\ Arranged(S, order) \in [1..Cardinality(S) -> S]
         /\ \A x \in S : \E k \in 1..Cardinality(S) : Arranged(S, order)[k] = x
         /\ \A i, k \in 1..Cardinality(S) :
              i < k => <<Arranged(S, order)[i], Arranged(S, order)[k]>> \in order
<1> DEFINE n == Cardinality(S)
           before(x) == {y \in S : <<y, x>> \in order}
           rank == [x \in S |-> Cardinality(before(x))]
           place(k) == Arranged(S, order)[k]
<1>1. n \in Nat
  BY FS_CardinalityType
<1>2. ASSUME NEW x \in S
      PROVE  IsFiniteSet(before(x)) /\ Cardinality(before(x)) \in 0..(n - 1)
  <2>1. before(x) \subseteq S \ {x}
    BY DEF IsOrder
  <2>2. IsFiniteSet(S \ {x}) /\ Cardinality(S \ {x}) = n - 1
    BY FS_RemoveElement
  <2> HIDE DEF before
  <2>3. /\ IsFiniteSet(before(x)) /\ Cardinality(before(x)) <= n - 1
        /\ Cardinality(before(x)) \in Nat
    BY <2>1, <2>2, FS_Subset, FS_CardinalityType
  <2> QED BY <1>1, <2>3
<1>3. ASSUME NEW x \in S, NEW y \in S, <<x, y>> \in order
      PROVE  rank[x] < rank[y]
  <2>1. before(x) \subseteq before(y)
    BY <1>3 DEF IsOrder
  <2>2. x \in before(y) /\ x \notin before(x)
    BY <1>3 DEF IsOrder
  <2>3. IsFiniteSet(before(y)) /\ Cardinality(before(x)) \in Nat /\ Cardinality(before(y)) \in Nat
    BY <1>1, <1>2
  <2> HIDE DEF before
  <2>4. Cardinality(before(x)) < Cardinality(before(y))
    BY <2>1, <2>2, <2>3, FS_Subset
  <2> QED BY <2>4
<1>4. ASSUME NEW x \in S, NEW y \in S, rank[x] = rank[y] PROVE x = y
  <2>1. rank[x] \in 0..(n - 1)
    BY <1>2
  <2> HIDE DEF rank
  <2>2. ~(rank[x] < rank[y]) /\ ~(rank[y] < rank[x])
    BY <1>1, <1>4, <2>1
  <2> QED BY <1>3, <2>2 DEF IsOrder
<1>5. rank \in Injection(S, 0..(n - 1))
  <2>1. rank \in [S -> 0..(n - 1)]
    BY <1>2
  <2> HIDE DEF rank
  <2> QED BY <1>4, <2>1 DEF Injection, IsInjective
<1>6. rank \in Surjection(S, 0..(n - 1))
  <2>1. IsFiniteSet(0..(n - 1)) /\ Cardinality(0..(n - 1)) = n
    BY <1>1, FS_Interval
  <2> HIDE DEF rank
  <2>2. IsFiniteSet(S) /\ Cardinality(S) = n
    OBVIOUS
  <2> HIDE DEF n
  <2> QED BY <1>5, <2>1, <2>2, FS_Injection
<1>7. ASSUME NEW k \in 1..n
      PROVE  place(k) \in S /\ rank[place(k)] = k - 1
  <2>1. k - 1 \in 0..(n - 1)
    BY <1>1
  <2>2. PICK e \in S : rank[e] = k - 1
    BY <1>6, <2>1 DEF Surjection
  <2>3. \E x \in S : Cardinality({y \in S : <<y, x>> \in order}) = k - 1
    BY <2>2
  <2>4. place(k) = CHOOSE x \in S : Cardinality({y \in S : <<y, x>> \in order}) = k - 1
    BY DEF Arranged
  <2> HIDE DEF place
  <2>5. place(k) \in S /\ Cardinality({y \in S : <<y, place(k)>> \in order}) = k - 1
    BY <2>3, <2>4
  <2> QED BY <2>5
<1>8. Arranged(S, order) \in [1..n -> S]
  BY <1>7 DEF Arranged
<1>9. ASSUME NEW x \in S PROVE \E k \in 1..n : place(k) = x
  <2>1. rank[x] \in 0..(n - 1)
    BY <1>2
  <2>2. rank[x] + 1 \in 1..n /\ (rank[x] + 1) - 1 = rank[x]
    BY <1>1, <2>1
  <2> HIDE DEF rank, place
  <2>3. place(rank[x] + 1) = x
    BY <1>4, <1>7, <2>2
  <2> QED BY <2>2, <2>3
<1>10. ASSUME NEW i \in 1..n, NEW k \in 1..n, i < k
       PROVE  <<place(i), place(k)>> \in order
  <2> HIDE DEF rank, place
  <2>1. /\ place(i) \in S /\ rank[place(i)] = i - 1
        /\ place(k) \in S /\ rank[place(k)] = k - 1
    BY <1>7
  <2>2. place(i) # place(k) /\ ~(rank[place(k)] < rank[place(i)])
    BY <1>1, <1>10, <2>1
  <2> QED BY <1>3, <2>1, <2>2 DEF IsOrder
<1> HIDE DEF rank
<1> QED BY <1>1, <1>8, <1>9, <1>10

\* Its elements are told apart.
LEMMA ArrangedOnce ==
  ASSUME NEW S, IsFiniteSet(S), NEW order, IsOrder(order, S),
         NEW i \in 1..Cardinality(S), NEW k \in 1..Cardinality(S),
         Arranged(S, order)[i] = Arranged(S, order)[k]
  PROVE  i = k
<1>1. /\ Cardinality(S) \in Nat
      /\ Arranged(S, order)[i] \in S
      /\ i < k => <<Arranged(S, order)[i], Arranged(S, order)[k]>> \in order
      /\ k < i => <<Arranged(S, order)[k], Arranged(S, order)[i]>> \in order
  BY ArrangedFacts
<1>2. <<Arranged(S, order)[i], Arranged(S, order)[i]>> \notin order
  BY <1>1 DEF IsOrder
<1> QED BY <1>1, <1>2

(***************************************************************************)
(* Keys of numbers, compared from the first: a strict order of the keys of *)
(* one length.                                                             *)
(***************************************************************************)
LEMMA LeastNumber ==
  ASSUME NEW n \in Nat, NEW S \in SUBSET (1..n), S # {}
  PROVE  \E m \in S : \A k \in S : m <= k
<1> DEFINE less == {p \in S \X S : p[1] < p[2]}
<1>1. IsFiniteSet(S)
  <2>1. IsFiniteSet(1..n)
    BY FS_Interval
  <2> QED BY <2>1, FS_Subset
<1>2. IsOrder(less, S)
  <2>1. S \subseteq Int
    OBVIOUS
  <2> QED BY <2>1 DEF IsOrder
<1>3. Cardinality(S) \in Nat /\ Cardinality(S) # 0
  BY <1>1, FS_CardinalityType, FS_EmptySet
<1>4. /\ Arranged(S, less)[1] \in S
      /\ \A x \in S : \E k \in 1..Cardinality(S) :
           Arranged(S, less)[k] = x /\ (1 < k => <<Arranged(S, less)[1], x>> \in less)
  <2> HIDE DEF less
  <2>1. 1 \in 1..Cardinality(S)
    BY <1>3
  <2>2. /\ Arranged(S, less) \in [1..Cardinality(S) -> S]
        /\ \A x \in S : \E k \in 1..Cardinality(S) : Arranged(S, less)[k] = x
        /\ \A i, k \in 1..Cardinality(S) :
             i < k => <<Arranged(S, less)[i], Arranged(S, less)[k]>> \in less
    BY <1>1, <1>2, ArrangedFacts
  <2> QED BY <2>1, <2>2
<1>5. ASSUME NEW x \in S PROVE Arranged(S, less)[1] <= x
  <2>1. PICK k \in 1..Cardinality(S) :
          Arranged(S, less)[k] = x /\ (1 < k => <<Arranged(S, less)[1], x>> \in less)
    BY <1>4
  <2>2. CASE k = 1
    BY <1>4, <2>1, <2>2
  <2>3. CASE 1 < k
    <3>1. <<Arranged(S, less)[1], x>> \in less
      BY <2>1, <2>3
    <3>2. Arranged(S, less)[1] < x
      BY <3>1
    <3> HIDE DEF less
    <3>3. S \subseteq Int
      OBVIOUS
    <3>4. Arranged(S, less)[1] \in Int /\ x \in Int
      BY <1>4, <3>3
    <3> QED BY <3>2, <3>4
  <2> QED BY <1>3, <2>2, <2>3
<1> QED BY <1>4, <1>5

LEMMA KeysAreOrdered ==
  ASSUME NEW n \in Nat,
         NEW a \in [1..n -> Int], NEW b \in [1..n -> Int], NEW c \in [1..n -> Int]
  PROVE  /\ ~KeyLess(a, a)
         /\ a = b \/ KeyLess(a, b) \/ KeyLess(b, a)
         /\ KeyLess(a, b) /\ KeyLess(b, c) => KeyLess(a, c)
<1>1. ~KeyLess(a, a)
  BY DEF KeyLess
<1>2. ASSUME a # b PROVE KeyLess(a, b) \/ KeyLess(b, a)
  <2> DEFINE unlike == {k \in 1..n : a[k] # b[k]}
  <2>0. \E k \in 1..n : a[k] # b[k]
    BY <1>2
  <2>1. unlike # {} /\ unlike \in SUBSET (1..n)
    BY <2>0
  <2> HIDE DEF unlike
  <2>2. PICK m \in unlike : \A k \in unlike : m <= k
    BY <2>1, LeastNumber
  <2> USE DEF unlike
  <2>3. m \in 1..n /\ a[m] # b[m] /\ \A i \in 1..(m - 1) : a[i] = b[i]
    BY <2>2
  <2>4. a[m] < b[m] \/ b[m] < a[m]
    BY <2>3
  <2> QED BY <2>3, <2>4 DEF KeyLess
<1>3. ASSUME KeyLess(a, b), KeyLess(b, c) PROVE KeyLess(a, c)
  <2>1. PICK k \in 1..n : a[k] < b[k] /\ \A i \in 1..(k - 1) : a[i] = b[i]
    BY <1>3 DEF KeyLess
  <2>2. PICK l \in 1..n : b[l] < c[l] /\ \A i \in 1..(l - 1) : b[i] = c[i]
    BY <1>3 DEF KeyLess
  <2>3. CASE k <= l
    <3>1. b[k] <= c[k]
      <4>1. CASE k = l
        BY <2>2, <4>1
      <4>2. CASE k # l
        <5>1. k \in 1..(l - 1)
          BY <2>3, <4>2
        <5> QED BY <2>2, <5>1
      <4> QED BY <4>1, <4>2
    <3>2. a[k] < c[k] /\ \A i \in 1..(k - 1) : a[i] = c[i]
      BY <2>1, <2>2, <2>3, <3>1
    <3> QED BY <3>2 DEF KeyLess
  <2>4. CASE l < k
    <3>1. a[l] < c[l] /\ \A i \in 1..(l - 1) : a[i] = c[i]
      BY <2>1, <2>2, <2>4
    <3> QED BY <3>1 DEF KeyLess
  <2> QED BY <2>3, <2>4
<1> QED BY <1>1, <1>2, <1>3

-------------------------------------------------------------------------------
(* The results of a batch *)

\* The alias rows of a package: types and values.
Aliases == Range(AliasTypes) \X Nat

InOrder(aliases) ==
  \A i, k \in DOMAIN aliases : i < k => KeyLess(AliasKey(aliases[i]), AliasKey(aliases[k]))

IsResult(result) ==
  /\ result = [run |-> result.run, at |-> result.at, conflict |-> result.conflict,
               package |-> result.package, aliases |-> result.aliases, name |-> result.name]
  /\ result.aliases \in Seq(Aliases) /\ InOrder(result.aliases)
  /\ result.package # None => result.package.id \in PackageIds

\* A batch the ingest service can merge.
IsBatch(candidates) ==
  /\ candidates \in Seq(Candidates) \ {<<>>}
  /\ \A k \in DOMAIN candidates : IsFiniteSet(candidates[k].aliases)

LEMMA AlphabetPlaces ==
  ASSUME NEW c \in Candidates
  PROVE  Place(Alphabet, c.source) \in Int
<1>1. c.source \in Range(Alphabet)
  BY DEF Candidates
<1>2. \E k \in DOMAIN Alphabet : Alphabet[k] = c.source
  BY <1>1 DEF Range
<1>3. Place(Alphabet, c.source) \in DOMAIN Alphabet
  BY <1>1, <1>2 DEF Place
<1>4. DOMAIN Alphabet = 1..8
  BY DEF Alphabet
<1> QED BY <1>3, <1>4

LEMMA KeyWithPlace ==
  ASSUME NEW key \in Seq(Int), Len(key) = 6, NEW k \in Int
  PROVE  Append(key, k) \in [1..7 -> Int] /\ Append(key, k)[7] = k
<1>1. /\ Append(key, k) \in Seq(Int)
      /\ Len(Append(key, k)) = Len(key) + 1
      /\ Append(key, k)[Len(key) + 1] = k
  BY AppendProperties
<1>2. Len(Append(key, k)) = 7
  BY <1>1
<1>3. Append(key, k) \in [1..7 -> Int]
  <2> DEFINE longer == Append(key, k)
  <2>1. longer \in Seq(Int) /\ Len(longer) = 7
    BY <1>1, <1>2
  <2> HIDE DEF longer
  <2>2. longer \in [1..7 -> Int]
    BY <2>1, LenProperties
  <2> QED BY <2>2 DEF longer
<1>4. Len(key) + 1 = 7
  OBVIOUS
<1>5. Append(key, k)[7] = k
  <2> DEFINE longer == Append(key, k)
  <2>1. longer[Len(key) + 1] = k
    BY <1>1
  <2> HIDE DEF longer
  <2>2. longer[7] = k
    BY <1>4, <2>1
  <2> QED BY <2>2 DEF longer
<1> QED BY <1>3, <1>5, Zenon

\* The pivot of a batch is one of its candidates.
LEMMA PivotFacts ==
  ASSUME NEW candidates, IsBatch(candidates)
  PROVE  \E k \in DOMAIN candidates : Pivot(candidates) = candidates[k]
<1> DEFINE S == DOMAIN candidates
           Key(k) == Append(PivotKey(candidates[k]), k)
           before == {pair \in S \X S : KeyLess(Key(pair[1]), Key(pair[2]))}
<1>1. S = 1..Len(candidates) /\ Len(candidates) \in Nat /\ S # {}
      /\ \A k \in S : candidates[k] \in Candidates
  BY DEF IsBatch
<1>2. IsFiniteSet(S)
  BY <1>1, FS_Interval
<1>3. ASSUME NEW k \in S PROVE Key(k) \in [1..7 -> Int] /\ Key(k)[7] = k
  <2>1. candidates[k] \in Candidates
    BY <1>1
  <2>2. Place(Alphabet, candidates[k].source) \in Int
    BY <2>1, AlphabetPlaces
  <2>3. /\ Missing(candidates[k].repoId) \in Int /\ Missing(candidates[k].repo) \in Int
        /\ Missing(candidates[k].registry) \in Int
    BY DEF Missing
  <2>4. -candidates[k].at \in Int /\ candidates[k].subpath \in Int
    BY <2>1 DEF Candidates
  <2>5. PivotKey(candidates[k]) \in Seq(Int) /\ Len(PivotKey(candidates[k])) = 6
    BY <2>2, <2>3, <2>4 DEF PivotKey
  <2>6. k \in Int
    BY <1>1
  <2> HIDE DEF S
  <2> QED BY <2>5, <2>6, KeyWithPlace
<1> HIDE DEF Key
<1>4. IsOrder(before, S)
  <2>1. \A k \in S : ~KeyLess(Key(k), Key(k))
    BY <1>3, KeysAreOrdered
  <2>2. \A i, k \in S : i = k \/ KeyLess(Key(i), Key(k)) \/ KeyLess(Key(k), Key(i))
    BY <1>3, KeysAreOrdered
  <2>3. ASSUME NEW i \in S, NEW k \in S, NEW l \in S,
               KeyLess(Key(i), Key(k)), KeyLess(Key(k), Key(l))
        PROVE  KeyLess(Key(i), Key(l))
    <3>1. /\ Key(i) \in [1..7 -> Int] /\ Key(k) \in [1..7 -> Int]
          /\ Key(l) \in [1..7 -> Int]
      BY <1>3
    <3> HIDE DEF S
    <3> QED BY <2>3, <3>1, KeysAreOrdered
  <2> HIDE DEF S
  <2> QED BY <2>1, <2>2, <2>3 DEF IsOrder
<1>5. \E k \in S : \A i \in S \ {k} : KeyLess(Key(k), Key(i))
  <2> HIDE DEF S, before
  <2>0. Cardinality(S) # 0
    BY <1>1, <1>2, FS_EmptySet
  <2>1. /\ Cardinality(S) \in Nat /\ Cardinality(S) # 0
        /\ Arranged(S, before) \in [1..Cardinality(S) -> S]
        /\ \A x \in S : \E k \in 1..Cardinality(S) : Arranged(S, before)[k] = x
        /\ \A i, k \in 1..Cardinality(S) :
             i < k => <<Arranged(S, before)[i], Arranged(S, before)[k]>> \in before
    BY <1>2, <1>4, <2>0, ArrangedFacts
  <2>2. 1 \in 1..Cardinality(S) /\ \A k \in 1..Cardinality(S) : k = 1 \/ 1 < k
    BY <2>1
  <2>3. \A i \in S \ {Arranged(S, before)[1]} : <<Arranged(S, before)[1], i>> \in before
    BY <2>1, <2>2
  <2>4. Arranged(S, before)[1] \in S
    BY <2>1, <2>2
  <2> USE DEF before
  <2> QED BY <2>3, <2>4
<1>6. Pivot(candidates) = candidates[CHOOSE k \in S : \A i \in S \ {k} : KeyLess(Key(k), Key(i))]
  BY DEF Pivot, Least, Key
<1> HIDE DEF S
<1>7. (CHOOSE k \in S : \A i \in S \ {k} : KeyLess(Key(k), Key(i))) \in S
  BY <1>5
<1> USE DEF S
<1> QED BY <1>6, <1>7

\* What a batch's identity is made of.
LEMMA IdentityFacts ==
  ASSUME NEW c \in Candidates, NEW repoOf, \A l \in DOMAIN repoOf : repoOf[l] \in Nat
  PROVE  /\ Identity(c, repoOf).repo \in Nat \cup {None}
         /\ Identity(c, repoOf).registry \in Nat \cup {None}
<1>1. c.repo \in Nat \cup {None} /\ c.registry \in Nat \cup {None}
  BY DEF Candidates, Optional
<1>2. CASE c.repoId # None
  BY <1>1, <1>2 DEF Identity
<1>3. CASE c.repoId = None /\ c.repo # None
  BY <1>1, <1>3 DEF Identity
<1>4. CASE c.repoId = None /\ c.repo = None /\ c.registry \in DOMAIN repoOf
  BY <1>1, <1>4 DEF Identity
<1>5. CASE c.repoId = None /\ c.repo = None /\ c.registry \notin DOMAIN repoOf
  BY <1>1, <1>5 DEF Identity
<1> QED BY <1>2, <1>3, <1>4, <1>5

\* The aliases of a batch are finitely many rows.
LEMMA BatchAliases ==
  ASSUME NEW candidates, IsBatch(candidates), NEW repoOf,
         \A l \in DOMAIN repoOf : repoOf[l] \in Nat
  PROVE  LET rows == {a.row : a \in
                        AliasesInBatch(candidates, Identity(Pivot(candidates), repoOf))}
         IN  IsFiniteSet(rows) /\ rows \subseteq Aliases
<1> DEFINE identity == Identity(Pivot(candidates), repoOf)
           S == DOMAIN candidates
           listed(k) == candidates[k].aliases \cup {Url(candidates[k].repo)}
           every == {<<"repo_rename", identity.repo>>, <<"registry_alias", identity.registry>>}
                      \cup UNION {listed(k) : k \in S}
           rows == {a.row : a \in AliasesInBatch(candidates, identity)}
<1>1. S = 1..Len(candidates) /\ Len(candidates) \in Nat
      /\ \A k \in S : candidates[k] \in Candidates
  BY DEF IsBatch
<1>2. Pivot(candidates) \in Candidates
  BY <1>1, PivotFacts
<1>3. identity.repo \in Nat \cup {None} /\ identity.registry \in Nat \cup {None}
  BY <1>2, IdentityFacts
<1>4. IsFiniteSet(every)
  <2> DEFINE sets == {listed(k) : k \in S}
             f == [k \in S |-> listed(k)]
  <2>1. IsFiniteSet(S)
    BY <1>1, FS_Interval
  <2>2. f \in Surjection(S, sets)
    BY DEF Surjection
  <2>3. IsFiniteSet(sets)
    <3> HIDE DEF f, sets, S
    <3> QED BY <2>1, <2>2, FS_Surjection
  <2>4. \A T \in sets : IsFiniteSet(T)
    <3>1. ASSUME NEW k \in S PROVE IsFiniteSet(listed(k))
      BY FS_AddElement DEF IsBatch
    <3> QED BY <3>1
  <2>5. IsFiniteSet(UNION sets)
    <3> HIDE DEF sets
    <3> QED BY <2>3, <2>4, FS_UNION
  <2> DEFINE ofRegistry == <<"registry_alias", identity.registry>>
             ofRepo == <<"repo_rename", identity.repo>>
             union == UNION sets
  <2>6. every = {ofRepo, ofRegistry} \cup union
    OBVIOUS
  <2>7. IsFiniteSet(union)
    BY <2>5
  <2> HIDE DEF every, union, ofRegistry, ofRepo
  <2>8. IsFiniteSet(union \cup {ofRegistry})
    BY <2>7, FS_AddElement
  <2>9. IsFiniteSet((union \cup {ofRegistry}) \cup {ofRepo})
    BY <2>8, FS_AddElement
  <2>10. every = (union \cup {ofRegistry}) \cup {ofRepo}
    BY <2>6
  <2> QED BY <2>9, <2>10
<1>5. ASSUME NEW a \in AliasesInBatch(candidates, identity)
      PROVE  a.row \in every /\ a.row[2] # None
  <2> DEFINE at(k) == Cardinality({i \in S : KeyLess(PivotKey(candidates[i]),
                                                     PivotKey(candidates[k]))}) + 1
             found(n, T) == {[at |-> n, row |-> row] : row \in T}
             first == {<<"repo_rename", identity.repo>>, <<"registry_alias", identity.registry>>}
  <2>1. a \in found(0, first) \cup UNION {found(at(k), listed(k)) : k \in S}
        /\ a.row[2] # None
    BY DEF AliasesInBatch
  <2> HIDE DEF at, identity, listed
  <2>2. CASE a \in found(0, first)
    BY <2>1, <2>2
  <2>3. CASE a \in UNION {found(at(k), listed(k)) : k \in S}
    <3>1. PICK k \in S : a \in found(at(k), listed(k))
      BY <2>3
    <3>2. a.row \in listed(k)
      BY <3>1
    <3> QED BY <2>1, <3>2
  <2> QED BY <2>1, <2>2, <2>3
<1>6. ASSUME NEW row \in every, row[2] # None PROVE row \in Aliases
  <2>1. Range(AliasTypes) = {"registry_alias", "repo_rename", "url_alias"}
    <3>1. DOMAIN AliasTypes = {1, 2, 3}
      BY DEF AliasTypes
    <3>2. /\ AliasTypes[1] = "registry_alias" /\ AliasTypes[2] = "repo_rename"
          /\ AliasTypes[3] = "url_alias"
      BY DEF AliasTypes
    <3> QED BY <3>1, <3>2 DEF Range
  <2>2. CASE row \in {<<"repo_rename", identity.repo>>, <<"registry_alias", identity.registry>>}
    BY <1>3, <1>6, <2>1, <2>2 DEF Aliases
  <2>3. CASE row \in UNION {listed(k) : k \in S}
    <3>1. PICK k \in S : row \in listed(k)
      BY <2>3
    <3>2. candidates[k] \in Candidates
      BY <1>1
    <3>3. CASE row \in candidates[k].aliases
      BY <2>1, <3>2, <3>3 DEF Candidates, Aliases
    <3>4. CASE row = Url(candidates[k].repo)
      BY <1>6, <2>1, <3>2, <3>4 DEF Candidates, Optional, Url, Aliases
    <3> QED BY <3>1, <3>3, <3>4
  <2> QED BY <2>2, <2>3
<1> HIDE DEF every
<1>7. rows \subseteq every /\ rows \subseteq Aliases
  BY <1>5, <1>6
<1>8. IsFiniteSet(rows)
  BY <1>4, <1>7, FS_Subset
<1> QED BY <1>7, <1>8

\* The key of a row tells it apart.
LEMMA AliasKeys ==
  ASSUME NEW row \in Aliases
  PROVE  /\ AliasKey(row) \in [1..2 -> Int]
         /\ AliasKey(row)[1] \in DOMAIN AliasTypes
         /\ row = <<AliasTypes[AliasKey(row)[1]], AliasKey(row)[2]>>
<1>1. row[1] \in Range(AliasTypes) /\ row[2] \in Nat /\ row = <<row[1], row[2]>>
  BY DEF Aliases
<1>2. \E k \in DOMAIN AliasTypes : AliasTypes[k] = row[1]
  BY <1>1 DEF Range
<1> DEFINE place == Place(AliasTypes, row[1])
<1>3. place \in DOMAIN AliasTypes /\ AliasTypes[place] = row[1]
  BY <1>1, <1>2 DEF Place
<1>4. DOMAIN AliasTypes = 1..3
  BY DEF AliasTypes
<1>5. AliasKey(row) = <<place, row[2]>>
  BY DEF AliasKey
<1> HIDE DEF place
<1>6. place \in Int /\ row[2] \in Int
  BY <1>1, <1>3, <1>4
<1>7. AliasKey(row) \in [1..2 -> Int] /\ AliasKey(row)[1] = place /\ AliasKey(row)[2] = row[2]
  BY <1>5, <1>6
<1> QED BY <1>1, <1>3, <1>7

\* The rows of a batch are written in one order, whatever the batch.
LEMMA AliasesAreInOrder ==
  ASSUME NEW aliases, IsFiniteSet({a.row : a \in aliases}), {a.row : a \in aliases} \subseteq Aliases
  PROVE  DedupeAliases(aliases) \in Seq(Aliases) /\ InOrder(DedupeAliases(aliases))
<1> DEFINE S == {a.row : a \in aliases}
           before == {pair \in S \X S : KeyLess(AliasKey(pair[1]), AliasKey(pair[2]))}
           n == Cardinality(S)
<1>1. IsFiniteSet(S) /\ S \subseteq Aliases
  OBVIOUS
<1>2. DedupeAliases(aliases) = Arranged(S, before)
  BY DEF DedupeAliases
<1> HIDE DEF S
<1>3. IsOrder(before, S)
  <2>1. \A a \in S : AliasKey(a) \in [1..2 -> Int]
    BY <1>1, AliasKeys
  <2>2. \A a \in S : ~KeyLess(AliasKey(a), AliasKey(a))
    BY <2>1, KeysAreOrdered
  <2>3. ASSUME NEW a \in S, NEW b \in S
        PROVE  a = b \/ KeyLess(AliasKey(a), AliasKey(b)) \/ KeyLess(AliasKey(b), AliasKey(a))
    <3>1. AliasKey(a) = AliasKey(b) => a = b
      BY <1>1, AliasKeys
    <3> QED BY <2>1, <3>1, KeysAreOrdered
  <2>4. ASSUME NEW a \in S, NEW b \in S, NEW c \in S,
               KeyLess(AliasKey(a), AliasKey(b)), KeyLess(AliasKey(b), AliasKey(c))
        PROVE  KeyLess(AliasKey(a), AliasKey(c))
    <3>1. /\ AliasKey(a) \in [1..2 -> Int] /\ AliasKey(b) \in [1..2 -> Int]
          /\ AliasKey(c) \in [1..2 -> Int]
      BY <2>1
    <3> QED BY <2>4, <3>1, KeysAreOrdered
  <2> QED BY <2>2, <2>3, <2>4 DEF IsOrder
<1> HIDE DEF before
<1>4. /\ n \in Nat /\ Arranged(S, before) \in [1..n -> S]
      /\ \A i, k \in 1..n : i < k => <<Arranged(S, before)[i], Arranged(S, before)[k]>> \in before
  BY <1>1, <1>3, ArrangedFacts
<1>5. Arranged(S, before) \in Seq(Aliases)
  <2>1. Arranged(S, before) \in [1..n -> Aliases]
    BY <1>1, <1>4
  <2> QED BY <1>4, <2>1, SeqDef
<1>6. InOrder(Arranged(S, before))
  BY <1>4 DEF InOrder, before
<1> QED BY <1>2, <1>5, <1>6

\* What the ingest service makes of a batch.
LEMMA IngestFacts ==
  ASSUME NEW candidates, IsBatch(candidates), NEW repoOf,
         \A l \in DOMAIN repoOf : repoOf[l] \in Nat,
         Identity(Pivot(candidates), repoOf).id \in PackageIds \cup {None},
         NEW run, NEW at
  PROVE  /\ IsResult(Ingest(run, at, candidates, repoOf))
         /\ Ingest(run, at, candidates, repoOf).run = run
<1> DEFINE identity == Identity(Pivot(candidates), repoOf)
           aliases == AliasesInBatch(candidates, identity)
<1>1. DedupeAliases(aliases) \in Seq(Aliases) /\ InOrder(DedupeAliases(aliases))
  <2>1. IsFiniteSet({a.row : a \in aliases}) /\ {a.row : a \in aliases} \subseteq Aliases
    BY BatchAliases
  <2> HIDE DEF aliases
  <2> QED BY <2>1, AliasesAreInOrder
<1>2. <<>> \in Seq(Aliases) /\ InOrder(<<>>)
  BY DEF InOrder
<1>3. CASE identity.id = None
  BY <1>2, <1>3 DEF Ingest, IsResult
<1>4. CASE identity.id # None
  <2> DEFINE package == [id |-> identity.id, slug |-> PackageSlug(candidates),
                         repo |-> Given(identity.repo, Pivot(candidates).home)]
             result == [run |-> run, at |-> at, conflict |-> None, package |-> package,
                        aliases |-> DedupeAliases(aliases), name |-> MergedName(candidates)]
  <2>1. Ingest(run, at, candidates, repoOf) = result
    BY <1>4 DEF Ingest
  <2>2. package.id \in PackageIds
    BY <1>4
  <2> HIDE DEF package, aliases
  <2>3. IsResult(result) /\ result.run = run
    BY <1>1, <2>2 DEF IsResult
  <2> QED BY <2>1, <2>3
<1> QED BY <1>3, <1>4

\* The pages that can be read are a batch.
LEMMA PagesAreABatch ==
  ASSUME NEW docs \in Versions, FromDocs(docs) # <<>>
  PROVE  IsBatch(FromDocs(docs))
<1> DEFINE Readable(doc) == doc.url # None /\ doc.content
           Title(doc) == Given(doc.title, -1)
           Candidate(doc) ==
             [source |-> "docs", at |-> doc.updated, repoId |-> None, repo |-> doc.repo,
              registry |-> doc.url, subpath |-> 0, registryName |-> "docs",
              home |-> Given(doc.repo, doc.url),
              slug |-> Given(doc.slug, Given(doc.title, doc.url)),
              name |-> Given(doc.title, Given(doc.slug, doc.url)),
              aliases |-> Urls({doc.url} \cup doc.aliases)]
           S == {k \in DOMAIN docs : Readable(docs[k])}
           earlier == {pair \in S \X S :
                         LET left == docs[pair[1]]  right == docs[pair[2]]
                         IN  \/ left.url < right.url
                             \/ left.url = right.url /\ Title(left) < Title(right)
                             \/ /\ left.url = right.url /\ Title(left) = Title(right)
                                /\ pair[1] < pair[2]}
           order == Arranged(S, earlier)
           n == Cardinality(S)
<1>1. /\ docs \in Seq(Pages) /\ \A k \in DOMAIN docs : IsFiniteSet(docs[k].aliases)
      /\ DOMAIN docs = 1..Len(docs) /\ Len(docs) \in Nat
      /\ \A k \in DOMAIN docs : docs[k] \in Pages
  BY FeedsAssumption
<1>2. IsFiniteSet(S)
  <2>1. IsFiniteSet(DOMAIN docs)
    BY <1>1, FS_Interval
  <2> QED BY <2>1, FS_Subset
<1>3. \A k \in S : /\ k \in Int /\ docs[k] \in Pages /\ docs[k].url \in Nat
                   /\ Title(docs[k]) \in Int
  BY <1>1 DEF Pages, Optional, Given
<1>4. FromDocs(docs) = [k \in DOMAIN order |-> Candidate(docs[order[k]])]
  BY DEF FromDocs
<1> HIDE DEF S, Candidate, Title
<1>5. IsOrder(earlier, S)
  <2> DEFINE url(k) == docs[k].url
             title(k) == Title(docs[k])
             Less(i, k) == \/ url(i) < url(k)
                           \/ url(i) = url(k) /\ title(i) < title(k)
                           \/ url(i) = url(k) /\ title(i) = title(k) /\ i < k
  <2>1. \A k \in S : k \in Int /\ url(k) \in Int /\ title(k) \in Int
    BY <1>3
  <2>2. \A i, k \in S : <<i, k>> \in earlier <=> Less(i, k)
    OBVIOUS
  <2>3. earlier \subseteq S \X S
    OBVIOUS
  <2> HIDE DEF earlier, url, title
  <2>4. \A k \in S : ~Less(k, k)
    BY <2>1
  <2>5. \A i, k \in S : i = k \/ Less(i, k) \/ Less(k, i)
    BY <2>1
  <2>6. \A i, j, k \in S : Less(i, j) /\ Less(j, k) => Less(i, k)
    BY <2>1
  <2> HIDE DEF Less
  <2> QED BY <2>2, <2>3, <2>4, <2>5, <2>6 DEF IsOrder
<1> HIDE DEF earlier
<1>6. n \in Nat /\ order \in [1..n -> S]
  BY <1>2, <1>5, ArrangedFacts
<1>7. ASSUME NEW doc \in Pages, doc.url \in Nat, IsFiniteSet(doc.aliases)
      PROVE  Candidate(doc) \in Candidates /\ IsFiniteSet(Candidate(doc).aliases)
  <2> DEFINE urls == ({doc.url} \cup doc.aliases) \ {None}
  <2>1. /\ Given(doc.repo, doc.url) \in Optional
        /\ Given(doc.slug, Given(doc.title, doc.url)) \in Optional
        /\ Given(doc.title, Given(doc.slug, doc.url)) \in Optional
        /\ doc.repo \in Optional /\ doc.url \in Optional /\ doc.updated \in Int
    BY <1>7 DEF Pages, Optional, Given
  <2>2. urls \subseteq Nat
    BY <1>7 DEF Pages, Optional
  <2>3. IsFiniteSet(urls)
    <3>1. IsFiniteSet(doc.aliases \cup {doc.url})
      BY <1>7, FS_AddElement
    <3>2. urls \subseteq doc.aliases \cup {doc.url}
      OBVIOUS
    <3> HIDE DEF urls
    <3> QED BY <3>1, <3>2, FS_Subset
  <2>4. Urls({doc.url} \cup doc.aliases) = {Url(u) : u \in urls}
    BY DEF Urls
  <2>5. IsFiniteSet({Url(u) : u \in urls})
    <3> HIDE DEF urls
    <3> DEFINE f == [u \in urls |-> Url(u)]
    <3>1. f \in Surjection(urls, {Url(u) : u \in urls})
      BY DEF Surjection
    <3> HIDE DEF f
    <3> QED BY <2>3, <3>1, FS_Surjection
  <2>6. {Url(u) : u \in urls} \in SUBSET ({"url_alias"} \X Nat)
    <3> HIDE DEF urls
    <3> QED BY <2>2 DEF Url
  <2>7. "docs" \in Range(Alphabet)
    <3>1. 1 \in DOMAIN Alphabet /\ Alphabet[1] = "docs"
      BY DEF Alphabet
    <3> QED BY <3>1 DEF Range
  <2> HIDE DEF urls
  <2>8. None \in Optional /\ 0 \in Nat
    BY DEF Optional
  <2> QED BY <2>1, <2>4, <2>5, <2>6, <2>7, <2>8 DEF Candidates, Candidate
<1>8. \A k \in 1..n : /\ Candidate(docs[order[k]]) \in Candidates
                      /\ IsFiniteSet(Candidate(docs[order[k]]).aliases)
  <2> SUFFICES ASSUME NEW k \in 1..n
               PROVE  /\ Candidate(docs[order[k]]) \in Candidates
                      /\ IsFiniteSet(Candidate(docs[order[k]]).aliases)
    OBVIOUS
  <2> HIDE DEF order
  <2>1. order[k] \in S
    BY <1>6
  <2>2. order[k] \in DOMAIN docs
    BY <2>1 DEF S
  <2> QED BY <1>1, <1>3, <1>7, <2>1, <2>2
<1> HIDE DEF order
<1>9. FromDocs(docs) \in [1..n -> Candidates]
  BY <1>4, <1>6, <1>8
<1>10. FromDocs(docs) \in Seq(Candidates)
  BY <1>6, <1>9, SeqDef
<1>11. \A k \in DOMAIN FromDocs(docs) : IsFiniteSet(FromDocs(docs)[k].aliases)
  BY <1>4, <1>6, <1>8
<1> QED BY <1>10, <1>11 DEF IsBatch

\* Everything a transaction may be given to persist, dated by the clock or by a file.
Dates == Nat \cup {batch.dated : batch \in Batches}

Possible ==
  {Ingest(batch.run, at, batch.candidates, batch.repoOf) : batch \in Batches, at \in Dates}
  \cup {Ingest(ReconcileRunId(FromDocs(docs)), at, FromDocs(docs), <<>>) :
          docs \in {d \in Versions : FromDocs(d) # <<>>}, at \in Nat}

LEMMA PossibleResults ==
  ASSUME NEW result \in Possible
  PROVE  IsResult(result)
<1>1. ASSUME NEW batch \in Batches, NEW at
      PROVE  IsResult(Ingest(batch.run, at, batch.candidates, batch.repoOf))
  <2>1. IsBatch(batch.candidates) /\ \A l \in DOMAIN batch.repoOf : batch.repoOf[l] \in Nat
    BY FeedsAssumption DEF IsBatch
  <2>2. Identity(Pivot(batch.candidates), batch.repoOf).id \in PackageIds \cup {None}
    BY DEF PackageIds
  <2> QED BY <2>1, <2>2, IngestFacts
<1>2. ASSUME NEW docs \in Versions, FromDocs(docs) # <<>>, NEW at
      PROVE  IsResult(Ingest(ReconcileRunId(FromDocs(docs)), at, FromDocs(docs), <<>>))
  <2>1. Identity(Pivot(FromDocs(docs)), <<>>).id \in PackageIds \cup {None}
    BY <1>2 DEF PackageIds
  <2>2. \A l \in DOMAIN <<>> : <<>>[l] \in Nat
    OBVIOUS
  <2> QED BY <1>2, <2>1, <2>2, PagesAreABatch, IngestFacts
<1> QED BY <1>1, <1>2 DEF Possible

-------------------------------------------------------------------------------
(* The catalog's invariant *)

RunIds == {None} \cup {ReconcileRunId(FromDocs(docs)) : docs \in Versions}
Pcs    == {"idle", "attempt", "persist", "fresh", "not_fresh", "select", "insert", "done",
           "failed", "killed"}
Job    == [pc : Pcs, feed : IngestFeeds \cup ReconcileFeeds \cup {None}, attempt : Nat,
           left : Seq(Possible), step : Nat \ {0}, run : RunIds, succeeded : BOOLEAN,
           last : BOOLEAN]

Tables(packages, aliases, lineage, merges, conflicts, dates, redated) ==
  [packages |-> packages, aliases |-> aliases, lineage |-> lineage, merges |-> merges,
   conflicts |-> conflicts, dates |-> dates, redated |-> redated]

\* Of the tables: they have the feeds' packages, and remember every date of each.
StoreOK ==
  /\ store = Tables(store.packages, store.aliases, store.lineage, store.merges,
                    store.conflicts, store.dates, store.redated)
  /\ Present \subseteq PackageIds
  /\ \A p \in Present : <<p, store.packages[p].at>> \in store.dates

\* Some version of a feed's pages has been persisted.
PagesMerged(feed) ==
  \E docs \in feed.versions : ReconcileRunId(FromDocs(docs)) \in store.merges

\* What a script in flight carries, and what it rests on.
JobOK(j) ==
  LET pc == job[j].pc  feed == job[j].feed  left == job[j].left
  IN /\ pc # "idle" => feed \in IngestFeeds \cup ReconcileFeeds
     /\ pc = "persist" => left # <<>>
     /\ pc = "persist" /\ feed.script = "reconcile" =>
          /\ Len(left) = 1 /\ job[j].run = left[1].run
          /\ \E docs \in feed.versions : left[1].run = ReconcileRunId(FromDocs(docs))
     /\ pc \in {"attempt", "fresh", "not_fresh", "select", "insert"} => feed.script = "reconcile"
     /\ pc = "fresh" => PagesMerged(feed) /\ job[j].run \in store.merges
     /\ job[j].succeeded => pc # "idle" /\ PagesMerged(feed)
     /\ pc # "idle" /\ feed.script = "reconcile" => job[j].attempt # 0
     /\ job[j].succeeded /\ job[j].attempt = 1 => pc # "attempt" /\ job[j].run \in store.merges

CatalogInv ==
  /\ clock \in Nat
  /\ job \in [Jobs -> Job]
  /\ StoreOK
  /\ \A j \in Jobs : JobOK(j)
  /\ RecordsAreTrue

LEMMA NoJobIsAJob ==
  /\ NoJob \in Job
  /\ NoJob.pc = "idle" /\ NoJob.step = 1 /\ NoJob.succeeded = FALSE
<1>1. None \in RunIds /\ <<>> \in Seq(Possible)
  BY DEF RunIds
<1> QED BY <1>1 DEF NoJob, Job, Pcs

LEMMA CatalogHoldsAtInit == CatalogInit => CatalogInv
<1> SUFFICES ASSUME CatalogInit PROVE CatalogInv
  OBVIOUS
<1>1. NoJob \in Job
  BY NoJobIsAJob
<1>2. job \in [Jobs -> Job]
  BY <1>1 DEF CatalogInit
<1>3. StoreOK
  BY DEF CatalogInit, EmptyStore, StoreOK, Present, Tables
<1>4. \A j \in Jobs : JobOK(j)
  BY DEF CatalogInit, NoJob, JobOK
<1>5. RecordsAreTrue
  BY DEF CatalogInit, RecordsAreTrue
<1>6. clock \in Nat
  BY DEF CatalogInit
<1> QED BY <1>2, <1>3, <1>4, <1>5, <1>6 DEF CatalogInv

\* What a commit does to the tables.
LEMMA PersistFacts ==
  ASSUME StoreOK, NEW result \in Possible, store' = Persist(store, result)
  PROVE  /\ store' = Tables(store'.packages, store'.aliases, store'.lineage, store'.merges,
                            store'.conflicts, store'.dates, store'.redated)
         /\ store'.merges = store.merges \cup {result.run}
         /\ result.package = None =>
              /\ store'.packages = store.packages /\ store'.aliases = store.aliases
              /\ store'.lineage = store.lineage /\ store'.dates = store.dates
              /\ store'.redated = store.redated
         /\ result.package # None =>
              LET p == result.package
              IN /\ store'.packages =
                      Put(store.packages, p.id, [slug |-> p.slug, repo |-> p.repo, at |-> result.at])
                 /\ store'.aliases =
                      [row \in DOMAIN store.aliases \cup Range(result.aliases) |->
                         IF row \in Range(result.aliases) THEN p.id ELSE store.aliases[row]]
                 /\ \A l : l.id # p.id => (l \in store'.lineage <=> l \in store.lineage)
                 /\ store'.dates = store.dates \cup {<<p.id, result.at>>}
                 /\ store'.redated = IF <<p.id, result.at>> \in store.dates
                                       THEN store.redated \cup {p.id} ELSE store.redated
<1> DEFINE merges == store.merges \cup {result.run}
           conflicts == store.conflicts \cup ({result.conflict} \ {None})
           logged == [store EXCEPT !.merges = merges, !.conflicts = conflicts]
           p == result.package
<1>0. Persist(store, result) = IF p = None THEN logged ELSE WithPackage(logged, result)
  BY DEF Persist
<1>1. logged = Tables(store.packages, store.aliases, store.lineage, merges, conflicts,
                      store.dates, store.redated)
  <2> HIDE DEF merges, conflicts
  <2> DEFINE s1 == [store EXCEPT !.merges = merges]
             s2 == [s1 EXCEPT !.conflicts = conflicts]
  <2>1. logged = s2
    OBVIOUS
  <2>2. s1 = Tables(store.packages, store.aliases, store.lineage, merges, store.conflicts,
                    store.dates, store.redated)
    <3>1. PICK a, b, c, d, e, f, g : store = Tables(a, b, c, d, e, f, g)
      BY DEF StoreOK
    <3> QED BY <3>1 DEF Tables
  <2> HIDE DEF s1
  <2>3. s2 = Tables(store.packages, store.aliases, store.lineage, merges, conflicts,
                    store.dates, store.redated)
    BY <2>2 DEF Tables
  <2> QED BY <2>1, <2>3
<1>2. /\ logged.packages = store.packages /\ logged.aliases = store.aliases
      /\ logged.lineage = store.lineage /\ logged.merges = merges
      /\ logged.dates = store.dates /\ logged.redated = store.redated
      /\ logged.conflicts = conflicts
  <2> HIDE DEF logged, merges, conflicts
  <2> QED BY <1>1 DEF Tables
<1> HIDE DEF logged
<1>3. CASE p = None
  <2>1. store' = logged
    BY <1>0, <1>3
  <2> QED BY <1>1, <1>2, <1>3, <2>1
<1>4. CASE p # None
  <2> DEFINE packages ==
               Put(store.packages, p.id, [slug |-> p.slug, repo |-> p.repo, at |-> result.at])
             aliases == [row \in DOMAIN store.aliases \cup Range(result.aliases) |->
                           IF row \in Range(result.aliases) THEN p.id ELSE store.aliases[row]]
             lineage == IF result.name = None THEN store.lineage
                        ELSE {l \in store.lineage : l.id # p.id \/ l.run # result.run}
                               \cup {[id |-> p.id, run |-> result.run, name |-> result.name,
                                      at |-> result.at]}
             dates == store.dates \cup {<<p.id, result.at>>}
             redated == IF <<p.id, result.at>> \in store.dates
                          THEN store.redated \cup {p.id} ELSE store.redated
  <2>1. store' = WithPackage(logged, result)
    BY <1>0, <1>4
  <2>2. WithPackage(logged, result) =
          [logged EXCEPT !.packages = packages, !.aliases = aliases, !.lineage = lineage,
                         !.dates = dates, !.redated = redated]
    BY <1>2 DEF WithPackage
  <2>3. \A l : l.id # p.id => (l \in lineage <=> l \in store.lineage)
    OBVIOUS
  <2> HIDE DEF packages, aliases, lineage, dates, redated, merges, conflicts
  <2>4. store' = Tables(packages, aliases, lineage, merges, conflicts, dates, redated)
    <3> DEFINE s1 == [logged EXCEPT !.packages = packages]
               s2 == [s1 EXCEPT !.aliases = aliases]
               s3 == [s2 EXCEPT !.lineage = lineage]
               s4 == [s3 EXCEPT !.dates = dates]
               s5 == [s4 EXCEPT !.redated = redated]
    <3>1. store' = s5
      BY <2>1, <2>2
    <3>2. s1 = Tables(packages, store.aliases, store.lineage, merges, conflicts, store.dates,
                      store.redated)
      BY <1>1 DEF Tables
    <3> HIDE DEF s1
    <3>3. s2 = Tables(packages, aliases, store.lineage, merges, conflicts, store.dates,
                      store.redated)
      BY <3>2 DEF Tables
    <3> HIDE DEF s2
    <3>4. s3 = Tables(packages, aliases, lineage, merges, conflicts, store.dates,
                      store.redated)
      BY <3>3 DEF Tables
    <3> HIDE DEF s3
    <3>5. s4 = Tables(packages, aliases, lineage, merges, conflicts, dates, store.redated)
      BY <3>4 DEF Tables
    <3> HIDE DEF s4
    <3>6. s5 = Tables(packages, aliases, lineage, merges, conflicts, dates, redated)
      BY <3>5 DEF Tables
    <3> QED BY <3>1, <3>6
  <2>5. /\ store'.packages = packages /\ store'.aliases = aliases
        /\ store'.lineage = lineage /\ store'.merges = merges
        /\ store'.dates = dates /\ store'.redated = redated
        /\ store'.conflicts = conflicts
    BY <2>4 DEF Tables
  <2> USE DEF packages, aliases, dates, redated, merges
  <2> QED BY <1>4, <2>3, <2>4, <2>5
<1> QED BY <1>3, <1>4

-------------------------------------------------------------------------------
(* The scripts *)

LEMMA JobRecord ==
  ASSUME NEW state \in Job
  PROVE  /\ state.pc \in Pcs /\ state.feed \in IngestFeeds \cup ReconcileFeeds \cup {None}
         /\ state.attempt \in Nat /\ state.left \in Seq(Possible) /\ state.step \in Nat \ {0}
         /\ state.run \in RunIds /\ state.succeeded \in BOOLEAN /\ state.last \in BOOLEAN
BY DEF Job

\* A script's record with one field set anew.
LEMMA JobUpdates ==
  ASSUME NEW state \in Job, NEW pc \in Pcs, NEW feed \in IngestFeeds \cup ReconcileFeeds,
         NEW left \in Seq(Possible), NEW step \in Nat \ {0}, NEW run \in RunIds,
         NEW attempt \in Nat
  PROVE  /\ [state EXCEPT !.pc = pc] \in Job
         /\ [state EXCEPT !.feed = feed] \in Job
         /\ [state EXCEPT !.left = left] \in Job
         /\ [state EXCEPT !.step = step] \in Job
         /\ [state EXCEPT !.run = run] \in Job
         /\ [state EXCEPT !.attempt = attempt] \in Job
         /\ [state EXCEPT !.succeeded = TRUE] \in Job
         /\ [state EXCEPT !.last = TRUE] \in Job
BY DEF Job

\* An error changes where a script is, and drops what it was to persist.
LEMMA AfterErrorFacts ==
  ASSUME NEW state \in Job
  PROVE  /\ AfterError(state) \in Job
         /\ AfterError(state).pc \in {"attempt", "select", "not_fresh", "failed"}
         /\ AfterError(state).pc # "failed" => state.feed.script # "ingest"
         /\ AfterError(state).feed = state.feed /\ AfterError(state).run = state.run
         /\ AfterError(state).succeeded = state.succeeded
         /\ AfterError(state).left = <<>>
         /\ AfterError(state).attempt =
              IF AfterError(state).pc = "attempt" THEN state.attempt + 1 ELSE state.attempt
<1> DEFINE failed == [state EXCEPT !.pc = "failed", !.left = <<>>]
           again  == [state EXCEPT !.pc = "attempt", !.attempt = @ + 1, !.left = <<>>]
           select == [state EXCEPT !.pc = "select", !.last = TRUE, !.left = <<>>]
           spent  == [state EXCEPT !.pc = "not_fresh", !.left = <<>>]
           Like(new) == /\ new \in Job
                        /\ new.feed = state.feed /\ new.run = state.run
                        /\ new.succeeded = state.succeeded /\ new.left = <<>>
<1>1. <<>> \in Seq(Possible) /\ state.attempt + 1 \in Nat
  BY JobRecord
<1>2. Like(failed) /\ failed.pc = "failed" /\ failed.attempt = state.attempt
  BY <1>1 DEF Job, Pcs
<1>3. Like(again) /\ again.pc = "attempt" /\ again.attempt = state.attempt + 1
  BY <1>1 DEF Job, Pcs
<1>4. Like(select) /\ select.pc = "select" /\ select.attempt = state.attempt
  BY <1>1 DEF Job, Pcs
<1>5. Like(spent) /\ spent.pc = "not_fresh" /\ spent.attempt = state.attempt
  BY <1>1 DEF Job, Pcs
<1>6. \/ AfterError(state) = failed
      \/ /\ state.feed.script # "ingest"
         /\ AfterError(state) = Caught(state)
  BY DEF AfterError
<1>7. Caught(state) \in {again, select, spent}
  <2>1. CASE state.attempt < MaxAttempts
    <3>1. ~(state.attempt = MaxAttempts)
      BY <2>1, MaxAttemptsAssumption, JobRecord
    <3> QED BY <2>1, <3>1 DEF Caught
  <2>2. CASE ~(state.attempt < MaxAttempts) /\ state.attempt = MaxAttempts /\ state.succeeded
    BY <2>2 DEF Caught
  <2>3. CASE /\ ~(state.attempt < MaxAttempts)
             /\ ~(state.attempt = MaxAttempts /\ state.succeeded)
    BY <2>3 DEF Caught
  <2> QED BY <2>1, <2>2, <2>3
<1> HIDE DEF failed, again, select, spent
<1> QED BY <1>2, <1>3, <1>4, <1>5, <1>6, <1>7

\* The scripts that do nothing still rest on what they rested on.
LEMMA OtherJobs ==
  ASSUME \A k \in Jobs : JobOK(k), NEW j \in Jobs, JobOK(j)',
         \A k \in Jobs \ {j} : job'[k] = job[k],
         store.merges \subseteq store'.merges
  PROVE  \A k \in Jobs : JobOK(k)'
<1>1. ASSUME NEW k \in Jobs \ {j} PROVE JobOK(k)'
  BY <1>1 DEF JobOK, PagesMerged
<1> QED BY <1>1

\* A script that goes on without a transaction: it keeps the number of its attempt unless
\* it makes another, and the id of its merge run unless an attempt found another.
LEMMA GoesOn ==
  ASSUME NEW j \in Jobs, JobOK(j), job[j] \in Job, job[j].pc # "idle",
         store.merges \subseteq store'.merges,
         job'[j].feed = job[j].feed, job'[j].succeeded = job[j].succeeded,
         job'[j].pc \in {"attempt", "not_fresh", "select", "insert", "done", "failed", "killed"},
         job'[j].pc \in {"attempt", "not_fresh", "select", "insert"} =>
           job[j].feed.script = "reconcile",
         job'[j].attempt = IF job'[j].pc = "attempt" THEN job[j].attempt + 1
                                                     ELSE job[j].attempt,
         job'[j].run = job[j].run \/ job[j].pc = "attempt"
  PROVE  JobOK(j)'
<1>1. job[j].feed \in IngestFeeds \cup ReconcileFeeds
  BY DEF JobOK
<1>2. job[j].succeeded => \E docs \in job[j].feed.versions :
                            ReconcileRunId(FromDocs(docs)) \in store'.merges
  BY DEF JobOK, PagesMerged
<1>3. job[j].attempt \in Nat /\ (job[j].feed.script = "reconcile" => job[j].attempt # 0)
  BY JobRecord DEF JobOK
<1>4. job[j].feed.script = "reconcile" => job'[j].attempt # 0
  BY <1>3
<1>5. ASSUME job'[j].succeeded, job'[j].attempt = 1
      PROVE  job'[j].pc # "attempt" /\ job'[j].run \in store'.merges
  <2>1. job'[j].pc # "attempt"
    BY <1>3, <1>5
  <2>2. job[j].pc # "attempt" /\ job[j].run \in store.merges
    BY <1>5, <2>1 DEF JobOK
  <2> QED BY <2>1, <2>2
<1> QED BY <1>1, <1>2, <1>4, <1>5 DEF JobOK, PagesMerged

\* What is recorded stays true while merge runs are added.
LEMMA RecordsStay ==
  ASSUME RecordsAreTrue, UNCHANGED <<freshness, runs>>, store.merges \subseteq store'.merges
  PROVE  RecordsAreTrue'
BY DEF RecordsAreTrue

\* A row put in a table is there, and the others are as they were.
LEMMA PutFacts ==
  ASSUME NEW map, NEW key, NEW value
  PROVE  /\ DOMAIN Put(map, key, value) = DOMAIN map \cup {key}
         /\ Put(map, key, value)[key] = value
         /\ \A k \in DOMAIN map : k # key => Put(map, key, value)[k] = map[k]
BY DEF Put

LEMMA StoreKept ==
  ASSUME StoreOK, NEW result \in Possible, store' = Persist(store, result)
  PROVE  StoreOK'
<1>1. CASE result.package = None
  <2>1. /\ store' = Tables(store'.packages, store'.aliases, store'.lineage, store'.merges,
                           store'.conflicts, store'.dates, store'.redated)
        /\ store'.packages = store.packages /\ store'.dates = store.dates
    BY <1>1, PersistFacts
  <2> QED BY <2>1 DEF StoreOK, Present
<1>2. CASE result.package # None
  <2> DEFINE p == result.package
             row == [slug |-> p.slug, repo |-> p.repo, at |-> result.at]
  <2>1. /\ store' = Tables(store'.packages, store'.aliases, store'.lineage, store'.merges,
                           store'.conflicts, store'.dates, store'.redated)
        /\ store'.packages = Put(store.packages, p.id, row)
        /\ store'.dates = store.dates \cup {<<p.id, result.at>>}
    BY <1>2, PersistFacts
  <2>2. p.id \in PackageIds
    BY <1>2, PossibleResults DEF IsResult
  <2>3. row.at = result.at
    OBVIOUS
  <2> HIDE DEF row, p
  <2>4. /\ DOMAIN store'.packages = DOMAIN store.packages \cup {p.id}
        /\ store'.packages[p.id] = row
        /\ \A k \in DOMAIN store.packages : k # p.id => store'.packages[k] = store.packages[k]
    BY <2>1 DEF Put
  <2>5. \A k \in DOMAIN store'.packages : <<k, store'.packages[k].at>> \in store'.dates
    BY <2>1, <2>3, <2>4 DEF StoreOK, Present
  <2>6. DOMAIN store'.packages \subseteq PackageIds
    BY <2>2, <2>4 DEF StoreOK, Present
  <2> QED BY <2>1, <2>5, <2>6 DEF StoreOK, Present
<1> QED BY <1>1, <1>2

LEMMA IngestStarts ==
  ASSUME CatalogInv, NEW j \in Jobs, NEW feed, StartIngest(j, feed)
  PROVE  CatalogInv'
<1> DEFINE new == [NoJob EXCEPT !.pc = "persist", !.feed = feed, !.left = Results(feed)]
<1>1. /\ feed \in IngestFeeds /\ clock \in Nat /\ job \in [Jobs -> Job]
      /\ job' = [job EXCEPT ![j] = new]
      /\ clock' = clock + 1 /\ UNCHANGED <<store, freshness, runs>>
  BY DEF StartIngest, CatalogInv
<1>2. feed.merges \in Seq(Batches) \ {<<>>} /\ feed.script = "ingest"
  BY <1>1, FeedsAssumption DEF IngestFeeds
<1>3. Results(feed) \in Seq(Possible) /\ Results(feed) # <<>>
  <2> DEFINE n == Len(feed.merges)
  <2>1. n \in Nat /\ n # 0 /\ feed.merges \in [1..n -> Batches] /\ DOMAIN feed.merges = 1..n
    BY <1>2
  <2>2. ASSUME NEW k \in 1..n
        PROVE  Ingest(feed.merges[k].run, Given(feed.merges[k].dated, clock),
                      feed.merges[k].candidates, feed.merges[k].repoOf) \in Possible
    <3>1. feed.merges[k] \in Batches
      BY <2>1
    <3> DEFINE at == Given(feed.merges[k].dated, clock)
    <3>2. at \in Dates
      BY <1>1, <3>1 DEF Given, Dates
    <3> HIDE DEF at
    <3>4. Ingest(feed.merges[k].run, at, feed.merges[k].candidates, feed.merges[k].repoOf)
            \in Possible
      BY <3>1, <3>2 DEF Possible
    <3> QED BY <3>4 DEF at
  <2>3. Results(feed) \in [1..n -> Possible]
    BY <2>1, <2>2 DEF Results
  <2>4. Results(feed) \in Seq(Possible)
    BY <2>1, <2>3, SeqDef
  <2>5. Len(Results(feed)) = n
    <3>1. DOMAIN Results(feed) = 1..n
      BY <2>3
    <3> HIDE DEF n
    <3> QED BY <2>1, <2>4, <3>1, LenProperties
  <2> HIDE DEF n
  <2>6. Results(feed) # <<>>
    BY <2>1, <2>5
  <2> QED BY <2>4, <2>6
<1>4. /\ new \in Job /\ new.pc = "persist" /\ new.feed = feed /\ new.left = Results(feed)
      /\ ~new.succeeded
  <2> DEFINE s1 == [NoJob EXCEPT !.pc = "persist"]
             s2 == [s1 EXCEPT !.feed = feed]
             s3 == [s2 EXCEPT !.left = Results(feed)]
  <2>1. new = s3
    OBVIOUS
  <2>2. s1 \in Job /\ s1.pc = "persist" /\ ~s1.succeeded
    BY NoJobIsAJob DEF Job, Pcs
  <2> HIDE DEF s1
  <2>3. s2 \in Job /\ s2.pc = "persist" /\ ~s2.succeeded /\ s2.feed = feed
    BY <1>1, <2>2 DEF Job
  <2> HIDE DEF s2
  <2>4. s3 \in Job /\ s3.pc = "persist" /\ ~s3.succeeded /\ s3.feed = feed
        /\ s3.left = Results(feed)
    BY <1>3, <2>3 DEF Job
  <2> QED BY <2>1, <2>4
<1> HIDE DEF new
<1>5. /\ job' \in [Jobs -> Job] /\ job'[j] = new /\ \A k \in Jobs \ {j} : job'[k] = job[k]
      /\ clock' \in Nat
  BY <1>1, <1>4
<1>6. JobOK(j)'
  BY <1>1, <1>2, <1>3, <1>4, <1>5 DEF JobOK
<1>7. \A k \in Jobs : JobOK(k)'
  BY <1>1, <1>5, <1>6, OtherJobs DEF CatalogInv
<1>8. RecordsAreTrue' /\ StoreOK'
  BY <1>1, RecordsStay DEF CatalogInv, StoreOK, Present
<1> QED BY <1>5, <1>7, <1>8 DEF CatalogInv

LEMMA ReconcileStarts ==
  ASSUME CatalogInv, NEW j \in Jobs, NEW feed, StartReconcile(j, feed)
  PROVE  CatalogInv'
<1> DEFINE new == [NoJob EXCEPT !.pc = "attempt", !.feed = feed, !.attempt = 1]
<1>1. /\ feed \in ReconcileFeeds /\ feed.script = "reconcile" /\ job \in [Jobs -> Job]
      /\ job' = [job EXCEPT ![j] = new]
      /\ UNCHANGED <<store, freshness, runs, clock>>
  BY DEF StartReconcile, CatalogInv, ReconcileFeeds
<1>2. /\ new \in Job /\ new.pc = "attempt" /\ new.feed = feed /\ ~new.succeeded
      /\ new.attempt = 1
  <2> DEFINE s1 == [NoJob EXCEPT !.pc = "attempt"]
             s2 == [s1 EXCEPT !.feed = feed]
             s3 == [s2 EXCEPT !.attempt = 1]
  <2>1. new = s3
    OBVIOUS
  <2>2. s1 \in Job /\ s1.pc = "attempt" /\ ~s1.succeeded
    BY NoJobIsAJob DEF Job, Pcs
  <2> HIDE DEF s1
  <2>3. s2 \in Job /\ s2.pc = "attempt" /\ ~s2.succeeded /\ s2.feed = feed
    BY <1>1, <2>2 DEF Job
  <2> HIDE DEF s2
  <2>4. s3 \in Job /\ s3.pc = "attempt" /\ ~s3.succeeded /\ s3.feed = feed /\ s3.attempt = 1
    BY <2>3 DEF Job
  <2> QED BY <2>1, <2>4
<1> HIDE DEF new
<1>3. /\ job' \in [Jobs -> Job] /\ job'[j] = new /\ \A k \in Jobs \ {j} : job'[k] = job[k]
  BY <1>1, <1>2
<1>4. JobOK(j)'
  BY <1>1, <1>2, <1>3 DEF JobOK
<1>5. \A k \in Jobs : JobOK(k)'
  BY <1>1, <1>3, <1>4, OtherJobs DEF CatalogInv
<1>6. RecordsAreTrue' /\ StoreOK'
  BY <1>1, RecordsStay DEF CatalogInv, StoreOK, Present
<1> QED BY <1>1, <1>3, <1>5, <1>6 DEF CatalogInv

\* A script that moves and leaves the tables and the records alone.
LEMMA ScriptMoves ==
  ASSUME CatalogInv, NEW j \in Jobs, NEW new \in Job, job' = [job EXCEPT ![j] = new],
         JobOK(j)', UNCHANGED <<store, freshness, runs>>, clock' \in Nat
  PROVE  CatalogInv'
<1>1. /\ job' \in [Jobs -> Job] /\ \A k \in Jobs \ {j} : job'[k] = job[k]
      /\ \A k \in Jobs : JobOK(k)
  BY DEF CatalogInv
<1>2. \A k \in Jobs : JobOK(k)'
  BY <1>1, OtherJobs
<1>3. RecordsAreTrue' /\ StoreOK'
  BY RecordsStay DEF CatalogInv, StoreOK, Present
<1> QED BY <1>1, <1>2, <1>3 DEF CatalogInv

\* A script that has met an error, in an attempt that may have found a merge run.
LEMMA ErrorIsCaught ==
  ASSUME CatalogInv, NEW j \in Jobs, NEW state \in Job, job[j].pc # "idle",
         state.feed = job[j].feed, state.succeeded = job[j].succeeded,
         state.attempt = job[j].attempt, state.run = job[j].run \/ job[j].pc = "attempt",
         job' = [job EXCEPT ![j] = AfterError(state)], store.merges \subseteq store'.merges
  PROVE  job' \in [Jobs -> Job] /\ \A k \in Jobs : JobOK(k)'
<1> DEFINE new == AfterError(state)
<1>1. /\ job \in [Jobs -> Job] /\ job[j] \in Job /\ \A k \in Jobs : JobOK(k)
      /\ job' = [job EXCEPT ![j] = new]
  BY DEF CatalogInv
<1>2. /\ new \in Job /\ new.pc \in {"attempt", "select", "not_fresh", "failed"}
      /\ new.pc # "failed" => job[j].feed.script # "ingest"
      /\ new.feed = job[j].feed /\ new.succeeded = job[j].succeeded
      /\ new.attempt = IF new.pc = "attempt" THEN job[j].attempt + 1 ELSE job[j].attempt
      /\ new.run = job[j].run \/ job[j].pc = "attempt"
  BY AfterErrorFacts
<1> HIDE DEF new
<1>3. /\ job' \in [Jobs -> Job] /\ job'[j] = new /\ \A k \in Jobs \ {j} : job'[k] = job[k]
  BY <1>1, <1>2
<1>4. job[j].feed \in IngestFeeds \cup ReconcileFeeds
  BY <1>1 DEF JobOK
<1>5. job[j].feed.script \in {"ingest", "reconcile"}
  BY <1>4 DEF IngestFeeds, ReconcileFeeds
<1>6. JobOK(j)'
  BY <1>1, <1>2, <1>3, <1>5, GoesOn
<1> QED BY <1>1, <1>3, <1>6, OtherJobs

LEMMA ErrorKeeps ==
  ASSUME CatalogInv, NEW j \in Jobs, job[j].pc # "idle", job' = [job EXCEPT ![j] = AfterError(@)],
         UNCHANGED <<store, freshness, runs, clock>>
  PROVE  CatalogInv'
<1>0. job[j] \in Job
  BY DEF CatalogInv
<1>1. job' \in [Jobs -> Job] /\ \A k \in Jobs : JobOK(k)'
  BY <1>0, ErrorIsCaught
<1>2. RecordsAreTrue' /\ StoreOK' /\ clock' \in Nat
  BY RecordsStay DEF CatalogInv, StoreOK, Present
<1> QED BY <1>1, <1>2 DEF CatalogInv

\* Pages that give no candidate name their merge run, and are refused.
LEMMA FetchNothingKeeps ==
  ASSUME CatalogInv, NEW j \in Jobs, FetchNothing(j)
  PROVE  CatalogInv'
<1> DEFINE none  == ReconcileRunId(<<>>)
           state == [job[j] EXCEPT !.run = none]
<1>1. /\ job[j].pc = "attempt" /\ UNCHANGED <<store, freshness, runs, clock>>
      /\ job[j] \in Job /\ JobOK(j)
      /\ job' = [job EXCEPT ![j] = AfterError(state)]
  BY DEF FetchNothing, CatalogInv
<1>2. none \in RunIds
  <2>1. PICK docs \in job[j].feed.versions : FromDocs(docs) = <<>>
    BY DEF FetchNothing
  <2>2. job[j].feed \in ReconcileFeeds
    BY <1>1 DEF JobOK, IngestFeeds, ReconcileFeeds
  <2>3. docs \in Versions
    BY <2>2 DEF Versions
  <2> QED BY <2>1, <2>3 DEF RunIds
<1> HIDE DEF none
<1>3. /\ state \in Job /\ state.feed = job[j].feed /\ state.succeeded = job[j].succeeded
      /\ state.attempt = job[j].attempt
  BY <1>1, <1>2 DEF Job
<1> HIDE DEF state
<1>4. job' \in [Jobs -> Job] /\ \A k \in Jobs : JobOK(k)'
  BY <1>1, <1>3, ErrorIsCaught
<1>5. RecordsAreTrue' /\ StoreOK' /\ clock' \in Nat
  BY <1>1, RecordsStay DEF CatalogInv, StoreOK, Present
<1> QED BY <1>4, <1>5 DEF CatalogInv

\* The result a transaction persists, and what it leaves in the tables.
LEMMA Committed ==
  ASSUME CatalogInv, NEW j \in Jobs, InTransaction(j)
  PROVE  /\ job[j].left # <<>> /\ job[j].left \in Seq(Possible)
         /\ Head(job[j].left) = job[j].left[1] /\ Head(job[j].left) \in Possible
         /\ store' = Persist(store, Head(job[j].left)) =>
              StoreOK' /\ store'.merges = store.merges \cup {Head(job[j].left).run}
<1>1. /\ job[j].left # <<>> /\ job[j].left \in Seq(Possible) /\ StoreOK
  BY JobRecord DEF CatalogInv, JobOK, InTransaction
<1>2. Head(job[j].left) = job[j].left[1] /\ Head(job[j].left) \in Possible
  BY <1>1
<1> QED BY <1>1, <1>2, StoreKept, PersistFacts

LEMMA FetchKeeps ==
  ASSUME CatalogInv, NEW j \in Jobs, NEW result, Fetch(j, result)
  PROVE  CatalogInv'
<1> DEFINE s1 == [job[j] EXCEPT !.pc = "persist"]
           s2 == [s1 EXCEPT !.left = <<result>>]
           s3 == [s2 EXCEPT !.step = 1]
           s4 == [s3 EXCEPT !.run = result.run]
           feed == job[j].feed
<1>1. /\ job[j].pc = "attempt" /\ result \in Fetches(feed)
      /\ job \in [Jobs -> Job] /\ job[j] \in Job /\ JobOK(j) /\ clock \in Nat
      /\ clock' = clock + 1 /\ UNCHANGED <<store, freshness, runs>>
  BY DEF Fetch, CatalogInv
<1>2. feed \in ReconcileFeeds /\ feed.script = "reconcile"
  <2>1. feed \in IngestFeeds \cup ReconcileFeeds /\ feed.script = "reconcile"
    BY <1>1 DEF JobOK
  <2> QED BY <2>1 DEF IngestFeeds, ReconcileFeeds
<1>3. PICK docs \in feed.versions :
        /\ FromDocs(docs) # <<>>
        /\ result = Ingest(ReconcileRunId(FromDocs(docs)), clock, FromDocs(docs), <<>>)
  BY <1>1 DEF Fetches
<1>4. docs \in Versions
  BY <1>2, <1>3 DEF Versions
<1>5. result \in Possible
  BY <1>1, <1>3, <1>4 DEF Possible
<1>6. result.run = ReconcileRunId(FromDocs(docs))
  BY <1>3 DEF Ingest
<1>7. job' = [job EXCEPT ![j] = s4]
  BY <1>1 DEF Fetch
<1>8. <<result>> \in Seq(Possible) /\ result.run \in RunIds
  BY <1>4, <1>5, <1>6 DEF RunIds
<1>9. /\ s1 \in Job /\ s1.pc = "persist" /\ s1.feed = feed /\ s1.succeeded = job[j].succeeded
      /\ s1.attempt = job[j].attempt
  BY <1>1 DEF Job, Pcs
<1> HIDE DEF s1, feed
<1>10. /\ s2 \in Job /\ s2.pc = "persist" /\ s2.feed = feed /\ s2.succeeded = job[j].succeeded
       /\ s2.left = <<result>> /\ s2.attempt = job[j].attempt
  BY <1>8, <1>9 DEF Job
<1> HIDE DEF s2
<1>11. /\ s3 \in Job /\ s3.pc = "persist" /\ s3.feed = feed /\ s3.succeeded = job[j].succeeded
       /\ s3.left = <<result>> /\ s3.attempt = job[j].attempt
  BY <1>10 DEF Job
<1> HIDE DEF s3
<1>12. /\ s4 \in Job /\ s4.pc = "persist" /\ s4.feed = feed /\ s4.succeeded = job[j].succeeded
       /\ s4.left = <<result>> /\ s4.run = result.run /\ s4.attempt = job[j].attempt
  BY <1>8, <1>11 DEF Job
<1> HIDE DEF s4
<1>13. job'[j] = s4
  BY <1>1, <1>7
<1>14. JobOK(j)'
  <2>1. job[j].succeeded => \E d \in feed.versions : ReconcileRunId(FromDocs(d)) \in store.merges
    BY <1>1 DEF JobOK, PagesMerged, feed
  <2>2. <<result>> # <<>> /\ Len(<<result>>) = 1 /\ <<result>>[1] = result
    OBVIOUS
  <2>3. /\ s4.left # <<>> /\ Len(s4.left) = 1 /\ s4.run = s4.left[1].run
        /\ s4.left[1].run = ReconcileRunId(FromDocs(docs))
    BY <1>6, <1>12, <2>2
  <2>4. docs \in feed.versions
    BY <1>3
  <2>5. /\ job[j].attempt # 0
        /\ ~(job[j].succeeded /\ job[j].attempt = 1)
    BY <1>1, <1>2 DEF JobOK, feed
  <2> QED BY <1>1, <1>2, <1>12, <1>13, <2>1, <2>3, <2>4, <2>5 DEF JobOK, PagesMerged
<1>15. clock' \in Nat
  BY <1>1
<1> HIDE DEF Fetch
<1> QED BY <1>1, <1>7, <1>12, <1>14, <1>15, ScriptMoves

LEMMA TakeRowKeeps ==
  ASSUME CatalogInv, NEW j \in Jobs, TakeRow(j)
  PROVE  CatalogInv'
<1>1. /\ job[j].pc = "persist" /\ UNCHANGED <<store, freshness, runs, clock>>
      /\ job \in [Jobs -> Job] /\ job[j] \in Job /\ JobOK(j) /\ clock' \in Nat
  BY DEF TakeRow, InTransaction, CatalogInv
<1>2. CASE SlugTaken(j)
  BY <1>1, <1>2, ErrorKeeps DEF TakeRow
<1>3. CASE ~SlugTaken(j)
  <2> DEFINE step == job[j].step + 1
             new == [job[j] EXCEPT !.step = step]
  <2>1. job' = [job EXCEPT ![j] = new]
    BY <1>1, <1>3 DEF TakeRow
  <2>2. step \in Nat \ {0}
    BY <1>1, JobRecord
  <2> HIDE DEF step
  <2>3. /\ new \in Job /\ new.pc = "persist" /\ new.feed = job[j].feed
        /\ new.left = job[j].left /\ new.run = job[j].run /\ new.succeeded = job[j].succeeded
        /\ new.attempt = job[j].attempt
    BY <1>1, <2>2 DEF Job
  <2> HIDE DEF new
  <2>4. job'[j] = new
    BY <1>1, <2>1
  <2>5. JobOK(j)'
    BY <1>1, <2>3, <2>4 DEF JobOK, PagesMerged
  <2> QED BY <1>1, <2>1, <2>3, <2>5, ScriptMoves
<1> QED BY <1>2, <1>3

\* A sequence of more than one element has a rest.
LEMMA MoreThanOne ==
  ASSUME NEW S, NEW seq \in Seq(S), Len(seq) > 1
  PROVE  Tail(seq) \in Seq(S) /\ Tail(seq) # <<>>
<1>1. PICK n \in Nat : n = Len(seq)
  BY LenProperties
<1>2. PICK rest \in Seq(S) : rest = Tail(seq) /\ Len(rest) = n - 1
  <2>1. seq # <<>>
    OBVIOUS
  <2> QED BY <1>1, <2>1, HeadTailProperties
<1>3. n > 1
  BY <1>1
<1>4. rest # <<>>
  <2>1. SUFFICES ASSUME rest = <<>> PROVE FALSE
    OBVIOUS
  <2>2. n - 1 = 0
    BY <1>2, <2>1
  <2> QED BY <1>3, <2>2
<1> QED BY <1>2, <1>4

\* A transaction that commits: the tables, and what follows for its script.
LEMMA CommitKeeps ==
  ASSUME CatalogInv, NEW j \in Jobs, Commit(j)
  PROVE  CatalogInv'
<1> DEFINE left  == job[j].left
           feed  == job[j].feed
           rest  == Tail(left)
           new   == AfterCommit(job[j])
           f1    == [job[j] EXCEPT !.pc = "fresh"]
           fresh == [f1 EXCEPT !.left = <<>>]
           n1    == [job[j] EXCEPT !.left = rest]
           next  == [n1 EXCEPT !.step = 1]
           d1    == [job[j] EXCEPT !.pc = "done"]
           done  == [d1 EXCEPT !.left = <<>>]
<1>1. /\ InTransaction(j) /\ job[j].pc = "persist" /\ UNCHANGED <<freshness, runs, clock>>
      /\ job \in [Jobs -> Job] /\ job[j] \in Job /\ \A k \in Jobs : JobOK(k)
      /\ RecordsAreTrue /\ clock \in Nat
      /\ job' = [job EXCEPT ![j] = new]
  BY DEF Commit, AtCommit, InTransaction, CatalogInv
<1>2. StoreOK' /\ store'.merges = store.merges \cup {Head(left).run}
  BY <1>1, Committed DEF Commit
<1>3. left # <<>> /\ left \in Seq(Possible) /\ Head(left) = left[1] /\ <<>> \in Seq(Possible)
  BY <1>1, Committed
<1>4. /\ feed \in IngestFeeds \cup ReconcileFeeds
      /\ feed.script = "reconcile" =>
           /\ job[j].run = left[1].run
           /\ \E docs \in feed.versions : left[1].run = ReconcileRunId(FromDocs(docs))
  BY <1>1 DEF JobOK
<1>5. /\ job[j].succeeded =>
           \E docs \in feed.versions : ReconcileRunId(FromDocs(docs)) \in store'.merges
      /\ job[j].succeeded /\ job[j].attempt = 1 => job[j].run \in store'.merges
      /\ feed.script = "reconcile" => job[j].attempt # 0
  BY <1>1, <1>2 DEF JobOK, PagesMerged
<1>6. /\ fresh \in Job /\ fresh.pc = "fresh" /\ fresh.feed = feed /\ fresh.run = job[j].run
      /\ fresh.succeeded = job[j].succeeded /\ fresh.attempt = job[j].attempt
  <2>1. /\ f1 \in Job /\ f1.pc = "fresh" /\ f1.feed = feed /\ f1.run = job[j].run
        /\ f1.succeeded = job[j].succeeded /\ f1.attempt = job[j].attempt
    BY <1>1 DEF Job, Pcs
  <2> HIDE DEF f1
  <2> QED BY <1>3, <2>1 DEF Job
<1>7. /\ done \in Job /\ done.pc = "done" /\ done.feed = feed /\ done.run = job[j].run
      /\ done.succeeded = job[j].succeeded /\ done.attempt = job[j].attempt
  <2>1. /\ d1 \in Job /\ d1.pc = "done" /\ d1.feed = feed /\ d1.run = job[j].run
        /\ d1.succeeded = job[j].succeeded /\ d1.attempt = job[j].attempt
    BY <1>1 DEF Job, Pcs
  <2> HIDE DEF d1
  <2> QED BY <1>3, <2>1 DEF Job
<1>8. Len(left) > 1 =>
        /\ next \in Job /\ next.pc = "persist" /\ next.feed = feed /\ next.left = rest
        /\ next.succeeded = job[j].succeeded /\ rest # <<>>
        /\ next.run = job[j].run /\ next.attempt = job[j].attempt
  <2> SUFFICES ASSUME Len(left) > 1
               PROVE  /\ next \in Job /\ next.pc = "persist" /\ next.feed = feed
                      /\ next.left = rest /\ next.succeeded = job[j].succeeded /\ rest # <<>>
                      /\ next.run = job[j].run /\ next.attempt = job[j].attempt
    OBVIOUS
  <2>1. rest \in Seq(Possible) /\ rest # <<>>
    <3> HIDE DEF left
    <3> QED BY <1>3, MoreThanOne
  <2> HIDE DEF rest
  <2>2. n1 \in Job /\ n1.pc = "persist" /\ n1.feed = feed /\ n1.left = rest
        /\ n1.succeeded = job[j].succeeded /\ n1.run = job[j].run /\ n1.attempt = job[j].attempt
    BY <1>1, <2>1 DEF Job
  <2> HIDE DEF n1
  <2> QED BY <2>1, <2>2 DEF Job
<1>9. \/ feed.script = "reconcile" /\ new = fresh
      \/ feed.script # "reconcile" /\ Len(left) > 1 /\ new = next
      \/ feed.script # "reconcile" /\ new = done
  <2>1. /\ fresh = [job[j] EXCEPT !.pc = "fresh", !.left = <<>>]
        /\ next = [job[j] EXCEPT !.left = Tail(@), !.step = 1]
        /\ done = [job[j] EXCEPT !.pc = "done", !.left = <<>>]
    BY <1>1 DEF Job
  <2>2. feed.script \in {"ingest", "reconcile"}
    BY <1>4 DEF IngestFeeds, ReconcileFeeds
  <2> HIDE DEF fresh, next, done
  <2>3. CASE feed.script = "reconcile"
    BY <2>1, <2>3 DEF AfterCommit
  <2>4. CASE feed.script = "ingest" /\ Len(left) > 1
    BY <2>1, <2>4 DEF AfterCommit
  <2>5. CASE feed.script = "ingest" /\ ~(Len(left) > 1)
    BY <2>1, <2>5 DEF AfterCommit
  <2> QED BY <2>2, <2>3, <2>4, <2>5
<1> HIDE DEF fresh, next, done, new
<1>10. /\ new \in Job /\ job' \in [Jobs -> Job] /\ job'[j] = new
       /\ \A k \in Jobs \ {j} : job'[k] = job[k]
  <2>1. new \in Job
    BY <1>6, <1>7, <1>8, <1>9
  <2> QED BY <1>1, <2>1
<1>11. JobOK(j)'
  <2>1. CASE feed.script = "reconcile" /\ new = fresh
    <3>1. \E docs \in feed.versions : ReconcileRunId(FromDocs(docs)) \in store'.merges
      BY <1>2, <1>3, <1>4, <2>1
    <3>2. job[j].run \in store'.merges
      BY <1>2, <1>3, <1>4, <2>1
    <3> QED BY <1>4, <1>5, <1>6, <1>10, <2>1, <3>1, <3>2 DEF JobOK, PagesMerged
  <2>2. CASE feed.script # "reconcile" /\ Len(left) > 1 /\ new = next
    <3>1. /\ new.pc = "persist" /\ new.feed = feed /\ new.left # <<>>
          /\ new.succeeded = job[j].succeeded
          /\ new.run = job[j].run /\ new.attempt = job[j].attempt
      BY <1>8, <2>2
    <3> QED BY <1>4, <1>5, <1>10, <2>2, <3>1 DEF JobOK, PagesMerged
  <2>3. CASE feed.script # "reconcile" /\ new = done
    BY <1>4, <1>5, <1>7, <1>10, <2>3 DEF JobOK, PagesMerged
  <2> QED BY <1>9, <2>1, <2>2, <2>3
<1>12. store.merges \subseteq store'.merges
  BY <1>2
<1>13. \A k \in Jobs : JobOK(k)'
  BY <1>1, <1>10, <1>11, <1>12, OtherJobs
<1>14. RecordsAreTrue' /\ clock' \in Nat
  BY <1>1, <1>12, RecordsStay
<1> QED BY <1>2, <1>10, <1>13, <1>14 DEF CatalogInv

LEMMA LostCommitKeeps ==
  ASSUME CatalogInv, NEW j \in Jobs, LoseCommit(j)
  PROVE  CatalogInv'
<1>1. /\ InTransaction(j) /\ job[j].pc # "idle" /\ UNCHANGED <<freshness, runs, clock>>
      /\ job' = [job EXCEPT ![j] = AfterError(@)]
      /\ store' = Persist(store, Head(job[j].left))
  BY DEF LoseCommit, AtCommit, InTransaction
<1>2. StoreOK' /\ store.merges \subseteq store'.merges
  BY <1>1, Committed
<1>3. job' \in [Jobs -> Job] /\ \A k \in Jobs : JobOK(k)'
  <2>1. job[j] \in Job
    BY DEF CatalogInv
  <2> QED BY <1>1, <1>2, <2>1, ErrorIsCaught
<1>4. RecordsAreTrue' /\ clock' \in Nat
  BY <1>1, <1>2, RecordsStay DEF CatalogInv
<1> QED BY <1>2, <1>3, <1>4 DEF CatalogInv

\* The row of the source says succeeded of a merge run that was persisted.
LEMMA RecordFreshKeeps ==
  ASSUME CatalogInv, NEW j \in Jobs, RecordFresh(j)
  PROVE  CatalogInv'
<1> DEFINE s1  == [job[j] EXCEPT !.pc = "select"]
           new == [s1 EXCEPT !.succeeded = TRUE]
<1>1. /\ job[j].pc = "fresh" /\ UNCHANGED <<store, runs, clock>>
      /\ freshness' = [status |-> "succeeded", run |-> job[j].run]
      /\ job \in [Jobs -> Job] /\ job[j] \in Job /\ \A k \in Jobs : JobOK(k)
      /\ job' = [job EXCEPT ![j] = new]
      /\ RecordsAreTrue /\ StoreOK /\ clock' \in Nat
  BY DEF RecordFresh, CatalogInv
<1>2. /\ job[j].feed \in IngestFeeds \cup ReconcileFeeds /\ job[j].feed.script = "reconcile"
      /\ \E docs \in job[j].feed.versions : ReconcileRunId(FromDocs(docs)) \in store.merges
      /\ job[j].run \in store.merges /\ job[j].attempt # 0
  BY <1>1 DEF JobOK, PagesMerged
<1>3. /\ s1 \in Job /\ s1.pc = "select" /\ s1.feed = job[j].feed
      /\ s1.run = job[j].run /\ s1.attempt = job[j].attempt
  BY <1>1 DEF Job, Pcs
<1> HIDE DEF s1
<1>4. /\ new \in Job /\ new.pc = "select" /\ new.feed = job[j].feed
      /\ new.run = job[j].run /\ new.attempt = job[j].attempt
  BY <1>3 DEF Job
<1> HIDE DEF new
<1>5. /\ job' \in [Jobs -> Job] /\ job'[j] = new /\ \A k \in Jobs \ {j} : job'[k] = job[k]
  BY <1>1, <1>4
<1>6. JobOK(j)'
  BY <1>1, <1>2, <1>4, <1>5 DEF JobOK, PagesMerged
<1>7. \A k \in Jobs : JobOK(k)'
  BY <1>1, <1>5, <1>6, OtherJobs
<1>8. RecordsAreTrue'
  BY <1>1, <1>2 DEF RecordsAreTrue
<1>9. StoreOK'
  BY <1>1 DEF StoreOK, Present
<1> QED BY <1>1, <1>5, <1>7, <1>8, <1>9 DEF CatalogInv

LEMMA RecordNotFreshKeeps ==
  ASSUME CatalogInv, NEW j \in Jobs, RecordNotFresh(j)
  PROVE  CatalogInv'
<1> DEFINE s1  == [job[j] EXCEPT !.pc = "select"]
           new == [s1 EXCEPT !.last = TRUE]
<1>1. /\ job[j].pc = "not_fresh" /\ UNCHANGED <<store, runs, clock>>
      /\ freshness' = [status |-> "failed", run |-> job[j].run]
      /\ job \in [Jobs -> Job] /\ job[j] \in Job /\ \A k \in Jobs : JobOK(k)
      /\ job' = [job EXCEPT ![j] = new]
      /\ RecordsAreTrue /\ StoreOK /\ clock' \in Nat
  BY DEF RecordNotFresh, CatalogInv
<1>2. /\ s1 \in Job /\ s1.pc = "select" /\ s1.feed = job[j].feed
      /\ s1.succeeded = job[j].succeeded
      /\ s1.run = job[j].run /\ s1.attempt = job[j].attempt
  BY <1>1 DEF Job, Pcs
<1> HIDE DEF s1
<1>3. /\ new \in Job /\ new.pc = "select" /\ new.feed = job[j].feed
      /\ new.succeeded = job[j].succeeded
      /\ new.run = job[j].run /\ new.attempt = job[j].attempt
  BY <1>2 DEF Job
<1> HIDE DEF new
<1>4. /\ job' \in [Jobs -> Job] /\ job'[j] = new /\ \A k \in Jobs \ {j} : job'[k] = job[k]
  BY <1>1, <1>3
<1>5. job[j].feed.script = "reconcile" /\ job[j].pc # "idle" /\ JobOK(j) /\ job[j] \in Job
  BY <1>1 DEF JobOK
<1>6. JobOK(j)'
  BY <1>1, <1>3, <1>4, <1>5, GoesOn
<1>7. \A k \in Jobs : JobOK(k)'
  BY <1>1, <1>4, <1>6, OtherJobs
<1>8. RecordsAreTrue'
  BY <1>1 DEF RecordsAreTrue
<1>9. StoreOK'
  BY <1>1 DEF StoreOK, Present
<1> QED BY <1>1, <1>4, <1>7, <1>8, <1>9 DEF CatalogInv

LEMMA SelectKeeps ==
  ASSUME CatalogInv, NEW j \in Jobs, SelectRun(j)
  PROVE  CatalogInv'
<1>1. /\ job[j].pc = "select" /\ UNCHANGED <<store, freshness, runs, clock>>
      /\ job \in [Jobs -> Job] /\ job[j] \in Job /\ JobOK(j) /\ clock' \in Nat
  BY DEF SelectRun, CatalogInv
<1>2. ASSUME NEW pc \in {"insert", "done"}, Goes(j, pc) PROVE CatalogInv'
  <2> DEFINE new == [job[j] EXCEPT !.pc = pc]
  <2>1. job' = [job EXCEPT ![j] = new]
    BY <1>1, <1>2 DEF Goes
  <2>2. /\ new \in Job /\ new.pc = pc /\ new.feed = job[j].feed
        /\ new.succeeded = job[j].succeeded
        /\ new.run = job[j].run /\ new.attempt = job[j].attempt
    BY <1>1 DEF Job, Pcs
  <2> HIDE DEF new
  <2>3. job'[j] = new
    BY <1>1, <2>1
  <2>4. job[j].feed.script = "reconcile"
    BY <1>1 DEF JobOK
  <2>5. JobOK(j)'
    BY <1>1, <2>2, <2>3, <2>4, GoesOn
  <2> QED BY <1>1, <2>1, <2>2, <2>5, ScriptMoves
<1>3. ASSUME job' = [job EXCEPT ![j] = AfterError(@)] PROVE CatalogInv'
  BY <1>1, <1>3, ErrorKeeps
<1>4. \/ Goes(j, "insert") \/ Goes(j, "done") \/ job' = [job EXCEPT ![j] = AfterError(@)]
  <2> DEFINE feed == job[j].feed
             there == feed.runId \in DOMAIN runs
             same == runs[feed.runId].hash = feed
  <2>1. CASE ~there
    BY <2>1 DEF SelectRun
  <2>2. CASE there /\ same
    BY <2>2 DEF SelectRun
  <2>3. CASE there /\ ~same
    BY <2>3 DEF SelectRun
  <2> QED BY <2>1, <2>2, <2>3
<1> QED BY <1>2, <1>3, <1>4

\* A run that is recorded as one that succeeded has persisted its pages.
LEMMA InsertKeeps ==
  ASSUME CatalogInv, NEW j \in Jobs, InsertRun(j)
  PROVE  CatalogInv'
<1> DEFINE feed == job[j].feed
           row  == [hash |-> feed, run |-> job[j].run, attempts |-> job[j].attempt,
                    status |-> IF job[j].succeeded THEN "succeeded" ELSE "failed"]
<1>1. /\ job[j].pc = "insert" /\ UNCHANGED <<store, freshness, clock>>
      /\ job \in [Jobs -> Job] /\ job[j] \in Job /\ \A k \in Jobs : JobOK(k)
      /\ RecordsAreTrue /\ StoreOK /\ clock' \in Nat
  BY DEF InsertRun, CatalogInv
<1>2. CASE feed.runId \in DOMAIN runs
  <2>1. job' = [job EXCEPT ![j] = AfterError(@)] /\ UNCHANGED runs
    BY <1>2 DEF InsertRun
  <2> QED BY <1>1, <2>1, ErrorKeeps
<1>3. CASE feed.runId \notin DOMAIN runs
  <2> DEFINE new == [job[j] EXCEPT !.pc = "done"]
  <2>1. runs' = Put(runs, feed.runId, row) /\ job' = [job EXCEPT ![j] = new]
    BY <1>1, <1>3 DEF InsertRun, Goes
  <2>2. /\ new \in Job /\ new.pc = "done" /\ new.feed = job[j].feed
        /\ new.succeeded = job[j].succeeded
        /\ new.run = job[j].run /\ new.attempt = job[j].attempt
    BY <1>1 DEF Job, Pcs
  <2> HIDE DEF new
  <2>3. /\ job' \in [Jobs -> Job] /\ job'[j] = new /\ \A k \in Jobs \ {j} : job'[k] = job[k]
    BY <1>1, <2>1, <2>2
  <2>4. JobOK(j) /\ store.merges \subseteq store'.merges
    BY <1>1
  <2>5. JobOK(j)'
    BY <1>1, <2>2, <2>3, <2>4, GoesOn
  <2>6. \A k \in Jobs : JobOK(k)'
    BY <1>1, <2>3, <2>4, <2>5, OtherJobs
  <2>7. row.status = "succeeded" =>
          /\ \E docs \in row.hash.versions : ReconcileRunId(FromDocs(docs)) \in store.merges
          /\ row.attempts = 1 => row.run \in store.merges
    <3>1. job[j].succeeded => /\ PagesMerged(feed)
                              /\ job[j].attempt = 1 => job[j].run \in store.merges
      BY <1>1 DEF JobOK
    <3> QED BY <3>1 DEF PagesMerged
  <2> HIDE DEF row, feed
  <2>8. DOMAIN runs' = DOMAIN runs \cup {feed.runId} /\ runs'[feed.runId] = row
        /\ \A id \in DOMAIN runs : id # feed.runId => runs'[id] = runs[id]
    BY <2>1 DEF Put
  <2>9. RecordsAreTrue'
    BY <1>1, <2>7, <2>8 DEF RecordsAreTrue
  <2>10. StoreOK'
    BY <1>1 DEF StoreOK, Present
  <2> QED BY <1>1, <2>3, <2>6, <2>9, <2>10 DEF CatalogInv
<1> QED BY <1>2, <1>3

LEMMA KillKeeps ==
  ASSUME CatalogInv, NEW j \in Jobs, Kill(j)
  PROVE  CatalogInv'
<1> DEFINE s1  == [job[j] EXCEPT !.pc = "killed"]
           new == [s1 EXCEPT !.left = <<>>]
<1>1. /\ job[j].pc # "idle" /\ UNCHANGED <<store, freshness, runs, clock>>
      /\ job \in [Jobs -> Job] /\ job[j] \in Job /\ JobOK(j) /\ clock' \in Nat
      /\ job' = [job EXCEPT ![j] = new]
  BY DEF Kill, Calling, CatalogInv
<1>2. /\ s1 \in Job /\ s1.pc = "killed" /\ s1.feed = job[j].feed
      /\ s1.succeeded = job[j].succeeded
      /\ s1.run = job[j].run /\ s1.attempt = job[j].attempt
  BY <1>1 DEF Job, Pcs
<1> HIDE DEF s1
<1>3. /\ new \in Job /\ new.pc = "killed" /\ new.feed = job[j].feed
      /\ new.succeeded = job[j].succeeded
      /\ new.run = job[j].run /\ new.attempt = job[j].attempt
  <2>1. <<>> \in Seq(Possible)
    OBVIOUS
  <2> QED BY <1>2, <2>1 DEF Job
<1> HIDE DEF new
<1>4. job'[j] = new
  BY <1>1
<1>5. JobOK(j)'
  BY <1>1, <1>3, <1>4, GoesOn
<1> QED BY <1>1, <1>3, <1>5, ScriptMoves

LEMMA CatalogStep ==
  ASSUME CatalogInv, CatalogNext
  PROVE  CatalogInv'
<1>1. PICK j \in Jobs :
        \/ \E feed \in budget.feeds : StartIngest(j, feed) \/ StartReconcile(j, feed)
        \/ \E result \in IF job[j].pc = "attempt" THEN Fetches(job[j].feed) ELSE {} :
             Fetch(j, result)
        \/ FetchNothing(j)
        \/ TakeRow(j)
        \/ \E k \in Jobs : Deadlocked(j, k)
        \/ Commit(j)
        \/ RecordFresh(j)
        \/ RecordNotFresh(j)
        \/ SelectRun(j)
        \/ InsertRun(j)
        \/ Fail(j)
        \/ LoseCommit(j)
        \/ Kill(j)
  BY DEF CatalogNext
<1>2. ASSUME NEW feed, StartIngest(j, feed) PROVE CatalogInv'
  BY <1>2, IngestStarts
<1>3. ASSUME NEW feed, StartReconcile(j, feed) PROVE CatalogInv'
  BY <1>3, ReconcileStarts
<1>4. ASSUME NEW result, Fetch(j, result) PROVE CatalogInv'
  BY <1>4, FetchKeeps
<1>5. CASE FetchNothing(j)
  BY <1>5, FetchNothingKeeps
<1>6. CASE TakeRow(j)
  BY <1>6, TakeRowKeeps
<1>7. ASSUME NEW k, Deadlocked(j, k) PROVE CatalogInv'
  <2>1. /\ job[j].pc # "idle" /\ job' = [job EXCEPT ![j] = AfterError(@)]
        /\ UNCHANGED <<store, freshness, runs, clock>>
    BY <1>7 DEF Deadlocked, WaitsFor, InTransaction
  <2> QED BY <2>1, ErrorKeeps
<1>8. CASE Commit(j)
  BY <1>8, CommitKeeps
<1>9. CASE RecordFresh(j)
  BY <1>9, RecordFreshKeeps
<1>10. CASE RecordNotFresh(j)
  BY <1>10, RecordNotFreshKeeps
<1>11. CASE SelectRun(j)
  BY <1>11, SelectKeeps
<1>12. CASE InsertRun(j)
  BY <1>12, InsertKeeps
<1>13. CASE Fail(j)
  BY <1>13, ErrorKeeps DEF Fail, Calling
<1>14. CASE LoseCommit(j)
  BY <1>14, LostCommitKeeps
<1>15. CASE Kill(j)
  BY <1>15, KillKeeps
<1> QED
  BY <1>1, <1>2, <1>3, <1>4, <1>5, <1>6, <1>7, <1>8, <1>9, <1>10, <1>11, <1>12, <1>13, <1>14,
     <1>15

LEMMA CatalogUntouched == CatalogInv /\ UNCHANGED <<store, freshness, runs, job, clock>> => CatalogInv'
BY DEF CatalogInv, StoreOK, Present, JobOK, PagesMerged, RecordsAreTrue

\* A step of the sync leaves the catalog alone.
LEMMA SyncLeavesCatalog ==
  ASSUME SyncNext
  PROVE  UNCHANGED <<store, freshness, runs, job, clock>>
BY DEF SyncNext, StartSync, ResumeSync, RetrySync, SyncPackages, List, CompareHashes, WriteIndex,
       WriteState, SyncFails, catalogVars

LEMMA CatalogInvHolds == Spec => []CatalogInv
<1>1. Init => CatalogInv
  BY CatalogHoldsAtInit DEF Init
<1>2. CatalogInv /\ [Next]_vars => CatalogInv'
  <2> SUFFICES ASSUME CatalogInv, [Next]_vars PROVE CatalogInv'
    OBVIOUS
  <2>1. CASE SyncNext
    BY <2>1, SyncLeavesCatalog, CatalogUntouched
  <2>2. CASE CatalogNext
    BY <2>2, CatalogStep
  <2>3. CASE UNCHANGED vars
    BY <2>3, CatalogUntouched DEF vars
  <2> QED BY <2>1, <2>2, <2>3 DEF Next
<1> QED BY <1>1, <1>2, PTL DEF Spec

\* RecordsAreTrue holds of every behaviour: whatever fails, is lost or is killed between
\* the statements of the runner, and however its invocations overlap, a source marked
\* fresh and a run recorded as succeeded rest on a merge run of its pages that the
\* database has: if there was one attempt, the one that the row names.
THEOREM RecordsStayTrue == Spec => []RecordsAreTrue
<1>1. CatalogInv => RecordsAreTrue
  BY DEF CatalogInv
<1> QED BY <1>1, CatalogInvHolds, PTL

-------------------------------------------------------------------------------
(* Locks *)

\* The rows of a result: its aliases in their order, after rows of other tables.
LEMMA RowsFacts ==
  ASSUME NEW result \in Possible
  PROVE  \E n \in Nat :
           /\ Len(RowsOf(result)) = n + Len(result.aliases)
           /\ Len(result.aliases) \in Nat
           /\ \A i \in 1..n : RowsOf(result)[i][1] # "alias"
           /\ \A i \in 1..Len(result.aliases) :
                RowsOf(result)[n + i] = <<"alias", result.aliases[i]>>
<1> DEFINE keys  == {result.run, result.conflict, result.package.id, result.package.slug}
           other == {"merge_run", "conflict", "package", "slug"} \X keys
           S     == other \cup ({"alias"} \X Aliases)
           A     == [k \in DOMAIN result.aliases |-> <<"alias", result.aliases[k]>>]
           run   == Row("merge_run", result.run)
           found == Row("conflict", result.conflict)
           id    == Row("package", result.package.id)
           slug  == Row("slug", result.package.slug)
           item  == IF result.package = None THEN <<>> ELSE id \o slug
           H     == (run \o found) \o item
<1>1. RowsOf(result) = H \o A
  BY DEF RowsOf
<1>2. /\ run \in Seq(other) /\ found \in Seq(other) /\ id \in Seq(other) /\ slug \in Seq(other)
  <2>1. ASSUME NEW table \in {"merge_run", "conflict", "package", "slug"}, NEW key \in keys
        PROVE  Row(table, key) \in Seq(other)
    <3>1. <<table, key>> \in other
      OBVIOUS
    <3> HIDE DEF other
    <3> QED BY <3>1 DEF Row
  <2> QED BY <2>1
<1> HIDE DEF run, found, id, slug
<1>3. H \in Seq(other)
  <2> HIDE DEF other
  <2>1. item \in Seq(other) /\ run \o found \in Seq(other)
    BY <1>2, ConcatProperties
  <2> HIDE DEF item
  <2> QED BY <2>1, ConcatProperties
<1> HIDE DEF H
<1>4. /\ result.aliases \in Seq(Aliases) /\ Len(result.aliases) \in Nat
      /\ DOMAIN result.aliases = 1..Len(result.aliases)
  BY PossibleResults DEF IsResult
<1>5. A \in Seq(S) /\ Len(A) = Len(result.aliases)
  <2>1. A \in [1..Len(result.aliases) -> S]
    BY <1>4
  <2>2. A \in Seq(S)
    BY <1>4, <2>1, SeqDef
  <2>3. DOMAIN A = 1..Len(result.aliases)
    BY <1>4
  <2> HIDE DEF A, S
  <2> QED BY <1>4, <2>2, <2>3, LenProperties
<1>6. H \in Seq(S) /\ Len(H) \in Nat /\ \A i \in 1..Len(H) : H[i] \in other
  <2> DEFINE n == Len(H)
  <2>1. n \in Nat /\ H \in [1..n -> other]
    BY <1>3, LenProperties
  <2> HIDE DEF n
  <2>2. H \in [1..n -> S]
    BY <2>1
  <2> HIDE DEF S, other
  <2>3. H \in Seq(S)
    BY <2>1, <2>2, SeqDef
  <2> QED BY <2>1, <2>3 DEF n
<1>7. /\ Len(H \o A) = Len(H) + Len(A)
      /\ \A i \in 1..(Len(H) + Len(A)) : (H \o A)[i] = IF i <= Len(H) THEN H[i] ELSE A[i - Len(H)]
  <2> HIDE DEF S, A
  <2>1. H \in Seq(S) /\ A \in Seq(S)
    BY <1>5, <1>6
  <2> QED BY <2>1, ConcatProperties, Zenon
<1> DEFINE n == Len(H)
           m == Len(result.aliases)
<1>8. n \in Nat /\ m \in Nat
  BY <1>4, <1>6
<1>9. ASSUME NEW i \in 1..n PROVE RowsOf(result)[i][1] # "alias"
  <2>1. i \in 1..(n + m) /\ i <= n
    BY <1>8
  <2>2. RowsOf(result)[i] = H[i]
    BY <1>1, <1>5, <1>7, <2>1
  <2>3. H[i] \in other
    BY <1>6
  <2> QED BY <2>2, <2>3
<1>10. ASSUME NEW i \in 1..m PROVE RowsOf(result)[n + i] = <<"alias", result.aliases[i]>>
  <2>1. n + i \in 1..(n + m) /\ ~(n + i <= n) /\ (n + i) - n = i
    BY <1>8
  <2> HIDE DEF n, m
  <2>2. RowsOf(result)[n + i] = A[i]
    BY <1>1, <1>5, <1>7, <2>1 DEF n, m
  <2> QED BY <1>4, <2>2 DEF m
<1>11. Len(RowsOf(result)) = n + m
  BY <1>1, <1>5, <1>7
<1> HIDE DEF n, m
<1>12. n \in Nat /\ m \in Nat /\ Len(result.aliases) = m
  BY <1>8 DEF m
<1> QED BY <1>9, <1>10, <1>11, <1>12

\* After an alias, a transaction writes aliases that come after it.
LEMMA AliasesAscend ==
  ASSUME NEW result \in Possible, NEW i \in Nat, NEW k \in Nat, 1 <= i, i < k,
         k <= Len(RowsOf(result)), RowsOf(result)[i][1] = "alias"
  PROVE  \E a, b \in Aliases : /\ RowsOf(result)[i] = <<"alias", a>>
                               /\ RowsOf(result)[k] = <<"alias", b>>
                               /\ KeyLess(AliasKey(a), AliasKey(b))
<1> DEFINE rows == RowsOf(result)
           aliases == result.aliases
<1>1. PICK n \in Nat :
        /\ Len(rows) = n + Len(aliases) /\ Len(aliases) \in Nat
        /\ \A x \in 1..n : rows[x][1] # "alias"
        /\ \A x \in 1..Len(aliases) : rows[n + x] = <<"alias", aliases[x]>>
  BY RowsFacts
<1>2. aliases \in Seq(Aliases) /\ InOrder(aliases) /\ DOMAIN aliases = 1..Len(aliases)
  BY PossibleResults DEF IsResult
<1>3. k <= Len(rows) /\ rows[i][1] = "alias"
  OBVIOUS
<1> HIDE DEF rows, aliases
<1>4. i \notin 1..n
  BY <1>1, <1>3
<1> DEFINE x == i - n
           y == k - n
<1>5. x \in 1..Len(aliases) /\ y \in 1..Len(aliases) /\ x < y /\ n + x = i /\ n + y = k
  BY <1>1, <1>3, <1>4
<1> HIDE DEF x, y
<1>6. rows[i] = <<"alias", aliases[x]>> /\ rows[k] = <<"alias", aliases[y]>>
  BY <1>1, <1>5
<1>7. KeyLess(AliasKey(aliases[x]), AliasKey(aliases[y]))
  BY <1>2, <1>5 DEF InOrder
<1>8. aliases[x] \in Aliases /\ aliases[y] \in Aliases
  BY <1>2, <1>5
<1> QED BY <1>6, <1>7, <1>8 DEF rows

\* Two transactions that wait for each other, one for an alias, would each hold an alias
\* that comes before the one they wait for.
LEMMA NoCycleOfAliases == CatalogInv => AliasesNeverDeadlock
<1> SUFFICES ASSUME CatalogInv, NEW j \in Jobs, NEW k \in Jobs, WaitsFor(j, k), WaitsFor(k, j),
                    Rows(j)[job[j].step][1] = "alias"
             PROVE  FALSE
  BY DEF AliasesNeverDeadlock
<1>1. ASSUME NEW a \in Jobs, InTransaction(a)
      PROVE  /\ Rows(a) = RowsOf(Head(job[a].left)) /\ Head(job[a].left) \in Possible
             /\ job[a].step \in Nat \ {0}
             /\ Held(a) = {Rows(a)[i] : i \in 1..(job[a].step - 1)}
  <2>1. job[a].step \in Nat \ {0}
    BY JobRecord DEF CatalogInv
  <2> QED BY <1>1, <2>1, Committed DEF Rows, Held
<1>2. ASSUME NEW a \in Jobs, NEW b \in Jobs, WaitsFor(a, b), InTransaction(b), WaitsFor(b, a),
             Rows(a)[job[a].step][1] = "alias"
      PROVE  \E p, q \in Aliases : /\ Rows(a)[job[a].step] = <<"alias", p>>
                                   /\ Rows(b)[job[b].step] = <<"alias", q>>
                                   /\ KeyLess(AliasKey(p), AliasKey(q))
  <2> DEFINE row == Rows(a)[job[a].step]
  <2>1. row \in Held(b)
    <3>1. ~(row[1] = "slug")
      BY <1>2
    <3> QED BY <1>2, <3>1 DEF WaitsFor
  <2>2. PICK i \in 1..(job[b].step - 1) : row = Rows(b)[i]
    BY <1>1, <1>2, <2>1
  <2>3. job[b].step <= Len(Rows(b))
    BY <1>2 DEF WaitsFor
  <2> DEFINE n == job[b].step
  <2>4. n \in Nat /\ i \in Nat /\ 1 <= i /\ i < n
    BY <1>1, <1>2, <2>2
  <2>5. Rows(b)[i][1] = "alias"
    BY <1>2, <2>2
  <2>6. Rows(b) = RowsOf(Head(job[b].left)) /\ Head(job[b].left) \in Possible
    BY <1>1, <1>2
  <2>7. n <= Len(RowsOf(Head(job[b].left))) /\ RowsOf(Head(job[b].left))[i][1] = "alias"
    BY <2>3, <2>5, <2>6
  <2> HIDE DEF n, row
  <2>8. PICK p, q \in Aliases : /\ RowsOf(Head(job[b].left))[i] = <<"alias", p>>
                                /\ RowsOf(Head(job[b].left))[n] = <<"alias", q>>
                                /\ KeyLess(AliasKey(p), AliasKey(q))
    BY <2>4, <2>6, <2>7, AliasesAscend
  <2> QED BY <2>2, <2>6, <2>8 DEF n, row
<1>3. InTransaction(j) /\ InTransaction(k)
  BY DEF WaitsFor
<1>4. PICK p, q \in Aliases : /\ Rows(j)[job[j].step] = <<"alias", p>>
                              /\ Rows(k)[job[k].step] = <<"alias", q>>
                              /\ KeyLess(AliasKey(p), AliasKey(q))
  BY <1>2, <1>3
<1>5. Rows(k)[job[k].step][1] = "alias"
  BY <1>4
<1>6. PICK r, s \in Aliases : /\ Rows(k)[job[k].step] = <<"alias", r>>
                              /\ Rows(j)[job[j].step] = <<"alias", s>>
                              /\ KeyLess(AliasKey(r), AliasKey(s))
  BY <1>2, <1>3, <1>5
<1>7. r = q /\ s = p
  BY <1>4, <1>6
<1>8. AliasKey(p) \in [1..2 -> Int] /\ AliasKey(q) \in [1..2 -> Int]
  BY AliasKeys
<1> QED BY <1>4, <1>6, <1>7, <1>8, KeysAreOrdered

\* AliasesNeverDeadlock holds of every behaviour: of two transactions that wait for each
\* other, whatever batches they persist, neither waits for an alias.
THEOREM AliasesStayInOrder == Spec => []AliasesNeverDeadlock
BY NoCycleOfAliases, CatalogInvHolds, PTL

-------------------------------------------------------------------------------
(* The batches of the sync *)

LEMMA RankFacts ==
  ASSUME NEW p \in PackageIds
  PROVE  Rank(p) \in Nat /\ Rank(p) >= 1 /\ Rank(p) \in DOMAIN IdOrder /\ IdOrder[Rank(p)] = p
<1>1. \E k \in DOMAIN IdOrder : IdOrder[k] = p
  BY IdOrderAssumption
<1>2. p \in Range(IdOrder)
  BY <1>1 DEF Range
<1>3. Rank(p) = CHOOSE k \in DOMAIN IdOrder : IdOrder[k] = p
  BY <1>2 DEF Rank, Place
<1>4. Rank(p) \in DOMAIN IdOrder /\ IdOrder[Rank(p)] = p
  BY <1>1, <1>3
<1>5. DOMAIN IdOrder = 1..Len(IdOrder) /\ Len(IdOrder) \in Nat
  BY IdOrderAssumption
<1> QED BY <1>4, <1>5

LEMMA PackageIdsAreFinite == IsFiniteSet(PackageIds)
<1> DEFINE n == Len(IdOrder)
<1>1. n \in Nat /\ IdOrder \in [1..n -> PackageIds] /\ DOMAIN IdOrder = 1..n
  BY IdOrderAssumption
<1> HIDE DEF n
<1>2. IsFiniteSet(1..n)
  BY <1>1, FS_Interval
<1>3. IdOrder \in Surjection(1..n, PackageIds)
  BY <1>1, IdOrderAssumption DEF Surjection
<1> QED BY <1>2, <1>3, FS_Surjection

\* A batch lists packages that are there, each once; without names it leaves out none
\* that its last one does not come before.
LEMMA BatchFacts ==
  ASSUME StoreOK, NEW ids, NEW after \in Nat
  PROVE  \E m \in Nat :
           /\ m <= Limit /\ Len(Batch(ids, after)) = m /\ DOMAIN Batch(ids, after) = 1..m
           /\ \A k \in 1..m : Batch(ids, after)[k] \in Present
           /\ \A i, k \in 1..m : Batch(ids, after)[i] = Batch(ids, after)[k] => i = k
           /\ ids = {} =>
                \A p \in Present : Rank(p) > after =>
                  \/ \E k \in 1..m : Batch(ids, after)[k] = p
                  \/ m = Limit /\ Rank(Batch(ids, after)[Limit]) < Rank(p)
<1> DEFINE wanted == IF ids # {} THEN ids \cap Present ELSE {p \in Present : Rank(p) > after}
           less   == {pair \in wanted \X wanted : Rank(pair[1]) < Rank(pair[2])}
           order  == Arranged(wanted, less)
           n      == Cardinality(wanted)
           m      == IF n < Limit THEN n ELSE Limit
           batch  == Batch(ids, after)
<1>1. wanted \subseteq Present /\ wanted \subseteq PackageIds
  BY DEF StoreOK
<1>2. ids = {} => \A p \in Present : Rank(p) > after => p \in wanted
  OBVIOUS
<1>3. batch = SubSeq(order, 1, IF Len(order) < Limit THEN Len(order) ELSE Limit)
  BY DEF Batch, InListOrder
<1> HIDE DEF wanted, batch
<1>4. IsFiniteSet(wanted)
  BY <1>1, PackageIdsAreFinite, FS_Subset
<1>5. IsOrder(less, wanted)
  <2>1. \A p \in wanted : Rank(p) \in Nat /\ IdOrder[Rank(p)] = p
    BY <1>1, RankFacts
  <2>2. \A p, q \in wanted : p = q \/ Rank(p) < Rank(q) \/ Rank(q) < Rank(p)
    BY <2>1
  <2>3. less \subseteq wanted \X wanted
    OBVIOUS
  <2>4. \A p \in wanted : <<p, p>> \notin less
    BY <2>1
  <2>5. \A p, q, r \in wanted : <<p, q>> \in less /\ <<q, r>> \in less => <<p, r>> \in less
    BY <2>1
  <2>6. \A p, q \in wanted : p = q \/ <<p, q>> \in less \/ <<q, p>> \in less
    BY <2>2
  <2> QED BY <2>3, <2>4, <2>5, <2>6 DEF IsOrder
<1> HIDE DEF less
<1>6. /\ n \in Nat /\ order \in [1..n -> wanted]
      /\ \A p \in wanted : \E k \in 1..n : order[k] = p
      /\ \A i, k \in 1..n : i < k => <<order[i], order[k]>> \in less
  BY <1>4, <1>5, ArrangedFacts
<1>7. \A i, k \in 1..n : order[i] = order[k] => i = k
  BY <1>4, <1>5, ArrangedOnce
<1> HIDE DEF order, n
<1>8. order \in Seq(wanted) /\ DOMAIN order = 1..n
  BY <1>6, SeqDef
<1>9. Len(order) = n
  BY <1>6, <1>8, LenProperties
<1>10. m \in Nat /\ m <= n /\ m <= Limit /\ (m = n \/ m = Limit) /\ Limit \in Nat /\ Limit >= 1
  BY <1>6, LimitAssumption
<1>11. batch = SubSeq(order, 1, m)
  BY <1>3, <1>9
<1> HIDE DEF m
<1>12. \A i \in 1..m : i \in 1..n /\ order[i] \in wanted
  BY <1>6, <1>10
<1>13. batch \in Seq(wanted) /\ Len(batch) = m /\ \A i \in 1..m : batch[i] = order[i]
  <2>1. 1 \in Int /\ m \in Int /\ m - 1 + 1 = m /\ \A i \in 1..m : 1 + i - 1 = i
    BY <1>10
  <2>2. /\ batch \in Seq(wanted) /\ Len(batch) = IF 1 <= m THEN m - 1 + 1 ELSE 0
        /\ \A i \in 1..(m - 1 + 1) : batch[i] = order[1 + i - 1]
    BY <1>11, <1>12, <2>1, SubSeqProperties
  <2> QED BY <1>10, <2>1, <2>2
<1>14. DOMAIN batch = 1..m
  BY <1>13, LenProperties
<1>15. \A k \in 1..m : batch[k] \in Present
  BY <1>1, <1>12, <1>13
<1>16. \A i, k \in 1..m : batch[i] = batch[k] => i = k
  BY <1>7, <1>12, <1>13
<1>17. ASSUME NEW p \in wanted
       PROVE  \/ \E k \in 1..m : batch[k] = p
              \/ m = Limit /\ Rank(batch[Limit]) < Rank(p)
  <2>1. PICK k \in 1..n : order[k] = p
    BY <1>6
  <2>2. CASE k <= m
    <3>1. k \in 1..m
      BY <1>6, <2>1, <2>2
    <3> QED BY <1>13, <2>1, <3>1
  <2>3. CASE m < k
    <3>1. m = Limit /\ Limit \in 1..m /\ Limit \in 1..n /\ Limit < k
      BY <1>6, <1>10, <2>3
    <3>2. <<order[Limit], p>> \in less
      BY <1>6, <2>1, <3>1
    <3>3. Rank(order[Limit]) < Rank(p)
      BY <3>2 DEF less
    <3> QED BY <1>13, <3>1, <3>3
  <2> QED BY <1>6, <1>10, <2>1, <2>2, <2>3
<1>18. ids = {} => \A p \in Present : Rank(p) > after =>
                     \/ \E k \in 1..m : batch[k] = p
                     \/ m = Limit /\ Rank(batch[Limit]) < Rank(p)
  BY <1>2, <1>17
<1> QED BY <1>10, <1>13, <1>14, <1>15, <1>16, <1>18 DEF batch

-------------------------------------------------------------------------------
(* Documents *)

\* A package's document, as of any state of the tables.
NameIn(tables, id) ==
  LET names == {l \in tables.lineage : l.id = id}
  IN  IF names = {} THEN tables.packages[id].slug
      ELSE (CHOOSE l \in names : \A m \in names : m.at <= l.at).name

AliasesIn(tables, id) == {row[2] : row \in {r \in DOMAIN tables.aliases : tables.aliases[r] = id}}

DocumentIn(tables, id) ==
  [id |-> id, slug |-> tables.packages[id].slug, repo |-> tables.packages[id].repo,
   at |-> tables.packages[id].at, name |-> NameIn(tables, id), aliases |-> AliasesIn(tables, id)]

LEMMA DocumentsAre == \A id : Document(id) = DocumentIn(store, id)
BY DEF Document, DocumentIn, Name, NameIn, AliasesIn

\* The package has changed since it was this document, or its dates no longer tell: a
\* package that got no new date can only have lost aliases to others.
Stale(tables, doc) ==
  \/ doc.id \in tables.redated
  \/ /\ <<doc.id, doc.at>> \in tables.dates
     /\ doc.at = tables.packages[doc.id].at =>
          /\ AliasesIn(tables, doc.id) \subseteq doc.aliases
          /\ AliasesIn(tables, doc.id) # doc.aliases

\* The package is, or once was, this document.
Former(tables, doc) ==
  doc.id \in DOMAIN tables.packages /\ (doc = DocumentIn(tables, doc.id) \/ Stale(tables, doc))

\* A document that is up to date is not stale.
LEMMA FreshOrStale ==
  ASSUME NEW tables, NEW id, id \notin tables.redated
  PROVE  ~Stale(tables, DocumentIn(tables, id))
BY DEF Stale, DocumentIn

LEMMA DocumentFields ==
  ASSUME NEW tables, NEW id
  PROVE  /\ DocumentIn(tables, id).id = id
         /\ DocumentIn(tables, id).at = tables.packages[id].at
         /\ DocumentIn(tables, id).aliases = AliasesIn(tables, id)
BY DEF DocumentIn

\* What the catalog's writers do to documents: a stale one never comes back.
StoreGrows ==
  /\ Present \subseteq Present'
  /\ store.redated \subseteq store'.redated
  /\ \A doc : Former(store, doc) =>
       Former(store', doc) /\ (Stale(store, doc) => Stale(store', doc))

LEMMA PersistGrows ==
  ASSUME StoreOK, NEW result \in Possible, store' = Persist(store, result)
  PROVE  StoreGrows
<1>1. CASE result.package = None
  <2>1. /\ store'.packages = store.packages /\ store'.aliases = store.aliases
        /\ store'.lineage = store.lineage /\ store'.dates = store.dates
        /\ store'.redated = store.redated
    BY <1>1, PersistFacts
  <2>2. \A id : DocumentIn(store', id) = DocumentIn(store, id)
    BY <2>1 DEF DocumentIn, NameIn, AliasesIn
  <2>3. \A doc : Stale(store', doc) <=> Stale(store, doc)
    BY <2>1 DEF Stale, AliasesIn
  <2> QED BY <2>1, <2>2, <2>3 DEF StoreGrows, Present, Former
<1>2. CASE result.package # None
  <2> DEFINE p    == result.package.id
             row  == [slug |-> result.package.slug, repo |-> result.package.repo,
                      at |-> result.at]
             rows == Range(result.aliases)
  <2>1. /\ store'.packages = Put(store.packages, p, row)
        /\ store'.aliases = [r \in DOMAIN store.aliases \cup rows |->
                               IF r \in rows THEN p ELSE store.aliases[r]]
        /\ \A l : l.id # p => (l \in store'.lineage <=> l \in store.lineage)
        /\ store'.dates = store.dates \cup {<<p, result.at>>}
        /\ store'.redated = IF <<p, result.at>> \in store.dates
                              THEN store.redated \cup {p} ELSE store.redated
    BY <1>2, PersistFacts
  <2>2. row.at = result.at
    OBVIOUS
  <2> HIDE DEF p, row, rows
  <2>3. /\ DOMAIN store'.packages = DOMAIN store.packages \cup {p} /\ store'.packages[p] = row
        /\ \A id \in DOMAIN store.packages : id # p => store'.packages[id] = store.packages[id]
    BY <2>1 DEF Put
  <2>4. ASSUME NEW id \in DOMAIN store.packages
        PROVE  <<id, store.packages[id].at>> \in store.dates
    BY DEF StoreOK, Present
  <2>5. store.redated \subseteq store'.redated /\ store.dates \subseteq store'.dates
    BY <2>1
  <2>6. ASSUME NEW doc, Former(store, doc)
        PROVE  Former(store', doc) /\ (Stale(store, doc) => Stale(store', doc))
    <3> DEFINE id == doc.id
    <3>1. id \in DOMAIN store.packages /\ id \in DOMAIN store'.packages
      BY <2>3, <2>6 DEF Former
    <3>2. doc = DocumentIn(store, id) =>
            doc.at = store.packages[id].at /\ doc.aliases = AliasesIn(store, id)
      BY DocumentFields
    <3> HIDE DEF id
    <3>3. <<id, doc.at>> \in store.dates \/ id \in store.redated
      BY <2>4, <2>6, <3>1, <3>2 DEF Former, Stale, id
    <3>4. CASE id = p
      <4>1. CASE id \in store'.redated
        BY <3>1, <4>1 DEF Former, Stale, id
      <4>2. CASE id \notin store'.redated
        <5>1. <<p, result.at>> \notin store.dates /\ id \notin store.redated
          BY <2>1, <2>5, <3>4, <4>2
        <5>2. doc.at # result.at /\ <<id, doc.at>> \in store'.dates
          BY <2>5, <3>3, <3>4, <5>1
        <5>3. store'.packages[id].at = result.at
          BY <2>2, <2>3, <3>4
        <5>4. Stale(store', doc)
          BY <5>2, <5>3 DEF Stale, id
        <5> QED BY <3>1, <5>4 DEF Former, id
      <4> QED BY <4>1, <4>2
    <3>5. CASE id # p
      <4>1. store'.packages[id] = store.packages[id]
        BY <2>3, <3>1, <3>5
      <4>2. NameIn(store', id) = NameIn(store, id)
        <5> DEFINE was == {l \in store.lineage : l.id = id}
                   now == {l \in store'.lineage : l.id = id}
                   Last(names) == (CHOOSE l \in names : \A m \in names : m.at <= l.at).name
        <5>1. now = was
          BY <2>1, <3>5
        <5>2. /\ NameIn(store, id) = IF was = {} THEN store.packages[id].slug ELSE Last(was)
              /\ NameIn(store', id) = IF now = {} THEN store'.packages[id].slug ELSE Last(now)
          BY DEF NameIn
        <5> HIDE DEF was, now, Last
        <5> QED BY <4>1, <5>1, <5>2
      <4>3. AliasesIn(store', id) \subseteq AliasesIn(store, id)
        <5>1. ASSUME NEW r \in DOMAIN store'.aliases, store'.aliases[r] = id
              PROVE  r \in DOMAIN store.aliases /\ store.aliases[r] = id
          BY <2>1, <3>5, <5>1
        <5> QED BY <5>1 DEF AliasesIn
      <4>4. ASSUME Stale(store, doc) PROVE Stale(store', doc)
        BY <2>5, <4>1, <4>3, <4>4 DEF Stale, id
      <4>5. ASSUME doc = DocumentIn(store, id), ~Stale(store', doc)
            PROVE  doc = DocumentIn(store', id)
        <5>1. doc.at = store'.packages[id].at /\ doc.aliases = AliasesIn(store, id)
          BY <3>2, <4>1, <4>5
        <5>2. <<id, doc.at>> \in store'.dates
          BY <2>4, <2>5, <3>1, <4>1, <5>1
        <5>3. AliasesIn(store', id) = AliasesIn(store, id)
          BY <4>3, <4>5, <5>1, <5>2 DEF Stale, id
        <5> QED BY <4>1, <4>2, <4>5, <5>3 DEF DocumentIn
      <4> QED BY <2>6, <3>1, <4>4, <4>5 DEF Former, id
    <3> QED BY <3>4, <3>5
  <2> QED BY <2>3, <2>5, <2>6 DEF StoreGrows, Present
<1> QED BY <1>1, <1>2

LEMMA CatalogGrows ==
  ASSUME CatalogInv, CatalogNext
  PROVE  StoreGrows
<1>1. ASSUME NEW j \in Jobs, InTransaction(j), store' = Persist(store, Head(job[j].left))
      PROVE  StoreGrows
  <2>1. Head(job[j].left) \in Possible
    BY <1>1, Committed
  <2> QED BY <1>1, <2>1, PersistGrows DEF CatalogInv
<1>2. ASSUME store' = store PROVE StoreGrows
  BY <1>2 DEF StoreGrows, Present
<1>3. store' = store \/ \E j \in Jobs : InTransaction(j) /\ store' = Persist(store, Head(job[j].left))
  BY DEF CatalogNext, StartIngest, StartReconcile, Fetch, FetchNothing, TakeRow, Deadlocked, Commit,
         RecordFresh, RecordNotFresh, SelectRun, InsertRun, Fail, LoseCommit, Kill, AtCommit
<1> QED BY <1>1, <1>2, <1>3

-------------------------------------------------------------------------------
(* The invariant of the sync *)

RunOf(pc, ids, after, next, docs, left, from, seen) ==
  [pc |-> pc, ids |-> ids, after |-> after, next |-> next, docs |-> docs, left |-> left,
   from |-> from, seen |-> seen]

IsRun(run) ==
  run = RunOf(run.pc, run.ids, run.after, run.next, run.docs, run.left, run.from, run.seen)

\* Every fingerprint is of what its package is or once was, and the package is in the
\* index; without overlaps it is of the document in the index, unless that is stale.
HashesOK ==
  \A id \in DOMAIN hashes :
    /\ hashes[id].id = id /\ Former(store, hashes[id]) /\ id \in DOMAIN index
    /\ apart => hashes[id] = index[id] \/ Stale(store, hashes[id])

\* What a run has listed, and how much of it the index holds.
SyncOK(s) ==
  LET pc == sync[s].pc  docs == sync[s].docs  left == sync[s].left
  IN /\ IsRun(sync[s])
     /\ \A k \in DOMAIN docs : Former(store, docs[k])
     /\ \A i, k \in DOMAIN docs : docs[i].id = docs[k].id => i = k
     /\ left \subseteq DOMAIN docs
     /\ pc = "done" => \A k \in DOMAIN docs : docs[k].id \in DOMAIN index
     /\ pc = "changed" => \A k \in DOMAIN docs \ left : docs[k].id \in DOMAIN index
     /\ pc = "indexed" => \A k \in DOMAIN docs : docs[k].id \in DOMAIN index
     /\ apart /\ UnderWay(s) => s = latest

Written(tables, at, doc) ==
  doc.id \notin tables.redated => doc.id \in DOMAIN at /\ at[doc.id] = doc

Behind(tables, kept, doc) == doc.id \in DOMAIN kept => Stale(tables, kept[doc.id])

\* A document that is listed is skipped only if the index has it.
Known(tables, at, kept, doc) ==
  doc.id \notin tables.redated /\ doc.id \in DOMAIN kept =>
    \/ kept[doc.id] = doc /\ at[doc.id] = doc
    \/ kept[doc.id] # doc /\ Stale(tables, kept[doc.id])

\* While no two runs overlap, what the latest has done so far.
LatestOK(s) ==
  LET pc == sync[s].pc  docs == sync[s].docs  left == sync[s].left
  IN apart /\ s = latest =>
       /\ pc = "listed" => \A k \in DOMAIN docs : Known(store, index, hashes, docs[k])
       /\ pc \in {"changed", "indexed"} =>
            /\ \A k \in DOMAIN docs \ left : Written(store, index, docs[k])
            /\ \A k \in left : Behind(store, hashes, docs[k])
       /\ pc = "indexed" => \A k \in left : Written(store, index, docs[k])
       /\ pc = "done" => \A k \in DOMAIN docs : Written(store, index, docs[k])

\* Of the packages that were there when a chain of runs began: those up to where a run
\* went on are done with, the others are its own or left to the runs after it.
ChainOK(s) ==
  LET run == sync[s]
      Listed(p) == \E k \in DOMAIN run.docs : run.docs[k].id = p
  IN /\ run.after \in Nat /\ run.next \in Nat \cup {None}
     /\ run.next # None => run.ids = {}
     /\ run.ids = {} =>
          /\ run.from \subseteq Present
          /\ \A k \in DOMAIN run.docs : run.docs[k].id \in run.seen
          /\ \A p \in run.from : Rank(p) <= run.after => p \in run.seen /\ p \in DOMAIN index
          /\ \A p \in run.from : Rank(p) > run.after =>
               Listed(p) \/ (run.next # None /\ Rank(p) > run.next)

SyncInv ==
  /\ DOMAIN sync = Syncs
  /\ HashesOK
  /\ \A s \in Syncs : SyncOK(s) /\ LatestOK(s) /\ ChainOK(s)

LEMMA SyncHoldsAtInit == Init => SyncInv
<1> SUFFICES ASSUME Init PROVE SyncInv
  OBVIOUS
<1>1. DOMAIN sync = Syncs /\ \A s \in Syncs : sync[s] = NoSync
  BY DEF Init, SyncInit
<1>2. NoSync = RunOf("idle", {}, 0, None, <<>>, {}, {}, {})
  BY DEF NoSync, RunOf
<1>3. /\ NoSync.pc = "idle" /\ NoSync.ids = {} /\ NoSync.after = 0 /\ NoSync.next = None
      /\ NoSync.docs = <<>> /\ NoSync.left = {} /\ NoSync.from = {} /\ NoSync.seen = {}
  BY DEF NoSync
<1>4. DOMAIN <<>> = {}
  OBVIOUS
<1>5. HashesOK
  BY DEF Init, SyncInit, HashesOK
<1>6. ASSUME NEW s \in Syncs PROVE SyncOK(s) /\ LatestOK(s) /\ ChainOK(s)
  <2>1. sync[s] = NoSync
    BY <1>1
  <2>2. IsRun(sync[s])
    BY <1>2, <1>3, <2>1 DEF IsRun
  <2>3. SyncOK(s)
    BY <1>3, <1>4, <2>1, <2>2 DEF SyncOK, UnderWay
  <2>4. LatestOK(s)
    BY <1>3, <2>1 DEF LatestOK
  <2>5. ChainOK(s)
    BY <1>3, <1>4, <2>1 DEF ChainOK
  <2> QED BY <2>3, <2>4, <2>5
<1> QED BY <1>1, <1>5, <1>6 DEF SyncInv

\* The catalog's writers.
LEMMA SyncOutlivesWriters ==
  ASSUME SyncInv, StoreGrows, UNCHANGED syncVars
  PROVE  SyncInv'
<1>1. /\ index' = index /\ hashes' = hashes /\ sync' = sync /\ latest' = latest /\ apart' = apart
      /\ Present \subseteq Present' /\ store.redated \subseteq store'.redated
      /\ \A doc : Former(store, doc) =>
           Former(store', doc) /\ (Stale(store, doc) => Stale(store', doc))
  BY DEF syncVars, StoreGrows
<1>2. /\ DOMAIN sync = Syncs /\ HashesOK
      /\ \A s \in Syncs : SyncOK(s) /\ LatestOK(s) /\ ChainOK(s)
  BY DEF SyncInv
<1>3. HashesOK'
  BY <1>1, <1>2 DEF HashesOK
<1>4. ASSUME NEW id \in DOMAIN hashes PROVE Stale(store, hashes[id]) => Stale(store', hashes[id])
  BY <1>1, <1>2 DEF HashesOK
<1>5. ASSUME NEW s \in Syncs PROVE SyncOK(s)'
  <2>1. SyncOK(s)
    BY <1>2
  <2> QED BY <1>1, <2>1 DEF SyncOK, UnderWay
<1>6. ASSUME NEW s \in Syncs PROVE LatestOK(s)'
  <2>1. LatestOK(s)
    BY <1>2
  <2>2. \A doc : Written(store, index, doc) => Written(store', index', doc)
    BY <1>1 DEF Written
  <2>3. \A doc : Behind(store, hashes, doc) => Behind(store', hashes', doc)
    BY <1>1, <1>4 DEF Behind
  <2>4. \A doc : Known(store, index, hashes, doc) => Known(store', index', hashes', doc)
    BY <1>1, <1>4 DEF Known
  <2> QED BY <1>1, <2>1, <2>2, <2>3, <2>4 DEF LatestOK
<1>7. ASSUME NEW s \in Syncs PROVE ChainOK(s)'
  <2>1. ChainOK(s)
    BY <1>2
  <2> QED BY <1>1, <2>1 DEF ChainOK
<1> QED BY <1>1, <1>2, <1>3, <1>5, <1>6, <1>7 DEF SyncInv

\* A run lists a batch.  What it goes on from (state) has to have done with the packages
\* up to its cursor.
LEMMA ListKeeps ==
  ASSUME CatalogInv, SyncInv, NEW s \in Syncs, NEW ids, NEW state, List(s, ids, state),
         state.next \in Nat \cup {None},
         ids = {} /\ state.next # None =>
           /\ state.from \subseteq Present
           /\ \A p \in state.from : Rank(p) <= state.next => p \in state.seen /\ p \in DOMAIN index
  PROVE  SyncInv'
<1> DEFINE after == Given(state.next, 0)
           batch == Batch(ids, after)
           docs  == [k \in DOMAIN batch |-> Document(batch[k])]
           next  == NextCursor(ids, batch)
           from  == IF state.next = None THEN Present ELSE state.from
           seen  == state.seen \cup Range(batch)
           new   == RunOf("listed", ids, after, next, docs, {}, from, seen)
<1>1. /\ latest' = s /\ apart' = (apart /\ \A t \in Syncs : ~UnderWay(t))
      /\ store' = store /\ index' = index /\ hashes' = hashes
  BY DEF List
<1>2. /\ DOMAIN sync = Syncs /\ HashesOK
      /\ \A t \in Syncs : SyncOK(t) /\ LatestOK(t) /\ ChainOK(t)
  BY DEF SyncInv
<1>3. sync' = [sync EXCEPT ![s] = new]
  <2> HIDE DEF after, batch
  <2> DEFINE anew == [NoSync EXCEPT !.pc = "listed", !.ids = ids, !.after = after, !.next = next,
                                    !.docs = docs, !.from = from, !.seen = seen]
             s1 == [NoSync EXCEPT !.pc = "listed"]
             s2 == [s1 EXCEPT !.ids = ids]
             s3 == [s2 EXCEPT !.after = after]
             s4 == [s3 EXCEPT !.next = next]
             s5 == [s4 EXCEPT !.docs = docs]
             s6 == [s5 EXCEPT !.from = from]
             s7 == [s6 EXCEPT !.seen = seen]
  <2>1. sync' = [sync EXCEPT ![s] = anew]
    BY DEF List, after, batch
  <2> HIDE DEF docs, next, from, seen
  <2>2. anew = s7
    OBVIOUS
  <2>3. PICK a, b, c, d, e, f, g, h : NoSync = RunOf(a, b, c, d, e, f, g, h) /\ f = {}
    BY DEF NoSync, RunOf
  <2>4. s1 = RunOf("listed", b, c, d, e, {}, g, h)
    BY <2>3 DEF RunOf
  <2> HIDE DEF s1
  <2>5. s2 = RunOf("listed", ids, c, d, e, {}, g, h)
    BY <2>4 DEF RunOf
  <2> HIDE DEF s2
  <2>6. s3 = RunOf("listed", ids, after, d, e, {}, g, h)
    BY <2>5 DEF RunOf
  <2> HIDE DEF s3
  <2>7. s4 = RunOf("listed", ids, after, next, e, {}, g, h)
    BY <2>6 DEF RunOf
  <2> HIDE DEF s4
  <2>8. s5 = RunOf("listed", ids, after, next, docs, {}, g, h)
    BY <2>7 DEF RunOf
  <2> HIDE DEF s5
  <2>9. s6 = RunOf("listed", ids, after, next, docs, {}, from, h)
    BY <2>8 DEF RunOf
  <2> HIDE DEF s6
  <2>10. s7 = new
    BY <2>9 DEF RunOf
  <2> QED BY <2>1, <2>2, <2>10
<1>4. after \in Nat /\ (state.next = None => after = 0) /\ (state.next # None => after = state.next)
  BY DEF Given
<1> DEFINE m == Len(batch)
<1>5. /\ m \in Nat /\ m <= Limit /\ DOMAIN batch = 1..m
      /\ \A k \in 1..m : batch[k] \in Present
      /\ \A i, k \in 1..m : batch[i] = batch[k] => i = k
      /\ ids = {} => \A p \in Present : Rank(p) > after =>
                       \/ \E k \in 1..m : batch[k] = p
                       \/ m = Limit /\ Rank(batch[Limit]) < Rank(p)
  <2> HIDE DEF after
  <2> QED BY <1>4, BatchFacts DEF CatalogInv
<1>6. /\ next \in Nat \cup {None} /\ (next # None => ids = {})
      /\ ids = {} /\ m = Limit => next = Rank(batch[Limit]) /\ next # None
  <2>1. m = Limit => Rank(batch[Limit]) \in Nat
    <3>1. m = Limit => Limit \in 1..m
      BY <1>5, LimitAssumption
    <3> HIDE DEF m, batch
    <3> QED BY <1>5, <3>1, RankFacts DEF CatalogInv, StoreOK
  <2>2. None \notin Nat
    BY SourcesAssumption
  <2> HIDE DEF batch
  <2> QED BY <2>1, <2>2 DEF NextCursor
<1> HIDE DEF m, after, next
<1>7. /\ DOMAIN docs = 1..m
      /\ \A k \in 1..m : docs[k] = DocumentIn(store, batch[k]) /\ docs[k].id = batch[k]
  <2>1. DOMAIN docs = 1..m /\ \A k \in 1..m : docs[k] = Document(batch[k])
    <3> HIDE DEF batch
    <3> QED BY <1>5
  <2> HIDE DEF docs, batch
  <2> QED BY <2>1, DocumentsAre, DocumentFields
<1> HIDE DEF docs, from, seen, new
<1>8. /\ DOMAIN sync' = Syncs /\ sync'[s] = new /\ \A t \in Syncs \ {s} : sync'[t] = sync[t]
  BY <1>2, <1>3
<1>9. /\ new.pc = "listed" /\ new.ids = ids /\ new.after = after /\ new.next = next
      /\ new.docs = docs /\ new.left = {} /\ new.from = from /\ new.seen = seen /\ IsRun(new)
  BY DEF new, RunOf, IsRun
<1>10. HashesOK'
  BY <1>1, <1>2 DEF HashesOK
<1>11. \A k \in 1..m : Former(store, docs[k])
  <2> SUFFICES ASSUME NEW k \in 1..m PROVE Former(store, docs[k])
    OBVIOUS
  <2>1. batch[k] \in DOMAIN store.packages
    BY <1>5 DEF Present
  <2> QED BY <1>7, <2>1 DEF Former
<1>12. UnderWay(s)' /\ SyncOK(s)'
  <2>1. UnderWay(s)'
    BY <1>8, <1>9 DEF UnderWay
  <2>2. \A i, k \in 1..m : docs[i].id = docs[k].id => i = k
    BY <1>5, <1>7
  <2>3. \A k \in 1..m : Former(store', docs[k])
    BY <1>1, <1>11
  <2>4. /\ sync'[s].pc = "listed" /\ sync'[s].left = {} /\ sync'[s].docs = docs /\ IsRun(sync'[s])
        /\ DOMAIN docs = 1..m
    BY <1>7, <1>8, <1>9
  <2> HIDE DEF batch
  <2>5. SyncOK(s)'
    BY <1>1, <2>2, <2>3, <2>4 DEF SyncOK
  <2> QED BY <2>1, <2>5
<1>13. LatestOK(s)'
  <2>1. ASSUME apart, NEW k \in 1..m PROVE Known(store, index, hashes, docs[k])
    <3> DEFINE doc == docs[k]
    <3>1. doc = DocumentIn(store, doc.id)
      BY <1>7
    <3> HIDE DEF doc
    <3>2. SUFFICES ASSUME doc.id \notin store.redated, doc.id \in DOMAIN hashes
                   PROVE  \/ hashes[doc.id] = doc /\ index[doc.id] = doc
                          \/ hashes[doc.id] # doc /\ Stale(store, hashes[doc.id])
      BY DEF Known, doc
    <3>3. ~Stale(store, doc)
      BY <3>1, <3>2, FreshOrStale
    <3>4. /\ hashes[doc.id].id = doc.id /\ Former(store, hashes[doc.id])
          /\ hashes[doc.id] = index[doc.id] \/ Stale(store, hashes[doc.id])
      BY <1>2, <2>1, <3>2 DEF HashesOK
    <3>5. hashes[doc.id] = doc \/ Stale(store, hashes[doc.id])
      BY <3>1, <3>4 DEF Former
    <3> QED BY <3>3, <3>4, <3>5
  <2>2. \A doc : Known(store, index, hashes, doc) => Known(store', index', hashes', doc)
    BY <1>1 DEF Known
  <2> QED BY <1>1, <1>7, <1>8, <1>9, <2>1, <2>2 DEF LatestOK
<1>14. ChainOK(s)'
  <2>1. ASSUME ids = {}
        PROVE  /\ from \subseteq Present
               /\ \A k \in DOMAIN docs : docs[k].id \in seen
               /\ \A p \in from : Rank(p) <= after => p \in seen /\ p \in DOMAIN index
               /\ \A p \in from : Rank(p) > after =>
                    \/ \E k \in DOMAIN docs : docs[k].id = p
                    \/ next # None /\ Rank(p) > next
    <3>1. from \subseteq Present
      BY <2>1 DEF from
    <3>2. ASSUME NEW k \in DOMAIN docs PROVE docs[k].id \in seen
      <4>1. k \in DOMAIN batch /\ docs[k].id = batch[k]
        BY <1>5, <1>7
      <4> QED BY <4>1 DEF seen, Range
    <3>3. ASSUME NEW p \in from, Rank(p) <= after PROVE p \in seen /\ p \in DOMAIN index
      <4>1. CASE state.next = None
        <5>1. Rank(p) >= 1 /\ Rank(p) \in Nat /\ after = 0
          BY <1>4, <3>1, <4>1, RankFacts DEF CatalogInv, StoreOK
        <5> QED BY <3>3, <5>1
      <4>2. CASE state.next # None
        <5>1. p \in state.from /\ Rank(p) <= state.next
          BY <1>4, <3>3, <4>2 DEF from
        <5> QED BY <2>1, <4>2, <5>1 DEF seen
      <4> QED BY <4>1, <4>2
    <3>4. ASSUME NEW p \in from, Rank(p) > after
          PROVE  \/ \E k \in DOMAIN docs : docs[k].id = p
                 \/ next # None /\ Rank(p) > next
      <4>1. \/ \E k \in 1..m : batch[k] = p
            \/ m = Limit /\ Rank(batch[Limit]) < Rank(p)
        BY <1>5, <2>1, <3>1, <3>4
      <4>2. ASSUME m = Limit, Rank(batch[Limit]) < Rank(p) PROVE next # None /\ Rank(p) > next
        <5>1. next = Rank(batch[Limit]) /\ next # None
          BY <1>6, <2>1, <4>2
        <5> QED BY <4>2, <5>1
      <4> QED BY <1>7, <4>1, <4>2
    <3> QED BY <3>1, <3>2, <3>3, <3>4
  <2>2. Present' = Present
    BY <1>1 DEF Present
  <2> QED BY <1>1, <1>4, <1>6, <1>8, <1>9, <2>1, <2>2 DEF ChainOK
<1>15. ASSUME NEW t \in Syncs \ {s} PROVE SyncOK(t)' /\ LatestOK(t)' /\ ChainOK(t)'
  <2>1. sync'[t] = sync[t] /\ t # s /\ SyncOK(t) /\ ChainOK(t)
    BY <1>2, <1>8
  <2>2. ~(apart' /\ UnderWay(t)')
    BY <1>1, <2>1 DEF UnderWay
  <2>3. SyncOK(t)'
    BY <1>1, <2>1, <2>2 DEF SyncOK
  <2>4. LatestOK(t)'
    BY <1>1, <2>1 DEF LatestOK
  <2>5. ChainOK(t)'
    BY <1>1, <2>1 DEF ChainOK, Present
  <2> QED BY <2>3, <2>4, <2>5
<1> QED BY <1>8, <1>10, <1>12, <1>13, <1>14, <1>15 DEF SyncInv

\* A run that moves on: the rest of its record stays.
LEMMA RunMoves ==
  ASSUME SyncInv, NEW s \in Syncs, NEW pc, NEW left,
         \/ sync' = [sync EXCEPT ![s].left = left, ![s].pc = pc]
         \/ sync' = [sync EXCEPT ![s].pc = pc, ![s].left = left]
         \/ left = sync[s].left /\ sync' = [sync EXCEPT ![s].pc = pc]
  PROVE  /\ DOMAIN sync' = Syncs /\ \A t \in Syncs \ {s} : sync'[t] = sync[t]
         /\ IsRun(sync'[s]) /\ sync'[s].pc = pc /\ sync'[s].left = left
         /\ sync'[s].ids = sync[s].ids /\ sync'[s].after = sync[s].after
         /\ sync'[s].next = sync[s].next /\ sync'[s].docs = sync[s].docs
         /\ sync'[s].from = sync[s].from /\ sync'[s].seen = sync[s].seen
<1> DEFINE run == sync[s]
           l1 == [run EXCEPT !.left = left]
           l2 == [l1 EXCEPT !.pc = pc]
           p1 == [run EXCEPT !.pc = pc]
           p2 == [p1 EXCEPT !.left = left]
           new == RunOf(pc, run.ids, run.after, run.next, run.docs, left, run.from, run.seen)
<1>1. DOMAIN sync = Syncs /\ IsRun(run)
  BY DEF SyncInv, SyncOK
<1>2. \/ sync' = [sync EXCEPT ![s] = l2]
      \/ sync' = [sync EXCEPT ![s] = p2]
      \/ left = run.left /\ sync' = [sync EXCEPT ![s] = p1]
  BY <1>1
<1>3. PICK a, b, c, d, e, f, g, h : run = RunOf(a, b, c, d, e, f, g, h)
  BY <1>1 DEF IsRun
<1>4. new = RunOf(pc, b, c, d, e, left, g, h)
  BY <1>3 DEF RunOf
<1> HIDE DEF new, run
<1>5. /\ l1 = RunOf(a, b, c, d, e, left, g, h) /\ p1 = RunOf(pc, b, c, d, e, f, g, h)
      /\ run.left = f
  BY <1>3 DEF RunOf
<1> HIDE DEF l1, p1
<1>6. l2 = new /\ p2 = new /\ (left = run.left => p1 = new)
  BY <1>4, <1>5 DEF RunOf
<1> HIDE DEF l2, p2
<1>7. DOMAIN sync' = Syncs /\ sync'[s] = new /\ \A t \in Syncs \ {s} : sync'[t] = sync[t]
  BY <1>1, <1>2, <1>6
<1>8. /\ new.pc = pc /\ new.ids = run.ids /\ new.after = run.after /\ new.next = run.next
      /\ new.docs = run.docs /\ new.left = left /\ new.from = run.from /\ new.seen = run.seen
      /\ IsRun(new)
  BY DEF new, RunOf, IsRun
<1> QED BY <1>7, <1>8 DEF run

\* The runs that do nothing, and the chain of one that moves on, while the index grows.
LEMMA OtherRuns ==
  ASSUME SyncInv, NEW s \in Syncs, UnderWay(s), store' = store, latest' = latest, apart' = apart,
         DOMAIN index \subseteq DOMAIN index', \A t \in Syncs \ {s} : sync'[t] = sync[t],
         sync'[s].ids = sync[s].ids, sync'[s].after = sync[s].after,
         sync'[s].next = sync[s].next, sync'[s].docs = sync[s].docs,
         sync'[s].from = sync[s].from, sync'[s].seen = sync[s].seen
  PROVE  /\ \A t \in Syncs \ {s} : SyncOK(t)' /\ LatestOK(t)' /\ ChainOK(t)'
         /\ ChainOK(s)'
<1>1. \A t \in Syncs : SyncOK(t) /\ ChainOK(t)
  BY DEF SyncInv
<1>2. apart => s = latest
  BY <1>1 DEF SyncOK
<1>3. Present' = Present
  BY DEF Present
<1>4. ASSUME NEW t \in Syncs \ {s} PROVE SyncOK(t)'
  <2>1. SyncOK(t) /\ sync'[t] = sync[t]
    BY <1>1
  <2> QED BY <2>1 DEF SyncOK, UnderWay
<1>5. ASSUME NEW t \in Syncs \ {s} PROVE LatestOK(t)'
  <2>1. t # s /\ (apart' => latest' = s)
    BY <1>2
  <2> QED BY <2>1 DEF LatestOK
<1>6. ASSUME NEW t \in Syncs \ {s} PROVE ChainOK(t)'
  <2>1. ChainOK(t) /\ sync'[t] = sync[t]
    BY <1>1
  <2> QED BY <1>3, <2>1 DEF ChainOK
<1>7. ChainOK(s)'
  BY <1>1, <1>3 DEF ChainOK
<1> QED BY <1>4, <1>5, <1>6, <1>7

\* What is skipped is in the index.
LEMMA CompareKeeps ==
  ASSUME SyncInv, NEW s \in Syncs, CompareHashes(s)
  PROVE  SyncInv'
<1> DEFINE docs == sync[s].docs
           left == {k \in DOMAIN docs : ~Unchanged(docs[k])}
           pc   == IF left = {} THEN "done" ELSE "changed"
<1>1. /\ sync[s].pc = "listed" /\ sync' = [sync EXCEPT ![s].left = left, ![s].pc = pc]
      /\ index' = index /\ hashes' = hashes /\ latest' = latest /\ apart' = apart
      /\ store' = store
  BY DEF CompareHashes, catalogVars
<1>2. HashesOK /\ SyncOK(s) /\ LatestOK(s)
  BY DEF SyncInv
<1>3. UnderWay(s) /\ (apart => s = latest)
  BY <1>1, <1>2 DEF UnderWay, SyncOK
<1>4. /\ left \subseteq DOMAIN docs /\ pc \in {"done", "changed"} /\ (pc = "done" => left = {})
      /\ \A k \in DOMAIN docs \ left :
           docs[k].id \in DOMAIN hashes /\ hashes[docs[k].id] = docs[k]
      /\ \A k \in left : docs[k].id \notin DOMAIN hashes \/ hashes[docs[k].id] # docs[k]
  BY DEF Unchanged
<1> HIDE DEF left, pc
<1>5. /\ DOMAIN sync' = Syncs /\ \A t \in Syncs \ {s} : sync'[t] = sync[t]
      /\ IsRun(sync'[s]) /\ sync'[s].pc = pc /\ sync'[s].left = left
      /\ sync'[s].ids = sync[s].ids /\ sync'[s].after = sync[s].after
      /\ sync'[s].next = sync[s].next /\ sync'[s].docs = docs
      /\ sync'[s].from = sync[s].from /\ sync'[s].seen = sync[s].seen
  BY <1>1, RunMoves
<1>6. \A k \in DOMAIN docs \ left : docs[k].id \in DOMAIN index
  BY <1>2, <1>4 DEF HashesOK
<1>7. /\ \A k \in DOMAIN docs : Former(store, docs[k])
      /\ \A i, k \in DOMAIN docs : docs[i].id = docs[k].id => i = k
  BY <1>2 DEF SyncOK
<1>8. apart => \A k \in DOMAIN docs : Known(store, index, hashes, docs[k])
  BY <1>1, <1>2, <1>3 DEF LatestOK
<1> HIDE DEF docs
<1>9. SyncOK(s)'
  BY <1>1, <1>3, <1>4, <1>5, <1>6, <1>7 DEF SyncOK
<1>10. ASSUME apart, NEW k \in DOMAIN docs \ left PROVE Written(store, index, docs[k])
  BY <1>4, <1>6, <1>8, <1>10 DEF Known, Written
<1>11. ASSUME apart, NEW k \in left PROVE Behind(store, hashes, docs[k])
  <2>1. SUFFICES ASSUME docs[k].id \in DOMAIN hashes PROVE Stale(store, hashes[docs[k].id])
    BY DEF Behind
  <2>2. /\ hashes[docs[k].id].id = docs[k].id /\ hashes[docs[k].id] # docs[k]
        /\ Known(store, index, hashes, docs[k])
    BY <1>2, <1>4, <1>8, <1>11, <2>1 DEF HashesOK
  <2>3. CASE docs[k].id \in store.redated
    BY <2>2, <2>3 DEF Stale
  <2>4. CASE docs[k].id \notin store.redated
    BY <2>1, <2>2, <2>4 DEF Known
  <2> QED BY <2>3, <2>4
<1>12. LatestOK(s)'
  <2>1. \A doc : /\ Written(store, index, doc) => Written(store', index', doc)
                 /\ Behind(store, hashes, doc) => Behind(store', hashes', doc)
    BY <1>1 DEF Written, Behind
  <2>2. pc # "listed" /\ pc # "indexed"
    BY <1>4
  <2>3. pc = "done" => DOMAIN docs \ left = DOMAIN docs
    BY <1>4
  <2> QED BY <1>1, <1>5, <1>10, <1>11, <2>1, <2>2, <2>3 DEF LatestOK
<1>13. HashesOK'
  BY <1>1, <1>2 DEF HashesOK
<1>14. /\ \A t \in Syncs \ {s} : SyncOK(t)' /\ LatestOK(t)' /\ ChainOK(t)'
       /\ ChainOK(s)'
  BY <1>1, <1>3, <1>5, OtherRuns DEF docs
<1> QED BY <1>5, <1>9, <1>12, <1>13, <1>14 DEF SyncInv

\* The index after the request: the documents of the run, and what it had.
LEMMA IndexFacts ==
  ASSUME SyncInv, NEW s \in Syncs, sync[s].pc = "changed", index' = Indexed(Changed(s))
  PROVE  /\ DOMAIN index \subseteq DOMAIN index'
         /\ \A k \in sync[s].left : LET doc == sync[s].docs[k]
                                    IN  doc.id \in DOMAIN index' /\ index'[doc.id] = doc
         /\ \A id \in DOMAIN index : (\A k \in sync[s].left : sync[s].docs[k].id # id) =>
              index'[id] = index[id]
         /\ HashesOK /\ apart' = apart /\ store' = store /\ hashes' = hashes => HashesOK'
<1> DEFINE docs == sync[s].docs
           left == sync[s].left
           new  == Changed(s)
<1>1. /\ left \subseteq DOMAIN docs
      /\ \A i, k \in DOMAIN docs : docs[i].id = docs[k].id => i = k
      /\ apart => s = latest /\ LatestOK(s)
  BY DEF SyncInv, SyncOK, UnderWay
<1>2. new = {docs[k] : k \in left}
  BY DEF Changed
<1>3. index' = [id \in DOMAIN index \cup {doc.id : doc \in new} |->
                  IF \E doc \in new : doc.id = id THEN CHOOSE doc \in new : doc.id = id
                                                  ELSE index[id]]
  BY DEF Indexed
<1>4. apart => \A k \in left : Behind(store, hashes, docs[k])
  BY <1>1 DEF LatestOK
<1> HIDE DEF docs, left, new
<1>5. DOMAIN index \subseteq DOMAIN index'
  BY <1>3
<1>6. ASSUME NEW k \in left PROVE docs[k].id \in DOMAIN index' /\ index'[docs[k].id] = docs[k]
  <2> DEFINE id == docs[k].id
             found == CHOOSE doc \in new : doc.id = id
  <2>1. docs[k] \in new
    BY <1>2
  <2>2. id \in DOMAIN index' /\ \E doc \in new : doc.id = id
    BY <1>3, <2>1
  <2>3. index'[id] = found
    BY <1>3, <2>2
  <2>4. found \in new /\ found.id = id
    BY <2>2
  <2> HIDE DEF found
  <2>5. PICK i \in left : found = docs[i]
    BY <1>2, <2>4
  <2>6. i = k
    BY <1>1, <2>4, <2>5
  <2> QED BY <2>2, <2>3, <2>5, <2>6
<1>7. ASSUME NEW id \in DOMAIN index, \A k \in left : docs[k].id # id
      PROVE  index'[id] = index[id]
  <2>1. ~\E doc \in new : doc.id = id
    BY <1>2, <1>7
  <2> QED BY <1>3, <2>1
<1>8. ASSUME HashesOK, apart' = apart, store' = store, hashes' = hashes PROVE HashesOK'
  <2> SUFFICES ASSUME NEW id \in DOMAIN hashes
               PROVE  /\ hashes[id].id = id /\ Former(store, hashes[id]) /\ id \in DOMAIN index'
                      /\ apart => hashes[id] = index'[id] \/ Stale(store, hashes[id])
    BY <1>8 DEF HashesOK
  <2>1. /\ hashes[id].id = id /\ Former(store, hashes[id]) /\ id \in DOMAIN index
        /\ apart => hashes[id] = index[id] \/ Stale(store, hashes[id])
    BY <1>8 DEF HashesOK
  <2>2. CASE \E k \in left : docs[k].id = id
    <3>1. apart => Stale(store, hashes[id])
      BY <1>4, <2>2 DEF Behind
    <3> QED BY <1>5, <2>1, <3>1
  <2>3. CASE \A k \in left : docs[k].id # id
    <3>1. index'[id] = index[id]
      BY <1>7, <2>1, <2>3
    <3> QED BY <1>5, <2>1, <3>1
  <2> QED BY <2>2, <2>3
<1> QED BY <1>5, <1>6, <1>7, <1>8 DEF docs, left

\* The request for the index.
LEMMA WriteIndexKeeps ==
  ASSUME SyncInv, NEW s \in Syncs, WriteIndex(s)
  PROVE  SyncInv'
<1> DEFINE docs == sync[s].docs
           left == sync[s].left
<1>1. /\ sync[s].pc = "changed" /\ sync' = [sync EXCEPT ![s].pc = "indexed"]
      /\ index' = Indexed(Changed(s)) /\ hashes' = hashes /\ latest' = latest /\ apart' = apart
      /\ store' = store
  BY DEF WriteIndex, catalogVars
<1>2. HashesOK /\ SyncOK(s) /\ LatestOK(s)
  BY DEF SyncInv
<1>3. UnderWay(s) /\ (apart => s = latest)
  BY <1>1, <1>2 DEF UnderWay, SyncOK
<1>4. /\ DOMAIN index \subseteq DOMAIN index'
      /\ \A k \in left : docs[k].id \in DOMAIN index' /\ index'[docs[k].id] = docs[k]
      /\ \A id \in DOMAIN index : (\A k \in left : docs[k].id # id) => index'[id] = index[id]
      /\ HashesOK'
  BY <1>1, <1>2, IndexFacts
<1>5. /\ DOMAIN sync' = Syncs /\ \A t \in Syncs \ {s} : sync'[t] = sync[t]
      /\ IsRun(sync'[s]) /\ sync'[s].pc = "indexed" /\ sync'[s].left = left
      /\ sync'[s].ids = sync[s].ids /\ sync'[s].after = sync[s].after
      /\ sync'[s].next = sync[s].next /\ sync'[s].docs = docs
      /\ sync'[s].from = sync[s].from /\ sync'[s].seen = sync[s].seen
  BY <1>1, RunMoves
<1>6. /\ \A k \in DOMAIN docs : Former(store, docs[k])
      /\ \A i, k \in DOMAIN docs : docs[i].id = docs[k].id => i = k
      /\ left \subseteq DOMAIN docs
      /\ \A k \in DOMAIN docs \ left : docs[k].id \in DOMAIN index
  BY <1>1, <1>2 DEF SyncOK
<1>7. apart => /\ \A k \in DOMAIN docs \ left : Written(store, index, docs[k])
               /\ \A k \in left : Behind(store, hashes, docs[k])
  BY <1>1, <1>2, <1>3 DEF LatestOK
<1>8. /\ \A t \in Syncs \ {s} : SyncOK(t)' /\ LatestOK(t)' /\ ChainOK(t)'
      /\ ChainOK(s)'
  BY <1>1, <1>3, <1>4, <1>5, OtherRuns
<1> HIDE DEF docs, left
<1>9. \A k \in DOMAIN docs : docs[k].id \in DOMAIN index'
  BY <1>4, <1>6
<1>10. SyncOK(s)'
  BY <1>1, <1>3, <1>5, <1>6, <1>9 DEF SyncOK
<1>11. ASSUME NEW k \in DOMAIN docs \ left, Written(store, index, docs[k])
       PROVE  Written(store', index', docs[k])
  <2> DEFINE doc == docs[k]
  <2>1. \A i \in left : docs[i].id # doc.id
    BY <1>6
  <2> HIDE DEF doc
  <2>2. doc.id \notin store.redated => doc.id \in DOMAIN index /\ index[doc.id] = doc
    BY <1>11 DEF Written, doc
  <2>3. doc.id \notin store'.redated => doc.id \in DOMAIN index' /\ index'[doc.id] = doc
    BY <1>1, <1>4, <2>1, <2>2
  <2> QED BY <2>3 DEF Written, doc
<1>12. ASSUME NEW k \in left PROVE Written(store', index', docs[k])
  BY <1>4 DEF Written
<1>13. ASSUME NEW k \in left, Behind(store, hashes, docs[k])
       PROVE  Behind(store', hashes', docs[k])
  BY <1>1, <1>13
<1>14. LatestOK(s)'
  BY <1>1, <1>5, <1>7, <1>11, <1>12, <1>13 DEF LatestOK
<1> QED BY <1>4, <1>5, <1>8, <1>10, <1>14 DEF SyncInv

\* One fingerprint of those a run has to keep.
LEMMA WriteStateKeeps ==
  ASSUME SyncInv, NEW s \in Syncs, WriteState(s)
  PROVE  SyncInv'
<1> DEFINE docs == sync[s].docs
           left == sync[s].left
<1>1. /\ sync[s].pc = "indexed" /\ index' = index /\ latest' = latest /\ apart' = apart
      /\ store' = store
  BY DEF WriteState, catalogVars
<1>2. PICK k \in left :
        /\ hashes' = Put(hashes, docs[k].id, docs[k])
        /\ sync' = [sync EXCEPT ![s].left = left \ {k},
                                ![s].pc = IF left \ {k} = {} THEN "done" ELSE "indexed"]
  BY DEF WriteState
<1> DEFINE rest == left \ {k}
           pc   == IF rest = {} THEN "done" ELSE "indexed"
           doc  == docs[k]
<1>3. HashesOK /\ SyncOK(s) /\ LatestOK(s)
  BY DEF SyncInv
<1>4. UnderWay(s) /\ (apart => s = latest)
  BY <1>1, <1>3 DEF UnderWay, SyncOK
<1>5. /\ DOMAIN sync' = Syncs /\ \A t \in Syncs \ {s} : sync'[t] = sync[t]
      /\ IsRun(sync'[s]) /\ sync'[s].pc = pc /\ sync'[s].left = rest
      /\ sync'[s].ids = sync[s].ids /\ sync'[s].after = sync[s].after
      /\ sync'[s].next = sync[s].next /\ sync'[s].docs = docs
      /\ sync'[s].from = sync[s].from /\ sync'[s].seen = sync[s].seen
  <2> HIDE DEF rest, pc
  <2>1. sync' = [sync EXCEPT ![s].left = rest, ![s].pc = pc]
    BY <1>2 DEF rest, pc
  <2> QED BY <2>1, RunMoves
<1>6. /\ \A i \in DOMAIN docs : Former(store, docs[i])
      /\ \A i, n \in DOMAIN docs : docs[i].id = docs[n].id => i = n
      /\ left \subseteq DOMAIN docs
      /\ \A i \in DOMAIN docs : docs[i].id \in DOMAIN index
  BY <1>1, <1>3 DEF SyncOK
<1>7. apart => /\ \A i \in DOMAIN docs : Written(store, index, docs[i])
               /\ \A i \in left : Behind(store, hashes, docs[i])
  BY <1>1, <1>3, <1>4 DEF LatestOK
<1>8. /\ \A t \in Syncs \ {s} : SyncOK(t)' /\ LatestOK(t)' /\ ChainOK(t)'
      /\ ChainOK(s)'
  BY <1>1, <1>4, <1>5, OtherRuns
<1>9. /\ pc \in {"done", "indexed"} /\ rest \subseteq left /\ k \in DOMAIN docs /\ k \notin rest
  BY <1>6
<1> HIDE DEF docs, left, rest, pc, doc
<1>10. SyncOK(s)'
  BY <1>1, <1>4, <1>5, <1>6, <1>9 DEF SyncOK
<1>11. /\ DOMAIN hashes' = DOMAIN hashes \cup {doc.id} /\ hashes'[doc.id] = doc
       /\ \A id \in DOMAIN hashes : id # doc.id => hashes'[id] = hashes[id]
  BY <1>2 DEF Put, doc
<1>12. HashesOK'
  <2> SUFFICES ASSUME NEW id \in DOMAIN hashes'
               PROVE  /\ hashes'[id].id = id /\ Former(store, hashes'[id]) /\ id \in DOMAIN index
                      /\ apart => hashes'[id] = index[id] \/ Stale(store, hashes'[id])
    BY <1>1 DEF HashesOK
  <2>1. CASE id = doc.id
    <3>1. hashes'[id] = doc /\ Former(store, doc) /\ id \in DOMAIN index
      BY <1>6, <1>9, <1>11, <2>1 DEF doc
    <3>2. apart => doc = index[id] \/ doc.id \in store.redated
      BY <1>7, <1>9, <2>1 DEF Written, doc
    <3>3. doc.id \in store.redated => Stale(store, doc)
      BY DEF Stale
    <3> QED BY <2>1, <3>1, <3>2, <3>3
  <2>2. CASE id # doc.id
    <3>1. id \in DOMAIN hashes /\ hashes'[id] = hashes[id]
      BY <1>11, <2>2
    <3> QED BY <1>3, <3>1 DEF HashesOK
  <2> QED BY <2>1, <2>2
<1>13. ASSUME NEW i \in rest, Behind(store, hashes, docs[i])
       PROVE  Behind(store', hashes', docs[i])
  <2>1. docs[i].id # doc.id
    BY <1>6, <1>9 DEF doc
  <2>2. docs[i].id \in DOMAIN hashes' => /\ docs[i].id \in DOMAIN hashes
                                         /\ hashes'[docs[i].id] = hashes[docs[i].id]
    BY <1>11, <2>1
  <2> QED BY <1>1, <1>13, <2>2 DEF Behind
<1>14. LatestOK(s)'
  <2>1. apart => \A i \in DOMAIN docs : Written(store', index', docs[i])
    BY <1>1, <1>7
  <2>2. apart => \A i \in rest : Behind(store', hashes', docs[i])
    BY <1>7, <1>9, <1>13
  <2>3. rest \subseteq DOMAIN docs /\ pc # "listed" /\ pc # "changed"
    BY <1>6, <1>9
  <2> QED BY <1>1, <1>5, <2>1, <2>2, <2>3 DEF LatestOK
<1> QED BY <1>5, <1>8, <1>10, <1>12, <1>14 DEF SyncInv

\* A run that is cut off, with its documents in the index or not.
LEMMA SyncFailsKeeps ==
  ASSUME SyncInv, NEW s \in Syncs, SyncFails(s)
  PROVE  SyncInv'
<1>1. /\ UnderWay(s) /\ sync' = [sync EXCEPT ![s].pc = "failed", ![s].left = {}]
      /\ hashes' = hashes /\ latest' = latest /\ apart' = apart /\ store' = store
      /\ index' = index \/ (sync[s].pc = "changed" /\ index' = Indexed(Changed(s)))
  BY DEF SyncFails
<1>2. HashesOK /\ SyncOK(s)
  BY DEF SyncInv
<1>3. DOMAIN index \subseteq DOMAIN index' /\ HashesOK'
  <2>1. CASE index' = index
    BY <1>1, <1>2, <2>1 DEF HashesOK
  <2>2. CASE sync[s].pc = "changed" /\ index' = Indexed(Changed(s))
    BY <1>1, <1>2, <2>2, IndexFacts
  <2> QED BY <1>1, <2>1, <2>2
<1>4. /\ DOMAIN sync' = Syncs /\ \A t \in Syncs \ {s} : sync'[t] = sync[t]
      /\ IsRun(sync'[s]) /\ sync'[s].pc = "failed" /\ sync'[s].left = {}
      /\ sync'[s].ids = sync[s].ids /\ sync'[s].after = sync[s].after
      /\ sync'[s].next = sync[s].next /\ sync'[s].docs = sync[s].docs
      /\ sync'[s].from = sync[s].from /\ sync'[s].seen = sync[s].seen
  BY <1>1, RunMoves
<1>5. /\ \A t \in Syncs \ {s} : SyncOK(t)' /\ LatestOK(t)' /\ ChainOK(t)'
      /\ ChainOK(s)'
  BY <1>1, <1>3, <1>4, OtherRuns
<1>6. SyncOK(s)'
  BY <1>1, <1>2, <1>4 DEF SyncOK, UnderWay
<1>7. LatestOK(s)'
  BY <1>4 DEF LatestOK
<1> QED BY <1>3, <1>4, <1>5, <1>6, <1>7 DEF SyncInv

\* A run that goes on along the cursor takes the place of the one that stopped there.
LEMMA ResumeKeeps ==
  ASSUME CatalogInv, SyncInv, NEW s \in Syncs, NEW t \in Syncs, ResumeSync(s, t)
  PROVE  SyncInv'
<1> DEFINE run == sync[t]
<1>1. run.pc = "done" /\ run.next # None /\ List(s, {}, run)
  BY DEF ResumeSync
<1>2. SyncOK(t) /\ ChainOK(t)
  BY DEF SyncInv
<1>3. /\ run.after \in Nat /\ run.next \in Nat \cup {None}
      /\ run.from \subseteq Present
      /\ \A k \in DOMAIN run.docs : run.docs[k].id \in run.seen
      /\ \A p \in run.from : Rank(p) <= run.after => p \in run.seen /\ p \in DOMAIN index
      /\ \A p \in run.from : Rank(p) > run.after =>
           \/ \E k \in DOMAIN run.docs : run.docs[k].id = p
           \/ run.next # None /\ Rank(p) > run.next
      /\ \A k \in DOMAIN run.docs : run.docs[k].id \in DOMAIN index
  BY <1>1, <1>2 DEF ChainOK, SyncOK
<1> HIDE DEF run
<1>4. ASSUME NEW p \in run.from, Rank(p) <= run.next PROVE p \in run.seen /\ p \in DOMAIN index
  <2>1. Rank(p) \in Nat /\ run.next \in Nat
    BY <1>1, <1>3, RankFacts DEF CatalogInv, StoreOK
  <2>2. CASE Rank(p) <= run.after
    BY <1>3, <2>2
  <2>3. CASE Rank(p) > run.after
    <3>1. ~(Rank(p) > run.next)
      BY <1>4, <2>1
    <3> QED BY <1>3, <2>3, <3>1
  <2> QED BY <1>3, <2>1, <2>2, <2>3
<1> QED BY <1>1, <1>3, <1>4, ListKeeps

\* A run that failed is repeated from where it started.
LEMMA RetryKeeps ==
  ASSUME CatalogInv, SyncInv, NEW s \in Syncs, NEW t \in Syncs, RetrySync(s, t)
  PROVE  SyncInv'
<1> DEFINE run   == sync[t]
           next  == IF run.after = 0 THEN None ELSE run.after
           again == [run EXCEPT !.next = next]
<1>1. run.ids = {} /\ List(s, {}, again)
  BY DEF RetrySync
<1>2. ChainOK(t) /\ IsRun(run)
  BY DEF SyncInv, SyncOK
<1>3. /\ run.after \in Nat /\ run.from \subseteq Present
      /\ \A p \in run.from : Rank(p) <= run.after => p \in run.seen /\ p \in DOMAIN index
  BY <1>1, <1>2 DEF ChainOK
<1>4. again.next = next /\ again.from = run.from /\ again.seen = run.seen
  <2> HIDE DEF next, run
  <2>1. PICK a, b, c, d, e, f, g, h : run = RunOf(a, b, c, d, e, f, g, h)
    BY <1>2 DEF IsRun
  <2> QED BY <2>1 DEF RunOf
<1>5. next \in Nat \cup {None} /\ (next # None => next = run.after)
  BY <1>3
<1> HIDE DEF again, next, run
<1>6. /\ again.next \in Nat \cup {None} /\ (again.next # None => again.from \subseteq Present)
      /\ again.next # None =>
           \A p \in again.from : Rank(p) <= again.next => p \in again.seen /\ p \in DOMAIN index
  BY <1>3, <1>4, <1>5
<1> QED BY <1>1, <1>6, ListKeeps

LEMMA SyncStep ==
  ASSUME CatalogInv, SyncInv, SyncNext
  PROVE  SyncInv'
<1>1. PICK s \in Syncs :
        \/ StartSync(s)
        \/ \E t \in Syncs : ResumeSync(s, t) \/ RetrySync(s, t)
        \/ \E ids \in SUBSET Present \ {{}} : SyncPackages(s, ids)
        \/ CompareHashes(s)
        \/ WriteIndex(s)
        \/ WriteState(s)
        \/ SyncFails(s)
  BY DEF SyncNext
<1>2. ASSUME NEW ids, List(s, ids, NoSync) PROVE SyncInv'
  <2>1. NoSync.next = None
    BY DEF NoSync
  <2> QED BY <1>2, <2>1, ListKeeps
<1>3. CASE StartSync(s)
  BY <1>2, <1>3 DEF StartSync
<1>4. ASSUME NEW t \in Syncs, ResumeSync(s, t) \/ RetrySync(s, t) PROVE SyncInv'
  BY <1>4, ResumeKeeps, RetryKeeps
<1>5. ASSUME NEW ids, SyncPackages(s, ids) PROVE SyncInv'
  BY <1>2, <1>5 DEF SyncPackages
<1>6. CASE CompareHashes(s)
  BY <1>6, CompareKeeps
<1>7. CASE WriteIndex(s)
  BY <1>7, WriteIndexKeeps
<1>8. CASE WriteState(s)
  BY <1>8, WriteStateKeeps
<1>9. CASE SyncFails(s)
  BY <1>9, SyncFailsKeeps
<1> QED BY <1>1, <1>3, <1>4, <1>5, <1>6, <1>7, <1>8, <1>9

LEMMA SyncUntouched == SyncInv /\ UNCHANGED vars => SyncInv'
<1> SUFFICES ASSUME SyncInv, UNCHANGED vars PROVE SyncInv'
  OBVIOUS
<1>1. UNCHANGED syncVars /\ StoreGrows
  BY DEF vars, syncVars, StoreGrows, Present
<1> QED BY <1>1, SyncOutlivesWriters

LEMMA SyncInvHolds == Spec => []SyncInv
<1>1. Init => SyncInv
  BY SyncHoldsAtInit
<1>2. CatalogInv /\ SyncInv /\ [Next]_vars => SyncInv'
  <2> SUFFICES ASSUME CatalogInv, SyncInv, [Next]_vars PROVE SyncInv'
    OBVIOUS
  <2>1. CASE SyncNext
    BY <2>1, SyncStep
  <2>2. CASE CatalogNext /\ UNCHANGED syncVars
    BY <2>2, CatalogGrows, SyncOutlivesWriters
  <2>3. CASE UNCHANGED vars
    BY <2>3, SyncUntouched
  <2> QED BY <2>1, <2>2, <2>3 DEF Next
<1> QED BY <1>1, <1>2, CatalogInvHolds, PTL DEF Spec

\* IndexIsTrue holds of every behaviour: as long as no two runs were under way at once,
\* one that ended left every document it listed in the index, of however many packages,
\* batches, failures and changes of the catalog.
THEOREM IndexStaysTrue == Spec => []IndexIsTrue
<1>1. SyncInv => IndexIsTrue
  BY DEF SyncInv, LatestOK, IndexIsTrue, Written
<1> QED BY <1>1, SyncInvHolds, PTL

\* BackfillIsComplete holds of every behaviour: a chain of runs that came to its end has
\* listed every package that was there when it began, and the index has each of them,
\* whatever the limit, the overlaps and the runs that failed in between.
THEOREM BackfillsStayComplete == Spec => []BackfillIsComplete
<1>1. ASSUME CatalogInv, SyncInv PROVE BackfillIsComplete
  <2> SUFFICES ASSUME NEW s \in Syncs, sync[s].pc = "done", sync[s].ids = {},
                      sync[s].next = None, NEW p \in sync[s].from
               PROVE  p \in sync[s].seen /\ p \in DOMAIN index
    BY DEF BackfillIsComplete
  <2>1. ChainOK(s) /\ SyncOK(s)
    BY <1>1 DEF SyncInv
  <2>2. p \in Present /\ sync[s].after \in Nat
    BY <2>1 DEF ChainOK
  <2>3. Rank(p) \in Nat
    BY <1>1, <2>2, RankFacts DEF CatalogInv, StoreOK
  <2>4. CASE Rank(p) <= sync[s].after
    BY <2>1, <2>4 DEF ChainOK
  <2>5. CASE Rank(p) > sync[s].after
    <3>1. PICK k \in DOMAIN sync[s].docs : sync[s].docs[k].id = p
      BY <2>1, <2>5 DEF ChainOK
    <3> QED BY <2>1, <3>1 DEF ChainOK, SyncOK
  <2> QED BY <2>2, <2>3, <2>4, <2>5
<1>2. CatalogInv /\ SyncInv => BackfillIsComplete
  BY <1>1
<1> QED BY <1>2, CatalogInvHolds, SyncInvHolds, PTL

=============================================================================
