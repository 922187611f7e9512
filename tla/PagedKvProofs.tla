--------------------------- MODULE PagedKvProofs ---------------------------
(***************************************************************************)
(* What the operations of PagedKv do to the counts of the pages: whatever   *)
(* they retain, evict, copy and give back, each page is counted once for    *)
(* each cached prefix that holds it, besides the holders that are not in    *)
(* the cache, and the pages they hand out are nobody else's.                *)
(***************************************************************************)
EXTENDS PagedKv, FiniteSetTheorems, FunctionTheorems, SequenceTheorems, TLAPS

\* No page, or entry, is there twice.
Distinct(s) == \A i, j \in DOMAIN s : s[i] = s[j] => i = j

\* A relation that orders the elements of a set strictly and totally.
Orders(R, S) ==
    /\ \A x \in S : <<x, x>> \notin R
    /\ \A x, y, z \in S : <<x, y>> \in R /\ <<y, z>> \in R => <<x, z>> \in R
    /\ \A x, y \in S : x = y \/ <<x, y>> \in R \/ <<y, x>> \in R

AreNumbers(S) == S \subseteq Int

Below(S, R, x) == {y \in S : <<y, x>> \in R}
-----------------------------------------------------------------------------
(* Places in an order. *)

\* In a finite set that is ordered, the elements are told apart by how many come
\* before them, and there is one for each number.
LEMMA Ranks ==
    ASSUME NEW S, NEW R, IsFiniteSet(S), Orders(R, S)
    PROVE  /\ Cardinality(S) \in Nat
           /\ \A x \in S : Cardinality(Below(S, R, x)) \in 0 .. Cardinality(S) - 1
           /\ \A x, y \in S : Cardinality(Below(S, R, x)) = Cardinality(Below(S, R, y)) => x = y
           /\ \A n \in 0 .. Cardinality(S) - 1 : \E x \in S : Cardinality(Below(S, R, x)) = n
<1> DEFINE size == Cardinality(S)
           rank == [x \in S |-> Cardinality(Below(S, R, x))]
<1>1. size \in Nat
    BY FS_CardinalityType
<1>2. ASSUME NEW x \in S
      PROVE  /\ IsFiniteSet(Below(S, R, x))
             /\ Cardinality(Below(S, R, x)) \in 0 .. size - 1
  <2>1. Below(S, R, x) \in SUBSET S /\ x \notin Below(S, R, x)
    BY DEF Below, Orders
  <2>2. /\ IsFiniteSet(Below(S, R, x)) /\ Cardinality(Below(S, R, x)) <= size
        /\ size = Cardinality(Below(S, R, x)) => S = Below(S, R, x)
    BY <2>1, FS_Subset
  <2>3. Cardinality(Below(S, R, x)) \in Nat
    BY <2>2, FS_CardinalityType
  <2>4. QED
    BY <1>1, <2>1, <2>2, <2>3
<1>3. ASSUME NEW x \in S, NEW y \in S, <<x, y>> \in R
      PROVE  Cardinality(Below(S, R, x)) # Cardinality(Below(S, R, y))
  <2>1. Below(S, R, x) \in SUBSET Below(S, R, y)
    BY <1>3 DEF Below, Orders
  <2>2. x \in Below(S, R, y) /\ x \notin Below(S, R, x)
    BY <1>3 DEF Below, Orders
  <2>3. IsFiniteSet(Below(S, R, y))
    BY <1>2
  <2>4. Cardinality(Below(S, R, y)) = Cardinality(Below(S, R, x)) => Below(S, R, y) = Below(S, R, x)
    BY <2>1, <2>3, FS_Subset
  <2>5. QED
    BY <2>2, <2>4
<1>4. \A x, y \in S : Cardinality(Below(S, R, x)) = Cardinality(Below(S, R, y)) => x = y
    BY <1>3 DEF Orders
<1>5. rank \in Injection(S, 0 .. size - 1)
    BY <1>2, <1>4 DEF Injection, IsInjective
<1>6. IsFiniteSet(0 .. size - 1) /\ Cardinality(0 .. size - 1) = size
  <2>1. size - 1 \in Int
    BY <1>1
  <2>2. QED
    BY <1>1, <2>1, FS_Interval
<1>7. rank \in Surjection(S, 0 .. size - 1)
    BY <1>5, <1>6, FS_Injection
<1>8. \A n \in 0 .. size - 1 : \E x \in S : rank[x] = n
    BY <1>7 DEF Surjection
<1>9. QED
    BY <1>1, <1>2, <1>4, <1>8

\* The k-th smallest of a set of numbers.
LEMMA NthProperties ==
    ASSUME NEW S, IsFiniteSet(S), AreNumbers(S)
    PROVE  /\ Cardinality(S) \in Nat
           /\ \A k \in 1 .. Cardinality(S) : Nth(S, k) \in S
           /\ \A j, k \in 1 .. Cardinality(S) : Nth(S, j) = Nth(S, k) => j = k
           /\ \A x \in S : \E k \in 1 .. Cardinality(S) : Nth(S, k) = x
<1> DEFINE R     == {x \in Int \X Int : x[1] < x[2]}
           C(x)  == Cardinality({y \in S : y < x})
<1>1. Orders(R, S)
    BY DEF Orders, AreNumbers
<1>2. \A x \in S : Cardinality(Below(S, R, x)) = C(x)
  <2>1. \A x \in S : Below(S, R, x) = {y \in S : y < x}
    BY DEF Below, AreNumbers
  <2>2. QED
    BY <2>1
<1>3. /\ Cardinality(S) \in Nat
      /\ \A x \in S : C(x) \in 0 .. Cardinality(S) - 1
      /\ \A x, y \in S : C(x) = C(y) => x = y
      /\ \A n \in 0 .. Cardinality(S) - 1 : \E x \in S : C(x) = n
  <2> HIDE DEF R, C
  <2>1. /\ Cardinality(S) \in Nat
        /\ \A x \in S : Cardinality(Below(S, R, x)) \in 0 .. Cardinality(S) - 1
        /\ \A x, y \in S : Cardinality(Below(S, R, x)) = Cardinality(Below(S, R, y)) => x = y
        /\ \A n \in 0 .. Cardinality(S) - 1 : \E x \in S : Cardinality(Below(S, R, x)) = n
    BY <1>1, Ranks
  <2>2. \A x \in S : C(x) \in 0 .. Cardinality(S) - 1
    BY <1>2, <2>1
  <2>3. \A x, y \in S : C(x) = C(y) => x = y
    BY <1>2, <2>1
  <2>4. \A n \in 0 .. Cardinality(S) - 1 : \E x \in S : C(x) = n
    <3>1. SUFFICES ASSUME NEW n \in 0 .. Cardinality(S) - 1 PROVE \E x \in S : C(x) = n
      OBVIOUS
    <3>2. PICK x \in S : Cardinality(Below(S, R, x)) = n
      BY <2>1
    <3>3. QED
      BY <1>2, <3>2
  <2>5. QED
    BY <2>1, <2>2, <2>3, <2>4
<1>4. \A k : Nth(S, k) = CHOOSE x \in S : C(x) = k - 1
    BY DEF Nth
<1> HIDE DEF C, R
<1>5. \A k \in 1 .. Cardinality(S) : Nth(S, k) \in S /\ C(Nth(S, k)) = k - 1
  <2> SUFFICES ASSUME NEW k \in 1 .. Cardinality(S)
               PROVE  Nth(S, k) \in S /\ C(Nth(S, k)) = k - 1
    OBVIOUS
  <2>1. k - 1 \in 0 .. Cardinality(S) - 1
    BY <1>3
  <2>2. \E x \in S : C(x) = k - 1
    BY <1>3, <2>1
  <2>3. QED
    BY <1>4, <2>2
<1>6. \A j, k \in 1 .. Cardinality(S) : Nth(S, j) = Nth(S, k) => j = k
    BY <1>3, <1>5
<1>7. ASSUME NEW x \in S
      PROVE  \E k \in 1 .. Cardinality(S) : Nth(S, k) = x
  <2>1. C(x) + 1 \in 1 .. Cardinality(S) /\ (C(x) + 1) - 1 = C(x)
    BY <1>3
  <2>2. Nth(S, C(x) + 1) \in S /\ C(Nth(S, C(x) + 1)) = C(x)
    BY <1>5, <2>1
  <2>3. Nth(S, C(x) + 1) = x
    BY <1>3, <2>2
  <2>4. QED
    BY <2>1, <2>3
<1>8. QED
    BY <1>3, <1>5, <1>6, <1>7

LEMMA PickedProperties ==
    ASSUME NEW E, NEW s \in Seq(E), NEW S \in SUBSET DOMAIN s
    PROVE  /\ Picked(s, S) \in Seq(E)
           /\ Range(Picked(s, S)) = {s[i] : i \in S}
           /\ \A j \in DOMAIN Picked(s, S) : \E i \in S :
                 /\ Picked(s, S)[j] = s[i]
                 /\ \A k \in DOMAIN Picked(s, S) :
                       Picked(s, S)[k] = s[i] /\ Distinct(s) => j = k
<1>1. /\ Len(s) \in Nat /\ DOMAIN s = 1 .. Len(s)
      /\ \A i \in DOMAIN s : s[i] \in E
    BY LenProperties, ElementOfSeq
<1>2. IsFiniteSet(S) /\ AreNumbers(S)
  <2>1. IsFiniteSet(1 .. Len(s))
    BY <1>1, FS_Interval
  <2>2. S \in SUBSET (1 .. Len(s))
    BY <1>1
  <2>3. QED
    BY <1>1, <2>1, <2>2, FS_Subset DEF AreNumbers
<1> DEFINE n == Cardinality(S)
<1>3. /\ n \in Nat
      /\ \A k \in 1 .. n : Nth(S, k) \in S
      /\ \A j, k \in 1 .. n : Nth(S, j) = Nth(S, k) => j = k
      /\ \A x \in S : \E k \in 1 .. n : Nth(S, k) = x
    BY <1>2, NthProperties
<1>4. /\ Picked(s, S) = [k \in 1 .. n |-> s[Nth(S, k)]]
      /\ DOMAIN Picked(s, S) = 1 .. n
    BY DEF Picked
<1> HIDE DEF n
<1>5. Picked(s, S) \in Seq(E)
  <2>1. Picked(s, S) \in [1 .. n -> E]
    BY <1>1, <1>3, <1>4
  <2>2. QED
    BY <1>3, <2>1, SeqDef
<1>6. Range(Picked(s, S)) = {s[i] : i \in S}
    BY <1>3, <1>4 DEF Range
<1>7. ASSUME NEW j \in 1 .. n
      PROVE  \E i \in S : /\ Picked(s, S)[j] = s[i]
                          /\ \A k \in 1 .. n :
                                Picked(s, S)[k] = s[i] /\ Distinct(s) => j = k
  <2>1. Nth(S, j) \in S /\ Picked(s, S)[j] = s[Nth(S, j)]
    BY <1>3, <1>4
  <2>2. ASSUME NEW k \in 1 .. n, Picked(s, S)[k] = s[Nth(S, j)], Distinct(s)
        PROVE  j = k
    <3>1. Nth(S, k) \in S /\ s[Nth(S, k)] = s[Nth(S, j)]
      BY <1>3, <1>4, <2>2
    <3>2. Nth(S, k) = Nth(S, j)
      BY <2>1, <2>2, <3>1 DEF Distinct
    <3>3. QED
      BY <1>3, <3>2
  <2>3. QED
    BY <2>1, <2>2
<1>8. QED
    BY <1>4, <1>5, <1>6, <1>7
-----------------------------------------------------------------------------
(* Counts. *)

\* A page is as often in a family of tables as tables of the family hold it.
LEMMA FamilyTimes ==
    ASSUME NEW tables, NEW p, IsFiniteSet(DOMAIN tables),
           \A k \in DOMAIN tables : Distinct(tables[k])
    PROVE  Times(p, tables) = Cardinality({k \in DOMAIN tables : p \in Range(tables[k])})
<1> DEFINE P == Places(p, tables)
           K == {k \in DOMAIN tables : p \in Range(tables[k])}
           f == [x \in P |-> x[1]]
<1>1. IsFiniteSet(K)
    BY FS_Subset
<1>2. ASSUME NEW x \in P
      PROVE  /\ x[1] \in DOMAIN tables /\ x[2] \in DOMAIN tables[x[1]]
             /\ x = <<x[1], x[2]>> /\ tables[x[1]][x[2]] = p
    BY DEF Places
<1>3. \A x \in P : x[1] \in K
    BY <1>2 DEF Range
<1>4. ASSUME NEW x \in P, NEW y \in P, x[1] = y[1]
      PROVE  x = y
    BY <1>2, <1>4 DEF Distinct
<1>5. ASSUME NEW k \in K
      PROVE  \E x \in P : x[1] = k
  <2>1. PICK i \in DOMAIN tables[k] : tables[k][i] = p
    BY DEF Range
  <2>2. <<k, i>> \in P
    BY <2>1 DEF Places
  <2>3. QED
    BY <2>2
<1> HIDE DEF P, K
<1>6. f \in Injection(P, K)
    BY <1>3, <1>4 DEF Injection, IsInjective
<1>7. f \in Surjection(P, K)
    BY <1>3, <1>5 DEF Surjection
<1>8. Cardinality(P) = Cardinality(K)
    BY <1>1, <1>6, <1>7, FS_Injection
<1>9. QED
    BY <1>8 DEF Times, P, K

\* A page is in a table once or not at all.
LEMMA TableTimes ==
    ASSUME NEW pages, NEW p, Distinct(pages)
    PROVE  Times(p, <<pages>>) = IF p \in Range(pages) THEN 1 ELSE 0
<1> DEFINE tables == <<pages>>
           K      == {k \in DOMAIN tables : p \in Range(tables[k])}
<1>1. DOMAIN tables = {1} /\ tables[1] = pages
    OBVIOUS
<1>2. K = IF p \in Range(pages) THEN {1} ELSE {}
    BY <1>1
<1>3. IsFiniteSet(DOMAIN tables) /\ \A k \in DOMAIN tables : Distinct(tables[k])
    BY <1>1, FS_Singleton
<1>4. Cardinality({1}) = 1 /\ Cardinality({}) = 0
    BY FS_Singleton, FS_EmptySet
<1> HIDE DEF tables
<1>5. Times(p, tables) = Cardinality(K)
    BY <1>3, FamilyTimes
<1> HIDE DEF K
<1>6. QED
    BY <1>2, <1>4, <1>5 DEF tables

\* Entries that hold page p.
EntriesOf(cache, p) == {e \in Range(cache) : p \in Range(e.pages)}

\* Every prompt is there once, with as many pages as it needs, each once.
CacheOK(cache) ==
    /\ cache \in Seq(Entry)
    /\ \A i, j \in DOMAIN cache : cache[i].prompt = cache[j].prompt => i = j
    /\ \A e \in Range(cache) : Distinct(e.pages) /\ Len(e.pages) = PagesFor(Len(e.prompt))

\* Every page is counted once for each entry that holds it, besides "holders[p]"
\* counts of others.
Sound(kv, holders) ==
    /\ kv \in Kv
    /\ CacheOK(kv.cache)
    /\ holders \in [Pages -> Nat]
    /\ \A p \in Pages : kv.refs[p] = holders[p] + Cardinality(EntriesOf(kv.cache, p))

\* One more holder of these pages.
Plus(holders, pages) ==
    [p \in Pages |-> holders[p] + (IF p \in Range(pages) THEN 1 ELSE 0)]

LEMMA EntriesAreFinite ==
    ASSUME NEW cache, CacheOK(cache)
    PROVE  /\ Range(cache) \subseteq Entry /\ IsFiniteSet(Range(cache))
           /\ \A p : /\ IsFiniteSet(EntriesOf(cache, p))
                     /\ Cardinality(EntriesOf(cache, p)) \in Nat
<1>1. cache \in Seq(Entry)
    BY DEF CacheOK
<1>2. Len(cache) \in Nat /\ DOMAIN cache = 1 .. Len(cache) /\ Range(cache) \subseteq Entry
      /\ cache \in [1 .. Len(cache) -> Entry]
    BY <1>1, LenProperties, RangeOfSeq
<1>3. cache \in Surjection(1 .. Len(cache), Range(cache))
    BY <1>2 DEF Surjection, Range
<1>4. IsFiniteSet(1 .. Len(cache))
    BY <1>2, FS_Interval
<1>5. IsFiniteSet(Range(cache))
    BY <1>3, <1>4, FS_Surjection
<1>6. ASSUME NEW p
      PROVE  IsFiniteSet(EntriesOf(cache, p)) /\ Cardinality(EntriesOf(cache, p)) \in Nat
  <2>1. EntriesOf(cache, p) \in SUBSET Range(cache)
    BY DEF EntriesOf
  <2>2. IsFiniteSet(EntriesOf(cache, p))
    BY <1>5, <2>1, FS_Subset
  <2>3. QED
    BY <2>2, FS_CardinalityType
<1>7. QED
    BY <1>2, <1>5, <1>6
-----------------------------------------------------------------------------
(* The pool. *)

LEMMA RetainSound ==
    ASSUME NEW kv, NEW holders, Sound(kv, holders), NEW pages, Distinct(pages)
    PROVE  Sound(RetainPages(kv, pages), Plus(holders, pages))
<1> DEFINE one(p) == IF p \in Range(pages) THEN 1 ELSE 0
           refs   == [p \in Pages |-> kv.refs[p] + Times(p, <<pages>>)]
<1>1. \A p \in Pages : Times(p, <<pages>>) = one(p) /\ one(p) \in Nat
    BY TableTimes
<1>2. /\ kv.refs \in [Pages -> Nat] /\ kv.cache \in Seq(Entry) /\ CacheOK(kv.cache)
      /\ holders \in [Pages -> Nat]
      /\ \A p \in Pages : kv.refs[p] = holders[p] + Cardinality(EntriesOf(kv.cache, p))
      /\ \A p \in Pages : Cardinality(EntriesOf(kv.cache, p)) \in Nat
    BY EntriesAreFinite DEF Sound, Kv
<1>3. RetainPages(kv, pages) = [refs |-> refs, cache |-> kv.cache]
    BY DEF RetainPages
<1>4. \A p \in Pages : refs[p] = kv.refs[p] + one(p)
    BY <1>1
<1>5. Plus(holders, pages) = [p \in Pages |-> holders[p] + one(p)]
    BY DEF Plus
<1> HIDE DEF one
<1>6. /\ Plus(holders, pages) \in [Pages -> Nat] /\ refs \in [Pages -> Nat]
      /\ \A p \in Pages : Plus(holders, pages)[p] = holders[p] + one(p)
  <2>1. ASSUME NEW p \in Pages
        PROVE  holders[p] + one(p) \in Nat /\ kv.refs[p] + Times(p, <<pages>>) \in Nat
    <3>1. holders[p] \in Nat /\ kv.refs[p] \in Nat
      BY <1>2
    <3>2. one(p) \in Nat /\ Times(p, <<pages>>) \in Nat
      BY <1>1
    <3>3. QED
      BY <3>1, <3>2
  <2>2. refs \in [Pages -> Nat]
    BY <2>1
  <2>3. Plus(holders, pages) \in [Pages -> Nat]
    BY <1>5, <2>1
  <2>4. QED
    BY <1>5, <2>2, <2>3
<1> HIDE DEF refs
<1>7. \A p \in Pages : refs[p] = Plus(holders, pages)[p] + Cardinality(EntriesOf(kv.cache, p))
    BY <1>1, <1>2, <1>4, <1>6
<1>8. QED
    BY <1>2, <1>3, <1>6, <1>7 DEF Sound, Kv

LEMMA ReleaseTablesSound ==
    ASSUME NEW kv, NEW holders, Sound(kv, holders),
           NEW tables, IsFiniteSet(DOMAIN tables), \A k \in DOMAIN tables : Distinct(tables[k]),
           NEW rest \in [Pages -> Nat],
           \A p \in Pages :
              holders[p] = rest[p] + Cardinality({k \in DOMAIN tables : p \in Range(tables[k])})
    PROVE  Sound(ReleaseTables(kv, tables), rest)
<1> DEFINE times(p) == Cardinality({k \in DOMAIN tables : p \in Range(tables[k])})
           refs     == [p \in Pages |-> kv.refs[p] - Times(p, tables)]
<1>1. \A p \in Pages : Times(p, tables) = times(p) /\ times(p) \in Nat
  <2>1. \A p : IsFiniteSet({k \in DOMAIN tables : p \in Range(tables[k])})
    BY FS_Subset
  <2>2. QED
    BY <2>1, FamilyTimes, FS_CardinalityType
<1>2. /\ kv.refs \in [Pages -> Nat] /\ kv.cache \in Seq(Entry) /\ CacheOK(kv.cache)
      /\ holders \in [Pages -> Nat]
      /\ \A p \in Pages : kv.refs[p] = holders[p] + Cardinality(EntriesOf(kv.cache, p))
      /\ \A p \in Pages : Cardinality(EntriesOf(kv.cache, p)) \in Nat
    BY EntriesAreFinite DEF Sound, Kv
<1>3. ReleaseTables(kv, tables) = [refs |-> refs, cache |-> kv.cache]
    BY DEF ReleaseTables
<1>4. \A p \in Pages : holders[p] = rest[p] + times(p)
    OBVIOUS
<1>5. \A p \in Pages : refs[p] = kv.refs[p] - times(p)
    BY <1>1
<1> HIDE DEF times
<1>6. \A p \in Pages : refs[p] = rest[p] + Cardinality(EntriesOf(kv.cache, p))
    BY <1>1, <1>2, <1>4, <1>5
<1>7. refs \in [Pages -> Nat]
  <2>1. \A p \in Pages : kv.refs[p] - Times(p, tables) \in Nat
    BY <1>1, <1>2, <1>4
  <2>2. QED
    BY <2>1
<1> HIDE DEF refs
<1>8. QED
    BY <1>2, <1>3, <1>6, <1>7 DEF Sound, Kv

LEMMA ReleaseSound ==
    ASSUME NEW kv, NEW holders \in [Pages -> Nat], NEW pages, Distinct(pages),
           Sound(kv, Plus(holders, pages))
    PROVE  Sound(ReleasePages(kv, pages), holders)
<1> DEFINE tables == <<pages>>
<1>1. DOMAIN tables = {1} /\ tables[1] = pages
    OBVIOUS
<1>2. IsFiniteSet(DOMAIN tables) /\ \A k \in DOMAIN tables : Distinct(tables[k])
    BY <1>1, FS_Singleton
<1>3. ASSUME NEW p \in Pages
      PROVE  Plus(holders, pages)[p] =
                holders[p] + Cardinality({k \in DOMAIN tables : p \in Range(tables[k])})
  <2>1. {k \in DOMAIN tables : p \in Range(tables[k])} = IF p \in Range(pages) THEN {1} ELSE {}
    BY <1>1
  <2>2. Cardinality({1}) = 1 /\ Cardinality({}) = 0
    BY FS_Singleton, FS_EmptySet
  <2>3. Cardinality({k \in DOMAIN tables : p \in Range(tables[k])})
          = IF p \in Range(pages) THEN 1 ELSE 0
    BY <2>1, <2>2
  <2>4. QED
    BY <2>3 DEF Plus
<1> HIDE DEF tables
<1>4. Sound(ReleaseTables(kv, tables), holders)
    BY <1>2, <1>3, ReleaseTablesSound
<1>5. QED
    BY <1>4 DEF ReleasePages, tables
-----------------------------------------------------------------------------
(* The prefix cache. *)

LEMMA EntryPlaces ==
    ASSUME NEW cache, CacheOK(cache)
    PROVE  /\ cache \in Seq(Entry) /\ IsFiniteSet(DOMAIN cache) /\ Distinct(cache)
           /\ \A i \in DOMAIN cache : /\ cache[i] \in Range(cache) /\ cache[i] \in Entry
                                      /\ Distinct(cache[i].pages)
<1>1. cache \in Seq(Entry)
    BY DEF CacheOK
<1>2. Len(cache) \in Nat /\ DOMAIN cache = 1 .. Len(cache)
    BY <1>1, LenProperties
<1>3. IsFiniteSet(DOMAIN cache)
    BY <1>2, FS_Interval
<1>4. Distinct(cache)
    BY DEF CacheOK, Distinct
<1>5. \A i \in DOMAIN cache : cache[i] \in Range(cache)
    BY DEF Range
<1>6. \A i \in DOMAIN cache : Distinct(cache[i].pages)
    BY <1>5 DEF CacheOK
<1>7. \A i \in DOMAIN cache : cache[i] \in Entry
    BY <1>5, EntriesAreFinite
<1>8. QED
    BY <1>1, <1>3, <1>4, <1>5, <1>6, <1>7

\* A part of the cache is a cache.
LEMMA PickedEntries ==
    ASSUME NEW cache, CacheOK(cache), NEW S, S \subseteq DOMAIN cache
    PROVE  /\ CacheOK(Picked(cache, S))
           /\ Range(Picked(cache, S)) = {cache[i] : i \in S}
           /\ Range(Picked(cache, S)) \subseteq Range(cache)
<1> DEFINE part == Picked(cache, S)
<1>1. cache \in Seq(Entry) /\ Distinct(cache)
    BY EntryPlaces
<1>2. /\ part \in Seq(Entry)
      /\ Range(part) = {cache[i] : i \in S}
      /\ \A j \in DOMAIN part : \E i \in S :
            /\ part[j] = cache[i]
            /\ \A k \in DOMAIN part : part[k] = cache[i] /\ Distinct(cache) => j = k
    BY <1>1, PickedProperties
<1> HIDE DEF part
<1>3. Range(part) \subseteq Range(cache)
    BY <1>2 DEF Range
<1>4. ASSUME NEW j \in DOMAIN part, NEW k \in DOMAIN part, part[j].prompt = part[k].prompt
      PROVE  j = k
  <2>1. PICK i \in S : /\ part[j] = cache[i]
                       /\ \A l \in DOMAIN part : part[l] = cache[i] /\ Distinct(cache) => j = l
    BY <1>2
  <2>2. PICK h \in S : part[k] = cache[h]
    BY <1>2
  <2>3. i = h
    BY <1>4, <2>1, <2>2 DEF CacheOK
  <2>4. QED
    BY <1>1, <2>1, <2>2, <2>3
<1>5. CacheOK(part)
    BY <1>2, <1>3, <1>4 DEF CacheOK
<1>6. QED
    BY <1>2, <1>3, <1>5 DEF part

\* The places of the entries that hold page p.
HoldersAt(cache, S, p) == {i \in S : p \in Range(cache[i].pages)}

\* The entries that hold a page are those in a part of the cache and those outside.
LEMMA EntriesSplit ==
    ASSUME NEW cache, CacheOK(cache), NEW S, S \subseteq DOMAIN cache, NEW p
    PROVE  Cardinality(EntriesOf(cache, p))
             = Cardinality(EntriesOf(Picked(cache, DOMAIN cache \ S), p))
               + Cardinality(HoldersAt(cache, S, p))
<1> DEFINE I == HoldersAt(cache, S, p)
           E == EntriesOf(cache, p)
           A == EntriesOf(Picked(cache, DOMAIN cache \ S), p)
           B == {e \in E : \E i \in S : e = cache[i]}
           f == [i \in I |-> cache[i]]
<1>1. /\ IsFiniteSet(DOMAIN cache) /\ Distinct(cache)
      /\ \A i \in DOMAIN cache : cache[i] \in Range(cache)
    BY EntryPlaces
<1>2. IsFiniteSet(E) /\ Cardinality(E) \in Nat
    BY EntriesAreFinite
<1>3. Range(Picked(cache, DOMAIN cache \ S)) = {cache[i] : i \in DOMAIN cache \ S}
  <2>1. DOMAIN cache \ S \subseteq DOMAIN cache
    OBVIOUS
  <2>2. QED
    BY <2>1, PickedEntries
<1>4. A = E \ B
  <2>1. \A e \in Range(cache) : \E i \in DOMAIN cache : e = cache[i]
    BY DEF Range
  <2>2. \A e \in A : e \in E /\ e \notin B
    BY <1>1, <1>3 DEF EntriesOf, Distinct
  <2>3. \A e \in E \ B : e \in A
    BY <1>3, <2>1 DEF EntriesOf
  <2>4. QED
    BY <2>2, <2>3
<1>5. IsFiniteSet(B) /\ Cardinality(A) = Cardinality(E) - Cardinality(B) /\ Cardinality(B) \in Nat
  <2>1. B \in SUBSET E /\ E \cap B = B
    OBVIOUS
  <2> HIDE DEF A, B, E
  <2>2. IsFiniteSet(B)
    BY <1>2, <2>1, FS_Subset
  <2>3. Cardinality(E \ B) = Cardinality(E) - Cardinality(B)
    BY <1>2, <2>1, FS_Difference
  <2>4. QED
    BY <1>4, <2>2, <2>3, FS_CardinalityType
<1>6. f \in Injection(I, B) /\ f \in Surjection(I, B)
  <2>1. \A i \in I : cache[i] \in B
    BY <1>1 DEF EntriesOf, HoldersAt
  <2>2. \A i, j \in I : cache[i] = cache[j] => i = j
    BY <1>1 DEF Distinct, HoldersAt
  <2>3. \A e \in B : \E i \in I : e = cache[i]
    BY DEF EntriesOf, HoldersAt
  <2> HIDE DEF I, B
  <2>4. QED
    BY <2>1, <2>2, <2>3 DEF Injection, Surjection, IsInjective
<1> HIDE DEF I, E, A, B, f
<1>7. Cardinality(I) = Cardinality(B)
    BY <1>5, <1>6, FS_Injection
<1>8. Cardinality(E) = Cardinality(A) + Cardinality(I)
    BY <1>2, <1>5, <1>7
<1>9. QED
    BY <1>8 DEF I, E, A

\* What is evicted gives its pages back.
LEMMA EvictSound ==
    ASSUME NEW kv, NEW holders, Sound(kv, holders), NEW n, NEW keep
    PROVE  /\ Sound(Evict(kv, n, keep), holders)
           /\ Range(Evict(kv, n, keep).cache) \subseteq Range(kv.cache)
<1> DEFINE cache  == kv.cache
           gone   == {i \in Evictable(kv, keep) :
                        Cardinality({j \in Evictable(kv, keep) : j < i}) < n}
           left   == Picked(cache, DOMAIN cache \ gone)
           tables == [i \in gone |-> cache[i].pages]
           times(p) == Cardinality(HoldersAt(cache, gone, p))
           more   == [p \in Pages |-> holders[p] + times(p)]
           middle == [refs |-> kv.refs, cache |-> left]
<1>1. gone \subseteq DOMAIN cache
    BY DEF Evictable
<1>2. Evict(kv, n, keep) = ReleaseTables([kv EXCEPT !.cache = left], tables)
    BY DEF Evict
<1>3. /\ kv = [refs |-> kv.refs, cache |-> cache] /\ kv.refs \in [Pages -> Nat]
      /\ CacheOK(cache) /\ holders \in [Pages -> Nat]
      /\ \A p \in Pages : kv.refs[p] = holders[p] + Cardinality(EntriesOf(cache, p))
    BY DEF Sound, Kv
<1> HIDE DEF gone, left
<1>4. [kv EXCEPT !.cache = left] = middle
    BY <1>3
<1>5. /\ IsFiniteSet(DOMAIN cache)
      /\ \A i \in DOMAIN cache : Distinct(cache[i].pages)
    BY <1>3, EntryPlaces
<1>6. CacheOK(left) /\ Range(left) \subseteq Range(cache)
  <2>1. DOMAIN cache \ gone \subseteq DOMAIN cache
    OBVIOUS
  <2>2. QED
    BY <1>3, <2>1, PickedEntries DEF left
<1>7. IsFiniteSet(gone)
    BY <1>1, <1>5, FS_Subset
<1>8. ASSUME NEW p \in Pages
      PROVE  /\ times(p) \in Nat
             /\ Cardinality(EntriesOf(cache, p)) = Cardinality(EntriesOf(left, p)) + times(p)
             /\ Cardinality(EntriesOf(left, p)) \in Nat
  <2>1. IsFiniteSet(HoldersAt(cache, gone, p))
    BY <1>7, FS_Subset DEF HoldersAt
  <2>2. times(p) \in Nat
    BY <2>1, FS_CardinalityType
  <2>3. Cardinality(EntriesOf(cache, p)) = Cardinality(EntriesOf(left, p)) + times(p)
    <3>1. CacheOK(cache) /\ gone \subseteq DOMAIN cache
      BY <1>1, <1>3
    <3> HIDE DEF cache
    <3>2. Cardinality(EntriesOf(cache, p))
            = Cardinality(EntriesOf(Picked(cache, DOMAIN cache \ gone), p)) + times(p)
      BY <3>1, EntriesSplit
    <3>3. QED
      BY <3>2 DEF left
  <2>4. QED
    BY <1>6, <2>2, <2>3, EntriesAreFinite
<1> HIDE DEF times, cache
<1>9. more \in [Pages -> Nat] /\ \A p \in Pages : more[p] = holders[p] + times(p)
  <2>1. ASSUME NEW p \in Pages PROVE holders[p] + times(p) \in Nat
    BY <1>3, <1>8
  <2>2. QED
    BY <2>1
<1> HIDE DEF more
<1>10. Sound(middle, more)
  <2>1. ASSUME NEW p \in Pages
        PROVE  kv.refs[p] = more[p] + Cardinality(EntriesOf(left, p))
    <3>1. holders[p] \in Nat /\ kv.refs[p] \in Nat
      BY <1>3
    <3>2. QED
      BY <1>3, <1>8, <1>9, <3>1
  <2>2. middle.refs = kv.refs /\ middle.cache = left /\ middle \in Kv
    BY <1>3, <1>6 DEF Kv, CacheOK
  <2> HIDE DEF middle
  <2>3. QED
    BY <1>6, <1>9, <2>1, <2>2 DEF Sound
<1> HIDE DEF middle
<1>11. /\ DOMAIN tables = gone
       /\ \A k \in gone : tables[k] = cache[k].pages
    OBVIOUS
<1> HIDE DEF tables
<1>12. Sound(ReleaseTables(middle, tables), holders)
  <2>1. IsFiniteSet(DOMAIN tables) /\ \A k \in DOMAIN tables : Distinct(tables[k])
    BY <1>1, <1>5, <1>7, <1>11
  <2>2. \A p : {k \in DOMAIN tables : p \in Range(tables[k])} = HoldersAt(cache, gone, p)
    BY <1>11 DEF HoldersAt
  <2>3. \A p \in Pages :
           more[p] = holders[p] + Cardinality({k \in DOMAIN tables : p \in Range(tables[k])})
    BY <1>9, <2>2 DEF times
  <2>4. QED
    BY <1>3, <1>10, <2>1, <2>3, ReleaseTablesSound
<1>13. Evict(kv, n, keep).cache = left
    BY <1>2, <1>4 DEF ReleaseTables, middle
<1>14. QED
    BY <1>2, <1>4, <1>6, <1>12, <1>13 DEF cache

LEMMA PressedSound ==
    ASSUME NEW kv, NEW holders, Sound(kv, holders), NEW n, NEW keep
    PROVE  /\ Sound(Pressed(kv, n, keep), holders)
           /\ Range(Pressed(kv, n, keep).cache) \subseteq Range(kv.cache)
<1>1. \E k : Pressed(kv, n, keep) = Evict(kv, k, keep)
    BY DEF Pressed
<1>2. QED
    BY <1>1, EvictSound
-----------------------------------------------------------------------------
(* Pages that are handed out. *)

\* Nobody holds the page.
Unheld(cache, holders, p) == holders[p] = 0 /\ EntriesOf(cache, p) = {}

\* What an operation on kv hands out, when it succeeds, has one more holder.
Lawful(result, kv, holders) ==
    /\ result.ok \in BOOLEAN
    /\ result.pages \in Seq(Pages) /\ Distinct(result.pages)
    /\ Range(result.kv.cache) \subseteq Range(kv.cache)
    /\ Sound(result.kv, IF result.ok THEN Plus(holders, result.pages) ELSE holders)

LEMMA PagesAreNumbers == AreNumbers(Pages) /\ IsFiniteSet(Pages)
BY KvAssumption, FS_Interval DEF Pages, AreNumbers

LEMMA TablesAreTyped ==
    ASSUME NEW pages \in Seq(Pages)
    PROVE  /\ Len(pages) \in Nat /\ DOMAIN pages = 1 .. Len(pages)
           /\ \A i \in 1 .. Len(pages) : pages[i] \in Pages /\ pages[i] \in Range(pages)
           /\ Range(pages) \subseteq Pages
<1>1. Len(pages) \in Nat /\ DOMAIN pages = 1 .. Len(pages)
    BY LenProperties
<1>2. \A i \in 1 .. Len(pages) : pages[i] \in Pages
    BY ElementOfSeq
<1>3. QED
    BY <1>1, <1>2 DEF Range

\* Fewer entries hold less.
LEMMA UnheldStays ==
    ASSUME NEW cache, NEW less, Range(less) \subseteq Range(cache), NEW holders, NEW p,
           Unheld(cache, holders, p)
    PROVE  Unheld(less, holders, p)
BY DEF Unheld, EntriesOf

LEMMA PlusType ==
    ASSUME NEW holders \in [Pages -> Nat], NEW pages
    PROVE  Plus(holders, pages) \in [Pages -> Nat]
BY DEF Plus

LEMMA TakenProperties ==
    ASSUME NEW kv, NEW n \in Int, Fits(kv, n)
    PROVE  /\ Taken(kv, n) \in Seq(Pages)
           /\ Len(Taken(kv, n)) = IF n > 0 THEN n ELSE 0
           /\ Distinct(Taken(kv, n))
           /\ \A p \in Range(Taken(kv, n)) : p \in Pages /\ kv.refs[p] = 0
<1> DEFINE free == Free(kv)
           m    == IF n > 0 THEN n ELSE 0
           took == Taken(kv, n)
<1>1. IsFiniteSet(free) /\ AreNumbers(free) /\ free \subseteq Pages
  <2>1. free \in SUBSET Pages
    BY DEF Free
  <2>2. QED
    BY <2>1, PagesAreNumbers, FS_Subset DEF AreNumbers
<1>2. m \in Nat /\ 1 .. n = 1 .. m /\ n <= Cardinality(free)
    BY DEF Fits
<1>3. /\ Cardinality(free) \in Nat
      /\ \A k \in 1 .. Cardinality(free) : Nth(free, k) \in free
      /\ \A j, k \in 1 .. Cardinality(free) : Nth(free, j) = Nth(free, k) => j = k
  <2> HIDE DEF free
  <2>1. QED
    BY <1>1, NthProperties
<1>4. \A k \in 1 .. m : k \in 1 .. Cardinality(free)
    BY <1>2, <1>3
<1>5. took = [k \in 1 .. m |-> Nth(free, k)]
    BY <1>2 DEF Taken
<1> HIDE DEF m
<1>6. took \in [1 .. m -> Pages] /\ DOMAIN took = 1 .. m
    BY <1>1, <1>3, <1>4, <1>5
<1>7. took \in Seq(Pages)
    BY <1>2, <1>6, SeqDef
<1>8. Len(took) = m
  <2>1. Len(took) \in Nat /\ DOMAIN took = 1 .. Len(took)
    BY <1>7, LenProperties
  <2>2. QED
    BY <1>2, <1>6, <2>1
<1>9. Distinct(took)
    BY <1>3, <1>4, <1>5, <1>6 DEF Distinct
<1>10. \A p \in Range(took) : p \in free
    BY <1>3, <1>4, <1>5, <1>6 DEF Range
<1>11. QED
    BY <1>7, <1>8, <1>9, <1>10 DEF m, Free

\* A page that is not counted is held by nobody.
LEMMA FreeIsUnheld ==
    ASSUME NEW kv, NEW holders, Sound(kv, holders), NEW p \in Pages, kv.refs[p] = 0
    PROVE  Unheld(kv.cache, holders, p)
<1>1. /\ CacheOK(kv.cache) /\ holders[p] \in Nat
      /\ kv.refs[p] = holders[p] + Cardinality(EntriesOf(kv.cache, p))
    BY DEF Sound
<1>2. IsFiniteSet(EntriesOf(kv.cache, p)) /\ Cardinality(EntriesOf(kv.cache, p)) \in Nat
    BY <1>1, EntriesAreFinite
<1>3. holders[p] = 0 /\ Cardinality(EntriesOf(kv.cache, p)) = 0
    BY <1>1, <1>2
<1>4. QED
    BY <1>2, <1>3, FS_EmptySet DEF Unheld

\* New pages are nobody else's.
LEMMA ObtainSound ==
    ASSUME NEW kv, NEW holders, Sound(kv, holders), NEW n \in Int, NEW keep,
           NEW result, result = Obtain(kv, n, keep)
    PROVE  /\ Lawful(result, kv, holders)
           /\ result.ok => /\ Len(result.pages) = IF n > 0 THEN n ELSE 0
                           /\ \A p \in Range(result.pages) :
                                 Unheld(result.kv.cache, holders, p)
<1> DEFINE state == Pressed(kv, n, keep)
           took  == Taken(state, n)
<1>1. Sound(state, holders) /\ Range(state.cache) \subseteq Range(kv.cache)
    BY PressedSound
<1>2. result = Granted(state, n)
    BY DEF Obtain
<1> HIDE DEF state
<1>3. CASE Fits(state, n)
  <2>1. result = [ok |-> TRUE, kv |-> Allocate(state, n), pages |-> took]
    BY <1>2, <1>3 DEF Granted
  <2>2. /\ took \in Seq(Pages) /\ Distinct(took)
        /\ Len(took) = IF n > 0 THEN n ELSE 0
        /\ \A p \in Range(took) : p \in Pages /\ state.refs[p] = 0
    BY <1>3, TakenProperties
  <2>3. Allocate(state, n) = RetainPages(state, took)
    BY DEF Allocate
  <2> HIDE DEF took
  <2>4. Sound(RetainPages(state, took), Plus(holders, took))
    BY <1>1, <2>2, RetainSound
  <2>5. RetainPages(state, took).cache = state.cache
    BY DEF RetainPages
  <2>6. \A p \in Range(took) : Unheld(state.cache, holders, p)
    BY <1>1, <2>2, FreeIsUnheld
  <2>7. /\ result.ok = TRUE /\ result.pages = took
        /\ result.kv = RetainPages(state, took)
    BY <2>1, <2>3
  <2>8. QED
    BY <1>1, <2>2, <2>4, <2>5, <2>6, <2>7 DEF Lawful
<1>4. CASE ~Fits(state, n)
  <2>1. result = [ok |-> FALSE, kv |-> state, pages |-> <<>>]
    BY <1>2, <1>4 DEF Granted, Refused
  <2>2. result.ok = FALSE /\ result.kv = state /\ result.pages = <<>>
    BY <2>1
  <2>3. <<>> \in Seq(Pages) /\ Distinct(<<>>)
    BY EmptySeq DEF Distinct
  <2>4. QED
    BY <1>1, <2>2, <2>3 DEF Lawful
<1>5. QED
    BY <1>3, <1>4
-----------------------------------------------------------------------------
(* Copies. *)

LEMMA PagesForSize ==
    ASSUME NEW tokens \in Nat
    PROVE  /\ PagesFor(tokens) \in Nat /\ tokens <= PagesFor(tokens) * PageTokens
           /\ tokens \div PageTokens \in Nat /\ tokens % PageTokens \in Nat
           /\ tokens % PageTokens = 0 => PagesFor(tokens) = tokens \div PageTokens
           /\ tokens % PageTokens # 0 => PagesFor(tokens) = tokens \div PageTokens + 1
<1> DEFINE size == PageTokens
           q    == tokens \div size
           r    == tokens % size
           n    == PagesFor(tokens)
<1>1. size \in Nat /\ size >= 1
    BY KvAssumption
<1>2. q \in Int /\ r \in Int /\ tokens = size * q + r /\ 0 <= r /\ r < size
    BY <1>1
<1>3. n \in Int /\ size * n <= tokens + size - 1 /\ tokens + size - 1 < size * n + size
    BY <1>1 DEF PagesFor
<1> HIDE DEF q, r, n, size
<1>4. q >= 0
  <2>1. SUFFICES ASSUME q <= -1 PROVE FALSE
    BY <1>2
  <2>2. size * q <= -size
    BY <1>1, <1>2, <2>1
  <2>3. QED
    BY <1>1, <1>2, <2>2
<1>5. r = 0 => n = q
  <2>1. SUFFICES ASSUME r = 0 PROVE n = q
    OBVIOUS
  <2>2. size * n <= size * q + size - 1 /\ size * q - 1 < size * n
    BY <1>1, <1>2, <1>3, <2>1
  <2>3. n < q + 1
    BY <1>1, <1>2, <1>3, <2>2
  <2>4. n > q - 1
    BY <1>1, <1>2, <1>3, <2>2
  <2>5. QED
    BY <1>2, <1>3, <2>3, <2>4
<1>6. r # 0 => n = q + 1
  <2>1. SUFFICES ASSUME r # 0 PROVE n = q + 1
    OBVIOUS
  <2>2. size * n < size * q + 2 * size /\ size * q < size * n
    BY <1>1, <1>2, <1>3, <2>1
  <2>3. n < q + 2
    BY <1>1, <1>2, <1>3, <2>2
  <2>4. n > q
    BY <1>1, <1>2, <1>3, <2>2
  <2>5. QED
    BY <1>2, <1>3, <2>3, <2>4
<1>7. n \in Nat /\ tokens <= n * size
  <2>1. tokens <= size * n
    BY <1>1, <1>2, <1>3
  <2>2. size * n = n * size
    BY <1>1, <1>3
  <2>3. QED
    BY <1>2, <1>3, <1>4, <1>5, <1>6, <2>1, <2>2
<1>8. QED
    BY <1>2, <1>4, <1>5, <1>6, <1>7 DEF q, r, n, size

\* The last page of a table is replaced.
LEMMA LastReplaced ==
    ASSUME NEW pages \in Seq(Pages), Distinct(pages), pages # <<>>,
           NEW page \in Pages, page \notin Range(pages)
    PROVE  /\ Front(pages) \o <<page>> \in Seq(Pages)
           /\ Len(Front(pages) \o <<page>>) = Len(pages)
           /\ \A i \in 1 .. Len(pages) - 1 : (Front(pages) \o <<page>>)[i] = pages[i]
           /\ (Front(pages) \o <<page>>)[Len(pages)] = page
           /\ Distinct(Front(pages) \o <<page>>)
           /\ Last(pages) \in Pages
           /\ \A p : p \in Range(Front(pages) \o <<page>>) \/ p = Last(pages)
                        <=> p \in Range(pages) \/ p = page
           /\ Last(pages) \notin Range(Front(pages) \o <<page>>)
<1> DEFINE n     == Len(pages)
           front == Front(pages)
           new   == front \o <<page>>
<1>1. /\ n \in Nat /\ n >= 1 /\ DOMAIN pages = 1 .. n
      /\ \A i \in 1 .. n : pages[i] \in Pages /\ pages[i] \in Range(pages)
    BY TablesAreTyped, EmptySeq
<1>2. front = SubSeq(pages, 1, n - 1) /\ Last(pages) = pages[n]
    BY DEF Front, Last
<1>3. front \in Seq(Pages) /\ Len(front) = n - 1 /\ \A i \in 1 .. n - 1 : front[i] = pages[i]
  <2>1. \A i \in 1 .. n - 1 : pages[i] \in Pages
    BY <1>1
  <2>2. n - 1 \in Int /\ (IF 1 <= n - 1 THEN n - 1 - 1 + 1 ELSE 0) = n - 1
    BY <1>1
  <2>3. /\ SubSeq(pages, 1, n - 1) \in Seq(Pages)
        /\ Len(SubSeq(pages, 1, n - 1)) = IF 1 <= n - 1 THEN n - 1 - 1 + 1 ELSE 0
        /\ \A i \in 1 .. n - 1 - 1 + 1 : SubSeq(pages, 1, n - 1)[i] = pages[1 + i - 1]
    BY <2>1, <2>2, SubSeqProperties
  <2>4. \A i \in 1 .. n - 1 : i \in 1 .. n - 1 - 1 + 1 /\ 1 + i - 1 = i
    BY <1>1
  <2>5. QED
    BY <1>2, <2>2, <2>3, <2>4
<1>4. <<page>> \in Seq(Pages) /\ Len(<<page>>) = 1 /\ <<page>>[1] = page
    OBVIOUS
<1> HIDE DEF n, front
<1>5. /\ new \in Seq(Pages) /\ Len(new) = n
      /\ \A i \in 1 .. n - 1 : new[i] = pages[i]
      /\ new[n] = page
  <2>1. /\ new \in Seq(Pages)
        /\ Len(new) = Len(front) + Len(<<page>>)
        /\ \A i \in 1 .. Len(front) + Len(<<page>>) :
              new[i] = IF i <= Len(front) THEN front[i] ELSE <<page>>[i - Len(front)]
    BY <1>3, <1>4, ConcatProperties
  <2>2. Len(front) + Len(<<page>>) = n /\ n - Len(front) = 1
    BY <1>1, <1>3, <1>4
  <2>3. QED
    BY <1>1, <1>3, <1>4, <2>1, <2>2
<1> HIDE DEF new
<1>6. DOMAIN new = 1 .. n
    BY <1>5, LenProperties
<1>7. Distinct(new)
  <2>1. \A i \in 1 .. n : i = n \/ (i \in 1 .. n - 1 /\ new[i] = pages[i] /\ new[i] # page)
    BY <1>1, <1>5
  <2>2. QED
    BY <1>1, <1>5, <1>6, <2>1 DEF Distinct
<1>8. ASSUME NEW p
      PROVE  p \in Range(new) \/ p = pages[n] <=> p \in Range(pages) \/ p = page
  <2>1. p \in Range(new) <=> \E i \in 1 .. n : p = new[i]
    BY <1>6 DEF Range
  <2>2. p \in Range(pages) <=> \E i \in 1 .. n : p = pages[i]
    BY <1>1 DEF Range
  <2>3. \A i \in 1 .. n : i = n \/ i \in 1 .. n - 1
    BY <1>1
  <2>4. QED
    BY <1>1, <1>5, <2>1, <2>2, <2>3
<1>9. pages[n] \notin Range(new)
  <2>1. ASSUME NEW i \in 1 .. n PROVE new[i] # pages[n]
    <3>1. CASE i = n
      BY <1>1, <1>5, <3>1
    <3>2. CASE i # n
      BY <1>1, <1>5, <3>2 DEF Distinct
    <3>3. QED
      BY <3>1, <3>2
  <2>2. QED
    BY <1>6, <2>1 DEF Range
<1>10. n \in 1 .. n /\ pages[n] \in Pages
    BY <1>1
<1>11. QED
    BY <1>2, <1>5, <1>7, <1>8, <1>9, <1>10 DEF n, front, new

\* "result" has these pages, but for the last if the prefix of so many tokens ends in
\* it, for which there is one that nobody holds.
Copied(result, holders, pages, tokens) ==
    /\ Len(result.pages) = Len(pages)
    /\ tokens % PageTokens = 0 => result.pages = pages
    /\ tokens % PageTokens # 0 =>
          /\ \A i \in 1 .. Len(pages) - 1 : result.pages[i] = pages[i]
          /\ Unheld(result.kv.cache, holders, result.pages[Len(pages)])

\* The copy is nobody else's, and it is counted in place of the page it copies.
LEMMA CopyLastSound ==
    ASSUME NEW kv, NEW holders \in [Pages -> Nat], NEW pages \in Seq(Pages), Distinct(pages),
           Sound(kv, Plus(holders, pages)),
           NEW tokens, tokens % PageTokens # 0 => pages # <<>>, NEW keep,
           NEW result, result = CopyLast(kv, pages, tokens, keep)
    PROVE  /\ Lawful(result, kv, holders)
           /\ result.ok => Copied(result, holders, pages, tokens)
<1>1. CASE tokens % PageTokens = 0
  <2>1. result = [ok |-> TRUE, kv |-> kv, pages |-> pages]
    BY <1>1 DEF CopyLast
  <2>2. result.ok = TRUE /\ result.kv = kv /\ result.pages = pages
    BY <2>1
  <2>3. QED
    BY <1>1, <2>2 DEF Lawful, Copied
<1>2. CASE tokens % PageTokens # 0
  <2> DEFINE copy == Obtain(kv, 1, keep)
             held == Plus(holders, pages)
  <2>1. /\ Lawful(copy, kv, held)
        /\ copy.ok => /\ Len(copy.pages) = 1
                      /\ \A p \in Range(copy.pages) : Unheld(copy.kv.cache, held, p)
    <3>1. Sound(kv, held) /\ 1 \in Int /\ 1 > 0 /\ copy = Obtain(kv, 1, keep)
      OBVIOUS
    <3> HIDE DEF held, copy
    <3>2. QED
      BY <3>1, ObtainSound
  <2>2. CASE ~copy.ok
    <3>1. result = [ok |-> FALSE, kv |-> ReleasePages(copy.kv, pages), pages |-> <<>>]
      BY <1>2, <2>2 DEF CopyLast, Refused
    <3>2. /\ result.ok = FALSE /\ result.kv = ReleasePages(copy.kv, pages)
          /\ result.pages = <<>>
      BY <3>1
    <3>3. Sound(copy.kv, held) /\ Range(copy.kv.cache) \subseteq Range(kv.cache)
      BY <2>1, <2>2 DEF Lawful
    <3> HIDE DEF copy
    <3>4. Sound(ReleasePages(copy.kv, pages), holders)
      BY <3>3, ReleaseSound
    <3>5. ReleasePages(copy.kv, pages).cache = copy.kv.cache
      BY DEF ReleasePages, ReleaseTables
    <3>6. <<>> \in Seq(Pages) /\ Distinct(<<>>)
      BY EmptySeq DEF Distinct
    <3>7. QED
      BY <3>2, <3>3, <3>4, <3>5, <3>6 DEF Lawful, Copied
  <2>3. CASE copy.ok
    <3> DEFINE page == copy.pages[1]
               last == Last(pages)
               new  == Front(pages) \o <<page>>
    <3>1. copy.pages \in Seq(Pages) /\ Len(copy.pages) = 1
      BY <2>1, <2>3 DEF Lawful
    <3>2. page \in Pages /\ page \in Range(copy.pages) /\ copy.pages = <<page>>
      <4>1. page \in Pages /\ page \in Range(copy.pages)
        BY <3>1, TablesAreTyped
      <4>2. <<page>> \in Seq(Pages) /\ Len(<<page>>) = 1 /\ <<page>>[1] = page
        BY <4>1
      <4> HIDE DEF copy
      <4>3. copy.pages = <<page>>
        BY <3>1, <4>2, SeqEqual
      <4>4. QED
        BY <4>1, <4>3
    <3>3. Unheld(copy.kv.cache, held, page)
      BY <2>1, <2>3, <3>2
    <3>4. holders[page] = 0 /\ page \notin Range(pages) /\ Unheld(copy.kv.cache, holders, page)
      <4>1. held[page] = 0 /\ holders[page] \in Nat
        BY <3>2, <3>3 DEF Unheld
      <4>2. held[page] = holders[page] + (IF page \in Range(pages) THEN 1 ELSE 0)
        BY <3>2 DEF Plus
      <4>3. QED
        BY <3>3, <4>1, <4>2 DEF Unheld
    <3>5. /\ result = [ok |-> TRUE, kv |-> ReleasePages(copy.kv, <<last>>),
                       pages |-> Front(pages) \o copy.pages]
      BY <1>2, <2>3 DEF CopyLast
    <3>6. /\ result.ok = TRUE /\ result.kv = ReleasePages(copy.kv, <<last>>)
          /\ result.pages = new
      <4> HIDE DEF copy, page
      <4>1. Front(pages) \o copy.pages = new
        BY <3>2
      <4> HIDE DEF new, last
      <4>2. QED
        BY <3>5, <4>1
    <3>7. Sound(copy.kv, Plus(held, <<page>>)) /\ Range(copy.kv.cache) \subseteq Range(kv.cache)
      BY <2>1, <2>3, <3>2 DEF Lawful
    <3> HIDE DEF copy, page, last, new
    <3>8. /\ new \in Seq(Pages) /\ Len(new) = Len(pages)
          /\ \A i \in 1 .. Len(pages) - 1 : new[i] = pages[i]
          /\ new[Len(pages)] = page
          /\ Distinct(new) /\ last \in Pages /\ last \notin Range(new)
          /\ \A p : p \in Range(new) \/ p = last <=> p \in Range(pages) \/ p = page
      BY <1>2, <3>2, <3>4, LastReplaced DEF new, last
    <3>9. Plus(held, <<page>>) = Plus(Plus(holders, new), <<last>>)
      <4>1. ASSUME NEW p \in Pages
            PROVE  Plus(held, <<page>>)[p] = Plus(Plus(holders, new), <<last>>)[p]
        <5>1. (p \in Range(<<page>>) <=> p = page) /\ (p \in Range(<<last>>) <=> p = last)
          BY DEF Range
        <5>2. holders[p] \in Nat
          OBVIOUS
        <5>3. Plus(held, <<page>>)[p] = holders[p] + (IF p \in Range(pages) THEN 1 ELSE 0)
                                                   + (IF p = page THEN 1 ELSE 0)
          BY <5>1 DEF Plus
        <5>4. Plus(Plus(holders, new), <<last>>)[p]
                = holders[p] + (IF p \in Range(new) THEN 1 ELSE 0) + (IF p = last THEN 1 ELSE 0)
          BY <5>1 DEF Plus
        <5>5. (p \in Range(pages) => p # page) /\ (p = last => p \notin Range(new))
          BY <3>4, <3>8
        <5>6. QED
          BY <3>8, <5>2, <5>3, <5>4, <5>5
      <4>2. QED
        BY <4>1 DEF Plus
    <3>10. Sound(ReleasePages(copy.kv, <<last>>), Plus(holders, new))
      <4>1. Distinct(<<last>>)
        BY DEF Distinct
      <4>2. Plus(holders, new) \in [Pages -> Nat]
        BY PlusType
      <4>3. Sound(copy.kv, Plus(Plus(holders, new), <<last>>))
        BY <3>7, <3>9
      <4>4. QED
        BY <4>1, <4>2, <4>3, ReleaseSound
    <3>11. result.kv.cache = copy.kv.cache
      BY <3>6 DEF ReleasePages, ReleaseTables
    <3>12. QED
      BY <1>2, <3>4, <3>6, <3>7, <3>8, <3>10, <3>11 DEF Lawful, Copied
  <2>4. QED
    BY <2>2, <2>3
<1>3. QED
    BY <1>1, <1>2
-----------------------------------------------------------------------------
(* Leases. *)

\* Two tables without a common page make one.
LEMMA Joined ==
    ASSUME NEW S, NEW a \in Seq(S), NEW b \in Seq(S), Distinct(a), Distinct(b),
           \A x \in Range(a) : x \notin Range(b)
    PROVE  /\ a \o b \in Seq(S) /\ Distinct(a \o b) /\ Len(a \o b) = Len(a) + Len(b)
           /\ Range(a \o b) = Range(a) \cup Range(b)
           /\ \A i \in 1 .. Len(a) + Len(b) :
                 \/ i \in 1 .. Len(a) /\ (a \o b)[i] = a[i]
                 \/ i > Len(a) /\ (a \o b)[i] \in Range(b)
<1> DEFINE c == a \o b
<1>1. /\ c \in Seq(S) /\ Len(c) = Len(a) + Len(b)
      /\ \A i \in 1 .. Len(a) + Len(b) : c[i] = IF i <= Len(a) THEN a[i] ELSE b[i - Len(a)]
    BY ConcatProperties
<1>2. Range(c) = Range(a) \cup Range(b)
    BY RangeConcatenation
<1>3. /\ Len(a) \in Nat /\ DOMAIN a = 1 .. Len(a)
      /\ Len(b) \in Nat /\ DOMAIN b = 1 .. Len(b)
      /\ DOMAIN c = 1 .. Len(c)
    BY <1>1, LenProperties
<1> HIDE DEF c
<1>4. ASSUME NEW i \in 1 .. Len(c)
      PROVE  \/ i \in 1 .. Len(a) /\ c[i] = a[i] /\ c[i] \in Range(a)
             \/ /\ i > Len(a) /\ i - Len(a) \in 1 .. Len(b)
                /\ c[i] = b[i - Len(a)] /\ c[i] \in Range(b)
  <2>1. CASE i <= Len(a)
    <3>1. i \in 1 .. Len(a) /\ c[i] = a[i]
      BY <1>1, <1>3, <2>1
    <3>2. QED
      BY <1>3, <3>1 DEF Range
  <2>2. CASE i > Len(a)
    <3>1. i - Len(a) \in 1 .. Len(b) /\ c[i] = b[i - Len(a)]
      BY <1>1, <1>3, <2>2
    <3>2. QED
      BY <1>3, <2>2, <3>1 DEF Range
  <2>3. QED
    BY <1>3, <2>1, <2>2
<1>5. ASSUME NEW i \in 1 .. Len(c), NEW j \in 1 .. Len(c), c[i] = c[j]
      PROVE  i = j
  <2>1. CASE i \in 1 .. Len(a) /\ j \in 1 .. Len(a) /\ c[i] = a[i] /\ c[j] = a[j]
    BY <1>3, <1>5, <2>1 DEF Distinct
  <2>2. CASE /\ i - Len(a) \in 1 .. Len(b) /\ c[i] = b[i - Len(a)]
             /\ j - Len(a) \in 1 .. Len(b) /\ c[j] = b[j - Len(a)]
    <3>1. i - Len(a) = j - Len(a)
      BY <1>3, <1>5, <2>2 DEF Distinct
    <3>2. QED
      BY <1>3, <3>1
  <2>3. ~(c[i] \in Range(a) /\ c[j] \in Range(b)) /\ ~(c[i] \in Range(b) /\ c[j] \in Range(a))
    BY <1>5
  <2>4. QED
    BY <1>4, <2>1, <2>2, <2>3
<1>6. Distinct(c)
    BY <1>3, <1>5 DEF Distinct
<1>7. QED
    BY <1>1, <1>2, <1>4, <1>6 DEF c

\* Holding a and then b is holding both.
LEMMA PlusJoined ==
    ASSUME NEW holders \in [Pages -> Nat], NEW a, NEW b, NEW c,
           Range(c) = Range(a) \cup Range(b), \A x \in Range(a) : x \notin Range(b)
    PROVE  Plus(Plus(holders, a), b) = Plus(holders, c)
<1>1. ASSUME NEW p \in Pages PROVE Plus(Plus(holders, a), b)[p] = Plus(holders, c)[p]
  <2>1. /\ Plus(Plus(holders, a), b)[p] = holders[p] + (IF p \in Range(a) THEN 1 ELSE 0)
                                                     + (IF p \in Range(b) THEN 1 ELSE 0)
        /\ Plus(holders, c)[p] = holders[p] + (IF p \in Range(c) THEN 1 ELSE 0)
    BY DEF Plus
  <2>2. holders[p] \in Nat /\ (p \in Range(c) <=> p \in Range(a) \/ p \in Range(b))
        /\ ~(p \in Range(a) /\ p \in Range(b))
    OBVIOUS
  <2>3. QED
    BY <2>1, <2>2
<1>2. QED
    BY <1>1 DEF Plus

\* So do caches without a common prompt.
LEMMA JoinedCaches ==
    ASSUME NEW a, NEW b, CacheOK(a), CacheOK(b),
           \A e \in Range(a), f \in Range(b) : e.prompt # f.prompt
    PROVE  CacheOK(a \o b) /\ Range(a \o b) = Range(a) \cup Range(b)
<1> DEFINE c == a \o b
<1>1. a \in Seq(Entry) /\ b \in Seq(Entry)
    BY DEF CacheOK
<1>2. /\ c \in Seq(Entry) /\ Len(c) = Len(a) + Len(b)
      /\ \A i \in 1 .. Len(a) + Len(b) : c[i] = IF i <= Len(a) THEN a[i] ELSE b[i - Len(a)]
    BY <1>1, ConcatProperties
<1>3. Range(c) = Range(a) \cup Range(b)
    BY <1>1, RangeConcatenation
<1>4. /\ Len(a) \in Nat /\ DOMAIN a = 1 .. Len(a)
      /\ Len(b) \in Nat /\ DOMAIN b = 1 .. Len(b)
      /\ DOMAIN c = 1 .. Len(c)
    BY <1>1, <1>2, LenProperties
<1> HIDE DEF c
<1>5. ASSUME NEW i \in 1 .. Len(c)
      PROVE  \/ i \in 1 .. Len(a) /\ c[i] = a[i] /\ c[i] \in Range(a)
             \/ /\ i - Len(a) \in 1 .. Len(b)
                /\ c[i] = b[i - Len(a)] /\ c[i] \in Range(b)
  <2>1. CASE i <= Len(a)
    <3>1. i \in 1 .. Len(a) /\ c[i] = a[i]
      BY <1>2, <1>4, <2>1
    <3>2. QED
      BY <1>4, <3>1 DEF Range
  <2>2. CASE i > Len(a)
    <3>1. i - Len(a) \in 1 .. Len(b) /\ c[i] = b[i - Len(a)]
      BY <1>2, <1>4, <2>2
    <3>2. QED
      BY <1>4, <3>1 DEF Range
  <2>3. QED
    BY <1>4, <2>1, <2>2
<1>6. ASSUME NEW i \in 1 .. Len(c), NEW j \in 1 .. Len(c), c[i].prompt = c[j].prompt
      PROVE  i = j
  <2>1. CASE i \in 1 .. Len(a) /\ j \in 1 .. Len(a) /\ c[i] = a[i] /\ c[j] = a[j]
    BY <1>4, <1>6, <2>1 DEF CacheOK
  <2>2. CASE /\ i - Len(a) \in 1 .. Len(b) /\ c[i] = b[i - Len(a)]
             /\ j - Len(a) \in 1 .. Len(b) /\ c[j] = b[j - Len(a)]
    <3>1. i - Len(a) = j - Len(a)
      BY <1>4, <1>6, <2>2 DEF CacheOK
    <3>2. QED
      BY <1>4, <3>1
  <2>3. ~(c[i] \in Range(a) /\ c[j] \in Range(b)) /\ ~(c[i] \in Range(b) /\ c[j] \in Range(a))
    BY <1>6
  <2>4. QED
    BY <1>5, <2>1, <2>2, <2>3
<1>7. \A e \in Range(c) : Distinct(e.pages) /\ Len(e.pages) = PagesFor(Len(e.prompt))
    BY <1>3 DEF CacheOK
<1>8. CacheOK(c)
    BY <1>2, <1>4, <1>6, <1>7 DEF CacheOK
<1>9. QED
    BY <1>3, <1>8 DEF c

\* The order of the entries does not count.
LEMMA SameEntries ==
    ASSUME NEW kv, NEW holders, Sound(kv, holders), NEW cache, CacheOK(cache),
           Range(cache) = Range(kv.cache)
    PROVE  /\ Sound([kv EXCEPT !.cache = cache], holders)
           /\ [kv EXCEPT !.cache = cache].cache = cache
<1> DEFINE new == [refs |-> kv.refs, cache |-> cache]
<1>1. /\ kv = [refs |-> kv.refs, cache |-> kv.cache] /\ kv.refs \in [Pages -> Nat]
      /\ holders \in [Pages -> Nat]
      /\ \A p \in Pages : kv.refs[p] = holders[p] + Cardinality(EntriesOf(kv.cache, p))
    BY DEF Sound, Kv
<1>2. [kv EXCEPT !.cache = cache] = new
    BY <1>1
<1>3. new.refs = kv.refs /\ new.cache = cache /\ new \in Kv
    BY <1>1 DEF Kv, CacheOK
<1>4. \A p : EntriesOf(cache, p) = EntriesOf(kv.cache, p)
    BY DEF EntriesOf
<1> HIDE DEF new
<1>5. Sound(new, holders)
    BY <1>1, <1>3, <1>4 DEF Sound
<1>6. QED
    BY <1>2, <1>3, <1>5

LEMMA TouchSound ==
    ASSUME NEW kv, NEW holders, Sound(kv, holders), NEW prompt
    PROVE  /\ Sound(Touch(kv, prompt), holders)
           /\ Range(Touch(kv, prompt).cache) = Range(kv.cache)
<1> DEFINE cache == kv.cache
           mine  == {i \in DOMAIN cache : cache[i].prompt = prompt}
           a     == Picked(cache, DOMAIN cache \ mine)
           b     == Picked(cache, mine)
<1>1. CacheOK(cache)
    BY DEF Sound
<1>2. /\ CacheOK(a) /\ CacheOK(b)
      /\ Range(a) = {cache[i] : i \in DOMAIN cache \ mine}
      /\ Range(b) = {cache[i] : i \in mine}
  <2>1. DOMAIN cache \ mine \subseteq DOMAIN cache /\ mine \subseteq DOMAIN cache
    OBVIOUS
  <2> HIDE DEF mine, cache
  <2>2. QED
    BY <1>1, <2>1, PickedEntries
<1>3. \A e \in Range(a), f \in Range(b) : e.prompt # f.prompt
    BY <1>2
<1>4. Range(a) \cup Range(b) = Range(cache)
    BY <1>2 DEF Range
<1> HIDE DEF a, b
<1>5. CacheOK(a \o b) /\ Range(a \o b) = Range(cache)
    BY <1>2, <1>3, <1>4, JoinedCaches
<1>6. Touch(kv, prompt) = [kv EXCEPT !.cache = a \o b]
    BY DEF Touch, a, b
<1> DEFINE c == a \o b
<1>7. CacheOK(c) /\ Range(c) = Range(kv.cache) /\ Touch(kv, prompt) = [kv EXCEPT !.cache = c]
    BY <1>5, <1>6
<1> HIDE DEF c
<1>8. /\ Sound([kv EXCEPT !.cache = c], holders)
      /\ [kv EXCEPT !.cache = c].cache = c
    BY <1>7, SameEntries
<1>9. QED
    BY <1>7, <1>8

\* "result" has pages for the tokens, and those behind the whole ones of entry e are
\* nobody else's.
Leased(result, kv, holders, e, tokens) ==
    /\ Len(result.pages) >= PagesFor(tokens)
    /\ \A i \in 1 .. Len(result.pages) :
          \/ Unheld(result.kv.cache, holders, result.pages[i])
          \/ /\ i <= Len(e.prompt) \div PageTokens
             /\ EntriesOf(kv.cache, result.pages[i]) # {}

LEMMA AcquireSound ==
    ASSUME NEW kv, NEW holders, Sound(kv, holders), NEW e \in Range(kv.cache),
           NEW tokens \in Nat, NEW result, result = Acquire(kv, e, tokens)
    PROVE  /\ Lawful(result, kv, holders)
           /\ result.ok => Leased(result, kv, holders, e, tokens)
<1> DEFINE size == Len(e.prompt)
           kept == RetainPages(kv, e.pages)
           own  == CopyLast(kept, e.pages, size, e.prompt)
           more == PagesFor(tokens) - Len(own.pages)
           rest == Obtain(own.kv, more, e.prompt)
           new  == own.pages \o rest.pages
<1>1. /\ CacheOK(kv.cache) /\ holders \in [Pages -> Nat]
      /\ e.prompt \in Seq(Nat) /\ e.pages \in Seq(Pages) /\ size \in Nat
      /\ Distinct(e.pages) /\ Len(e.pages) = PagesFor(size)
  <2>1. CacheOK(kv.cache) /\ holders \in [Pages -> Nat]
    BY DEF Sound
  <2>2. e \in Entry
    BY <2>1, EntriesAreFinite
  <2>3. e.prompt \in Seq(Nat) /\ e.pages \in Seq(Pages)
    BY <2>2 DEF Entry
  <2>4. QED
    BY <2>1, <2>3, LenProperties DEF CacheOK
<1>2. /\ size \div PageTokens \in Nat /\ size % PageTokens \in Nat
      /\ PagesFor(size) \in Nat /\ PagesFor(tokens) \in Nat
      /\ size % PageTokens = 0 => PagesFor(size) = size \div PageTokens
      /\ size % PageTokens # 0 => PagesFor(size) = size \div PageTokens + 1
    BY <1>1, PagesForSize
<1>3. Sound(kept, Plus(holders, e.pages)) /\ kept.cache = kv.cache
  <2>1. Sound(kept, Plus(holders, e.pages))
    BY <1>1, RetainSound
  <2>2. QED
    BY <2>1 DEF RetainPages
<1>4. size % PageTokens # 0 => e.pages # <<>>
  <2>1. Len(<<>>) = 0
    BY EmptySeq
  <2>2. QED
    BY <1>1, <1>2, <2>1
<1> HIDE DEF kept, size
<1>5. /\ Lawful(own, kept, holders)
      /\ own.ok =>
            /\ Len(own.pages) = Len(e.pages)
            /\ size % PageTokens = 0 => own.pages = e.pages
            /\ size % PageTokens # 0 =>
                  /\ \A i \in 1 .. Len(e.pages) - 1 : own.pages[i] = e.pages[i]
                  /\ Unheld(own.kv.cache, holders, own.pages[Len(e.pages)])
  <2> DEFINE pages == e.pages
             keep  == e.prompt
  <2>1. /\ own = CopyLast(kept, pages, size, keep)
        /\ holders \in [Pages -> Nat] /\ pages \in Seq(Pages) /\ Distinct(pages)
        /\ Sound(kept, Plus(holders, pages)) /\ (size % PageTokens # 0 => pages # <<>>)
    BY <1>1, <1>3, <1>4
  <2> HIDE DEF own, pages, keep
  <2>2. Lawful(own, kept, holders) /\ (own.ok => Copied(own, holders, pages, size))
    BY <2>1, CopyLastSound
  <2>3. QED
    BY <2>2 DEF pages, Copied
<1>6. result = IF ~own.ok THEN own
               ELSE IF ~rest.ok THEN Refused(ReleasePages(rest.kv, own.pages))
               ELSE [ok |-> TRUE, kv |-> Touch(rest.kv, e.prompt), pages |-> new]
    BY DEF Acquire, kept, size
<1>7. rest = Obtain(own.kv, more, e.prompt)
    OBVIOUS
<1> HIDE DEF own
<1>8. CASE ~own.ok
  <2>1. result = own
    BY <1>6, <1>8
  <2>2. Lawful(own, kv, holders)
    BY <1>3, <1>5 DEF Lawful
  <2>3. QED
    BY <1>8, <2>1, <2>2
<1>9. CASE own.ok
  <2>1. /\ own.pages \in Seq(Pages) /\ Distinct(own.pages) /\ Len(own.pages) \in Nat
        /\ Range(own.kv.cache) \subseteq Range(kv.cache)
        /\ Sound(own.kv, Plus(holders, own.pages))
    <3>1. own.pages \in Seq(Pages)
      BY <1>5 DEF Lawful
    <3>2. QED
      BY <1>3, <1>5, <1>9, <3>1, LenProperties DEF Lawful
  <2>2. more \in Int
    BY <1>2, <2>1
  <2> HIDE DEF rest, more
  <2> DEFINE held == Plus(holders, own.pages)
  <2>3. Sound(own.kv, held) /\ held \in [Pages -> Nat]
    BY <1>1, <2>1, PlusType
  <2> HIDE DEF held
  <2>4. /\ Lawful(rest, own.kv, held)
        /\ rest.ok => /\ Len(rest.pages) = IF more > 0 THEN more ELSE 0
                      /\ \A p \in Range(rest.pages) : Unheld(rest.kv.cache, held, p)
    BY <1>7, <2>2, <2>3, ObtainSound
  <2>5. rest.pages \in Seq(Pages) /\ Distinct(rest.pages)
        /\ Range(rest.kv.cache) \subseteq Range(kv.cache)
    BY <2>1, <2>4 DEF Lawful
  <2>6. CASE ~rest.ok
    <3>1. result = [ok |-> FALSE, kv |-> ReleasePages(rest.kv, own.pages), pages |-> <<>>]
      BY <1>6, <1>9, <2>6 DEF Refused
    <3>2. /\ result.ok = FALSE /\ result.kv = ReleasePages(rest.kv, own.pages)
          /\ result.pages = <<>>
      BY <3>1
    <3>3. Sound(rest.kv, Plus(holders, own.pages))
      BY <2>4, <2>6 DEF Lawful, held
    <3>4. Sound(ReleasePages(rest.kv, own.pages), holders)
      BY <1>1, <2>1, <3>3, ReleaseSound
    <3>5. ReleasePages(rest.kv, own.pages).cache = rest.kv.cache
      BY DEF ReleasePages, ReleaseTables
    <3>6. <<>> \in Seq(Pages) /\ Distinct(<<>>)
      BY EmptySeq DEF Distinct
    <3>7. QED
      BY <2>5, <3>2, <3>4, <3>5, <3>6 DEF Lawful
  <2>7. CASE rest.ok
    <3>1. result = [ok |-> TRUE, kv |-> Touch(rest.kv, e.prompt), pages |-> new]
      BY <1>6, <1>9, <2>7
    <3>2. result.ok = TRUE /\ result.kv = Touch(rest.kv, e.prompt) /\ result.pages = new
      <4> HIDE DEF new
      <4>1. QED
        BY <3>1
    <3>3. Sound(rest.kv, Plus(held, rest.pages))
      BY <2>4, <2>7 DEF Lawful
    <3>4. ASSUME NEW p \in Range(rest.pages)
          PROVE  p \notin Range(own.pages) /\ Unheld(rest.kv.cache, holders, p)
      <4>1. p \in Pages
        BY <2>5, TablesAreTyped
      <4>2. held[p] = 0 /\ EntriesOf(rest.kv.cache, p) = {} /\ holders[p] \in Nat
        BY <1>1, <2>4, <2>7, <4>1 DEF Unheld
      <4>3. held[p] = holders[p] + (IF p \in Range(own.pages) THEN 1 ELSE 0)
        BY <4>1 DEF held, Plus
      <4>4. QED
        BY <4>2, <4>3 DEF Unheld
    <3>5. \A x \in Range(own.pages) : x \notin Range(rest.pages)
      BY <3>4
    <3>6. /\ new \in Seq(Pages) /\ Distinct(new) /\ Len(new) = Len(own.pages) + Len(rest.pages)
          /\ Range(new) = Range(own.pages) \cup Range(rest.pages)
          /\ \A i \in 1 .. Len(own.pages) + Len(rest.pages) :
                \/ i \in 1 .. Len(own.pages) /\ new[i] = own.pages[i]
                \/ i > Len(own.pages) /\ new[i] \in Range(rest.pages)
      BY <2>1, <2>5, <3>5, Joined
    <3> HIDE DEF new
    <3>7. Sound(rest.kv, Plus(holders, new))
      <4> DEFINE a == own.pages
                 b == rest.pages
      <4>1. Range(new) = Range(a) \cup Range(b) /\ \A x \in Range(a) : x \notin Range(b)
        BY <3>5, <3>6
      <4> HIDE DEF a, b
      <4>2. Plus(Plus(holders, a), b) = Plus(holders, new)
        BY <1>1, <4>1, PlusJoined
      <4>3. QED
        BY <3>3, <4>2 DEF held, a, b
    <3>8. /\ Sound(result.kv, Plus(holders, new))
          /\ Range(result.kv.cache) = Range(rest.kv.cache)
      BY <3>2, <3>7, TouchSound
    <3>9. Lawful(result, kv, holders)
      BY <2>5, <3>2, <3>6, <3>8 DEF Lawful
    <3>10. Len(new) >= PagesFor(tokens)
      <4>1. Len(rest.pages) = IF more > 0 THEN more ELSE 0
        BY <2>4, <2>7
      <4>2. QED
        BY <1>2, <2>1, <3>6, <4>1 DEF more
    <3>11. ASSUME NEW i \in 1 .. Len(new)
           PROVE  \/ Unheld(result.kv.cache, holders, new[i])
                  \/ i <= size \div PageTokens /\ EntriesOf(kv.cache, new[i]) # {}
      <4>1. CASE new[i] \in Range(rest.pages)
        <5>1. Unheld(rest.kv.cache, holders, new[i])
          BY <3>4, <4>1
        <5>2. QED
          BY <3>8, <5>1, UnheldStays
      <4>2. CASE i \in 1 .. Len(own.pages) /\ new[i] = own.pages[i]
        <5>1. Len(own.pages) = PagesFor(size)
          BY <1>1, <1>5, <1>9 DEF size
        <5>2. \A j \in 1 .. Len(e.pages) : EntriesOf(kv.cache, e.pages[j]) # {}
          BY <1>1, TablesAreTyped DEF EntriesOf
        <5>3. CASE size % PageTokens = 0
          <6>1. own.pages = e.pages /\ i <= size \div PageTokens
            BY <1>2, <1>5, <1>9, <4>2, <5>1, <5>3
          <6>2. QED
            BY <4>2, <5>2, <6>1
        <5>4. CASE size % PageTokens # 0
          <6>1. /\ \A j \in 1 .. Len(e.pages) - 1 : own.pages[j] = e.pages[j]
                /\ Unheld(own.kv.cache, holders, own.pages[Len(e.pages)])
                /\ Len(e.pages) = Len(own.pages) /\ Len(own.pages) = size \div PageTokens + 1
            BY <1>2, <1>5, <1>9, <5>1, <5>4
          <6>2. CASE i = Len(own.pages)
            <7>1. Unheld(own.kv.cache, holders, new[i])
              BY <4>2, <6>1, <6>2
            <7>2. Range(result.kv.cache) \subseteq Range(own.kv.cache)
              BY <2>4, <3>8 DEF Lawful
            <7>3. QED
              BY <7>1, <7>2, UnheldStays
          <6>3. CASE i # Len(own.pages)
            <7>1. i \in 1 .. Len(e.pages) - 1 /\ i <= size \div PageTokens /\ i \in 1 .. Len(e.pages)
              BY <1>2, <4>2, <6>1, <6>3
            <7>2. new[i] = e.pages[i]
              BY <4>2, <6>1, <7>1
            <7>3. QED
              BY <5>2, <7>1, <7>2
          <6>4. QED
            BY <6>2, <6>3
        <5>5. QED
          BY <5>3, <5>4
      <4>3. QED
        BY <3>6, <4>1, <4>2
    <3>12. QED
      BY <3>2, <3>9, <3>10, <3>11 DEF Leased, size
  <2>8. QED
    BY <2>6, <2>7
<1>10. QED
  BY <1>8, <1>9

\* The first n pages of a table.
LEMMA Beginning ==
    ASSUME NEW pages \in Seq(Pages), Distinct(pages), NEW n \in Nat, n <= Len(pages)
    PROVE  /\ SubSeq(pages, 1, n) \in Seq(Pages) /\ Distinct(SubSeq(pages, 1, n))
           /\ Len(SubSeq(pages, 1, n)) = n
           /\ \A i \in 1 .. n : SubSeq(pages, 1, n)[i] = pages[i]
<1> DEFINE part == SubSeq(pages, 1, n)
<1>1. Len(pages) \in Nat /\ DOMAIN pages = 1 .. Len(pages) /\ \A i \in 1 .. Len(pages) : pages[i] \in Pages
    BY TablesAreTyped
<1>2. /\ part \in Seq(Pages) /\ Len(part) = IF 1 <= n THEN n - 1 + 1 ELSE 0
      /\ \A i \in 1 .. n - 1 + 1 : part[i] = pages[1 + i - 1]
  <2>1. \A i \in 1 .. n : pages[i] \in Pages
    BY <1>1
  <2>2. QED
    BY <2>1, SubSeqProperties
<1> HIDE DEF part
<1>3. Len(part) = n /\ \A i \in 1 .. n : part[i] = pages[i]
  <2>1. \A i \in 1 .. n : i \in 1 .. n - 1 + 1 /\ 1 + i - 1 = i
    OBVIOUS
  <2>2. QED
    BY <1>2, <2>1
<1>4. DOMAIN part = 1 .. n
    BY <1>2, <1>3, LenProperties
<1>5. Distinct(part)
    BY <1>1, <1>3, <1>4 DEF Distinct
<1>6. QED
    BY <1>2, <1>3, <1>5 DEF part

\* A new prefix counts for the pages it is given.
LEMMA EntryAdded ==
    ASSUME NEW kv, NEW holders \in [Pages -> Nat], NEW entry \in Entry,
           Sound(kv, Plus(holders, entry.pages)),
           \A e \in Range(kv.cache) : e.prompt # entry.prompt,
           Distinct(entry.pages), Len(entry.pages) = PagesFor(Len(entry.prompt))
    PROVE  LET full == [kv EXCEPT !.cache = Append(@, entry)]
           IN  Sound(full, holders) /\ Range(full.cache) = Range(kv.cache) \cup {entry}
<1> DEFINE one   == <<entry>>
           cache == Append(kv.cache, entry)
           full  == [refs |-> kv.refs, cache |-> cache]
<1>1. /\ kv = [refs |-> kv.refs, cache |-> kv.cache] /\ kv.refs \in [Pages -> Nat]
      /\ CacheOK(kv.cache) /\ kv.cache \in Seq(Entry)
      /\ \A p \in Pages :
            kv.refs[p] = Plus(holders, entry.pages)[p] + Cardinality(EntriesOf(kv.cache, p))
    BY DEF Sound, Kv
<1>2. one \in Seq(Entry) /\ DOMAIN one = {1} /\ one[1] = entry /\ Range(one) = {entry}
    BY DEF Range
<1>3. CacheOK(one)
    BY <1>2 DEF CacheOK
<1>4. cache = kv.cache \o one
    BY <1>1, AppendIsConcat
<1>5. CacheOK(cache) /\ Range(cache) = Range(kv.cache) \cup {entry}
  <2>1. \A e \in Range(kv.cache), f \in Range(one) : e.prompt # f.prompt
    BY <1>2
  <2> HIDE DEF one
  <2>2. CacheOK(kv.cache \o one) /\ Range(kv.cache \o one) = Range(kv.cache) \cup Range(one)
    BY <1>1, <1>3, <2>1, JoinedCaches
  <2>3. QED
    BY <1>2, <1>4, <2>2
<1> HIDE DEF one, cache
<1>6. [kv EXCEPT !.cache = cache] = full
    BY <1>1
<1>7. full.refs = kv.refs /\ full.cache = cache /\ full \in Kv
    BY <1>1, <1>5 DEF Kv, CacheOK
<1>8. ASSUME NEW p \in Pages
      PROVE  kv.refs[p] = holders[p] + Cardinality(EntriesOf(cache, p))
  <2>1. /\ IsFiniteSet(EntriesOf(kv.cache, p)) /\ Cardinality(EntriesOf(kv.cache, p)) \in Nat
        /\ entry \notin EntriesOf(kv.cache, p)
    BY <1>1, EntriesAreFinite DEF EntriesOf
  <2>2. kv.refs[p] = holders[p] + (IF p \in Range(entry.pages) THEN 1 ELSE 0)
                     + Cardinality(EntriesOf(kv.cache, p))
    BY <1>1 DEF Plus
  <2>3. holders[p] \in Nat
    OBVIOUS
  <2>4. CASE p \in Range(entry.pages)
    <3>1. EntriesOf(cache, p) = EntriesOf(kv.cache, p) \cup {entry}
      BY <1>5, <2>4 DEF EntriesOf
    <3>2. Cardinality(EntriesOf(cache, p)) = Cardinality(EntriesOf(kv.cache, p)) + 1
      BY <2>1, <3>1, FS_AddElement
    <3>3. QED
      BY <2>1, <2>2, <2>3, <2>4, <3>2
  <2>5. CASE p \notin Range(entry.pages)
    <3>1. EntriesOf(cache, p) = EntriesOf(kv.cache, p)
      BY <1>5, <2>5 DEF EntriesOf
    <3>2. QED
      BY <2>1, <2>2, <2>3, <2>5, <3>1
  <2>6. QED
    BY <2>4, <2>5
<1> HIDE DEF full
<1>9. Sound(full, holders)
    BY <1>1, <1>5, <1>7, <1>8 DEF Sound
<1>10. QED
    BY <1>5, <1>6, <1>7, <1>9 DEF cache

\* An entry that is new to the cache holds, of the pages that others count, none but
\* the first ones of a table, that are whole.
SharesWhole(cache, old, holders, pages, whole) ==
    \A e \in Range(cache) :
       \/ e \in Range(old)
       \/ \A p \in Range(e.pages) : holders[p] = 0 \/ \E i \in 1 .. whole : p = pages[i]

\* Nobody's count changes but the prefix cache's, and a prefix that is new in it
\* shares with its owner, of its pages, none but those that it fills.
LEMMA InsertSound ==
    ASSUME NEW kv, NEW holders, Sound(kv, holders), NEW prompt \in Seq(Nat),
           NEW pages \in Seq(Pages), Distinct(pages), PagesFor(Len(prompt)) <= Len(pages),
           NEW result, result = Insert(kv, prompt, pages)
    PROVE  /\ Sound(result, holders)
           /\ SharesWhole(result.cache, kv.cache, holders, pages, Len(prompt) \div PageTokens)
<1> DEFINE size == Len(prompt)
           mine == SubSeq(pages, 1, PagesFor(size))
           kept == RetainPages(kv, mine)
           own  == CopyLast(kept, mine, size, << >>)
           entry == [prompt |-> prompt, pages |-> own.pages]
           full == [own.kv EXCEPT !.cache = Append(@, entry)]
<1>1. /\ size \in Nat /\ size \div PageTokens \in Nat /\ size % PageTokens \in Nat
      /\ PagesFor(size) \in Nat
      /\ size % PageTokens = 0 => PagesFor(size) = size \div PageTokens
      /\ size % PageTokens # 0 => PagesFor(size) = size \div PageTokens + 1
  <2>1. size \in Nat
    BY LenProperties
  <2> HIDE DEF size
  <2>2. QED
    BY <2>1, PagesForSize
<1>2. CASE CacheEntries = 0
  <2>1. result = kv
    BY <1>2 DEF Insert
  <2>2. QED
    BY <2>1 DEF SharesWhole
<1>3. CASE CacheEntries # 0 /\ \E e \in Range(kv.cache) : e.prompt = prompt
  <2>1. result = Touch(kv, prompt)
    BY <1>3 DEF Insert
  <2>2. Sound(Touch(kv, prompt), holders) /\ Range(Touch(kv, prompt).cache) = Range(kv.cache)
    BY TouchSound
  <2>3. QED
    BY <2>1, <2>2 DEF SharesWhole
<1>4. CASE CacheEntries # 0 /\ ~\E e \in Range(kv.cache) : e.prompt = prompt
  <2>1. \/ ~own.ok /\ result = own.kv
        \/ own.ok /\ \E n : result = Evict(full, n, prompt)
    <3>1. result = IF ~own.ok THEN own.kv
                   ELSE Evict(full, Max({0, Len(full.cache) - CacheEntries}), prompt)
      BY <1>4 DEF Insert
    <3> HIDE DEF own, full
    <3>2. QED
      BY <3>1
  <2>2. /\ mine \in Seq(Pages) /\ Distinct(mine) /\ Len(mine) = PagesFor(size)
        /\ \A i \in 1 .. PagesFor(size) : mine[i] = pages[i]
    BY <1>1, Beginning
  <2>3. holders \in [Pages -> Nat]
    BY DEF Sound
  <2>4. size % PageTokens # 0 => mine # <<>>
    <3>1. Len(<<>>) = 0
      BY EmptySeq
    <3>2. QED
      BY <1>1, <2>2, <3>1
  <2> HIDE DEF mine, size
  <2>5. Sound(kept, Plus(holders, mine)) /\ kept.cache = kv.cache
    <3>1. Sound(kept, Plus(holders, mine))
      BY <2>2, RetainSound
    <3>2. QED
      BY <3>1 DEF RetainPages
  <2> HIDE DEF kept
  <2>6. Lawful(own, kept, holders) /\ (own.ok => Copied(own, holders, mine, size))
    <3>1. own = CopyLast(kept, mine, size, << >>)
      OBVIOUS
    <3> HIDE DEF own
    <3>2. QED
      BY <2>2, <2>3, <2>4, <2>5, <3>1, CopyLastSound
  <2> HIDE DEF own
  <2>7. own.pages \in Seq(Pages) /\ Distinct(own.pages) /\ Range(own.kv.cache) \subseteq Range(kv.cache)
    BY <2>5, <2>6 DEF Lawful
  <2>8. CASE ~own.ok
    <3>1. Sound(own.kv, holders) /\ result = own.kv
      BY <2>1, <2>6, <2>8 DEF Lawful
    <3>2. QED
      BY <2>7, <3>1 DEF SharesWhole
  <2>9. CASE own.ok
    <3>1. PICK n : result = Evict(full, n, prompt)
      BY <2>1, <2>9
    <3>2. /\ entry \in Entry /\ entry.pages = own.pages /\ entry.prompt = prompt
      BY <2>7 DEF Entry
    <3>3. Sound(own.kv, Plus(holders, entry.pages))
      BY <2>6, <2>9, <3>2 DEF Lawful
    <3>4. \A e \in Range(own.kv.cache) : e.prompt # entry.prompt
      BY <1>4, <2>7, <3>2
    <3>5. Distinct(entry.pages) /\ Len(entry.pages) = PagesFor(Len(entry.prompt))
      BY <2>2, <2>6, <2>7, <2>9, <3>2 DEF Copied, size
    <3>6. full = [own.kv EXCEPT !.cache = Append(@, entry)]
      OBVIOUS
    <3> HIDE DEF full, entry
    <3>7. Sound(full, holders) /\ Range(full.cache) = Range(own.kv.cache) \cup {entry}
      BY <2>3, <3>2, <3>3, <3>4, <3>5, <3>6, EntryAdded
    <3>8. Sound(result, holders) /\ Range(result.cache) \subseteq Range(own.kv.cache) \cup {entry}
      BY <3>1, <3>7, EvictSound
    <3>9. ASSUME NEW p \in Range(entry.pages)
          PROVE  holders[p] = 0 \/ \E i \in 1 .. size \div PageTokens : p = pages[i]
      <4>1. Len(own.pages) = Len(mine) /\ DOMAIN own.pages = 1 .. Len(own.pages)
        BY <2>6, <2>7, <2>9, TablesAreTyped DEF Copied
      <4>2. PICK i \in 1 .. PagesFor(size) : p = own.pages[i]
        BY <2>2, <3>2, <4>1 DEF Range
      <4>3. CASE size % PageTokens = 0
        <5>1. own.pages = mine /\ i \in 1 .. size \div PageTokens
          BY <1>1, <2>6, <2>9, <4>2, <4>3 DEF Copied
        <5>2. p = pages[i]
          BY <2>2, <4>2, <5>1
        <5>3. QED
          BY <5>1, <5>2
      <4>4. CASE size % PageTokens # 0
        <5>1. PagesFor(size) = size \div PageTokens + 1
          BY <1>1, <4>4
        <5>2. CASE i = Len(mine)
          <6>1. Unheld(own.kv.cache, holders, own.pages[Len(mine)])
            BY <2>6, <2>9, <4>4 DEF Copied
          <6>2. QED
            BY <4>2, <5>2, <6>1 DEF Unheld
        <5>3. CASE i # Len(mine)
          <6>1. i \in 1 .. Len(mine) - 1 /\ i \in 1 .. size \div PageTokens
            BY <1>1, <2>2, <4>2, <5>1, <5>3
          <6>2. own.pages[i] = mine[i] /\ mine[i] = pages[i]
            BY <2>2, <2>6, <2>9, <4>2, <4>4, <6>1 DEF Copied
          <6>3. QED
            BY <4>2, <6>1, <6>2
        <5>4. QED
          BY <5>2, <5>3
      <4>5. QED
        BY <4>3, <4>4
    <3>10. QED
      BY <2>7, <3>8, <3>9 DEF SharesWhole, size
  <2>10. QED
    BY <2>8, <2>9
<1>5. QED
    BY <1>2, <1>3, <1>4
=============================================================================
