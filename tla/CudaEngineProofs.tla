-------------------------- MODULE CudaEngineProofs --------------------------
(***************************************************************************)
(* Theorems of CudaEngine, for every number of pages and their size, every  *)
(* prompt, limit and priority, both policies and every cache: the counts of *)
(* the pages add up, a request writes to pages nobody else holds, a batch    *)
(* has a page for each token it writes, and what clients see of the engine  *)
(* is a RequestService.                                                     *)
(***************************************************************************)
EXTENDS CudaEngine, PagedKvProofs

\* How many of a family of page tables hold each page.
CountOf(tab) == [p \in Pages |-> Cardinality({r \in Requests : p \in Range(tab[r])})]

\* A page a request has yet to write to is in no entry and in no other table.
Apart(tab, st, off, cache) ==
    \A r \in Requests : st[r] \in Active =>
       \A i \in DOMAIN tab[r] : i > off[r] \div PageTokens =>
          /\ EntriesOf(cache, tab[r][i]) = {}
          /\ \A q \in Requests : tab[r][i] \in Range(tab[q]) => q = r

\* The pages are accounted for, and only requests on a lane have any.
Kept(tab, st, off, state) ==
    /\ tab \in [Requests -> Seq(Pages)]
    /\ off \in [Requests -> Nat]
    /\ \A r \in Requests : /\ Distinct(tab[r])
                           /\ st[r] \notin Active => tab[r] = << >>
    /\ Sound(state, CountOf(tab))
    /\ Apart(tab, st, off, state.cache)
-----------------------------------------------------------------------------
(* Counts. *)

LEMMA RequestsAreFinite == IsFiniteSet(Requests) /\ \A S : S \subseteq Requests => IsFiniteSet(S)
<1>1. IsFiniteSet(Requests)
    BY CudaAssumption, FS_Interval DEF Requests
<1>2. QED
    BY <1>1, FS_Subset

LEMMA CountType ==
    ASSUME NEW tab
    PROVE  CountOf(tab) \in [Pages -> Nat]
<1>1. \A p : Cardinality({r \in Requests : p \in Range(tab[r])}) \in Nat
  <2>1. \A p : IsFiniteSet({r \in Requests : p \in Range(tab[r])})
    BY RequestsAreFinite
  <2>2. QED
    BY <2>1, FS_CardinalityType
<1>2. QED
    BY <1>1 DEF CountOf

\* A page that no table counts is in no table.
LEMMA CountedPages ==
    ASSUME NEW tab, NEW p \in Pages, CountOf(tab)[p] = 0
    PROVE  \A q \in Requests : p \notin Range(tab[q])
<1> DEFINE Q == {r \in Requests : p \in Range(tab[r])}
<1>1. IsFiniteSet(Q) /\ Cardinality(Q) = 0
    BY RequestsAreFinite DEF CountOf
<1>2. Q = {}
    BY <1>1, FS_EmptySet
<1>3. QED
    BY <1>2

\* Some tables are given back.
LEMMA FinishedTables ==
    ASSUME NEW tab, \A r \in Requests : Distinct(tab[r]), NEW S, S \subseteq Requests,
           NEW state, Sound(state, CountOf(tab)),
           NEW new, new = [r \in Requests |-> IF r \in S THEN << >> ELSE tab[r]]
    PROVE  Sound(ReleaseTables(state, [r \in S |-> tab[r]]), CountOf(new))
<1> DEFINE tables == [r \in S |-> tab[r]]
           rest   == CountOf(new)
<1>1. DOMAIN tables = S /\ \A k \in S : tables[k] = tab[k]
    OBVIOUS
<1> HIDE DEF tables
<1>2. IsFiniteSet(DOMAIN tables) /\ \A k \in DOMAIN tables : Distinct(tables[k])
    BY <1>1, RequestsAreFinite
<1>3. rest \in [Pages -> Nat]
    BY CountType
<1>4. ASSUME NEW p \in Pages
      PROVE  CountOf(tab)[p] = rest[p] + Cardinality({k \in DOMAIN tables : p \in Range(tables[k])})
  <2> DEFINE all  == {r \in Requests : p \in Range(tab[r])}
             gone == {k \in DOMAIN tables : p \in Range(tables[k])}
             left == {r \in Requests : p \in Range(new[r])}
  <2>1. Range(<<>>) = {}
    BY DEF Range
  <2>2. gone \subseteq all /\ left = all \ gone
    BY <1>1, <2>1
  <2>3. CountOf(tab)[p] = Cardinality(all) /\ rest[p] = Cardinality(left)
    BY DEF CountOf
  <2>4. IsFiniteSet(all) /\ IsFiniteSet(gone)
    BY <1>1, RequestsAreFinite
  <2> HIDE DEF all, gone, left, rest
  <2>5. all \cap gone = gone
    BY <2>2
  <2>6. Cardinality(all \ gone) = Cardinality(all) - Cardinality(all \cap gone)
    BY <2>4, FS_Difference
  <2>7. Cardinality(all) \in Nat /\ Cardinality(gone) \in Nat
    BY <2>4, FS_CardinalityType
  <2>8. Cardinality(left) = Cardinality(all) - Cardinality(gone)
    BY <2>2, <2>5, <2>6
  <2>9. QED
    BY <2>3, <2>7, <2>8 DEF gone
<1> HIDE DEF rest
<1>5. Sound(ReleaseTables(state, tables), rest)
    BY <1>2, <1>3, <1>4, ReleaseTablesSound
<1>6. QED
    BY <1>5 DEF tables, rest

\* An empty table is given pages.
LEMMA GivenTable ==
    ASSUME NEW tab \in [Requests -> Seq(Pages)], NEW r \in Requests, tab[r] = << >>,
           NEW pages
    PROVE  CountOf([tab EXCEPT ![r] = pages]) = Plus(CountOf(tab), pages)
<1> DEFINE new == [tab EXCEPT ![r] = pages]
<1>1. new[r] = pages /\ \A q \in Requests : q # r => new[q] = tab[q]
    OBVIOUS
<1> HIDE DEF new
<1>2. ASSUME NEW p \in Pages PROVE CountOf(new)[p] = Plus(CountOf(tab), pages)[p]
  <2> DEFINE old == {q \in Requests : p \in Range(tab[q])}
             now == {q \in Requests : p \in Range(new[q])}
  <2>1. r \notin old
    BY DEF Range
  <2>2. CountOf(tab)[p] = Cardinality(old) /\ CountOf(new)[p] = Cardinality(now)
    BY DEF CountOf
  <2>3. now = IF p \in Range(pages) THEN old \cup {r} ELSE old
    BY <1>1, <2>1
  <2>4. IsFiniteSet(old)
    BY RequestsAreFinite
  <2> HIDE DEF old, now
  <2>5. Cardinality(old) \in Nat /\ Cardinality(old \cup {r}) = Cardinality(old) + 1
    BY <2>1, <2>4, FS_AddElement, FS_CardinalityType
  <2>6. Plus(CountOf(tab), pages)[p] = CountOf(tab)[p] + (IF p \in Range(pages) THEN 1 ELSE 0)
    BY DEF Plus
  <2>7. QED
    BY <2>2, <2>3, <2>5, <2>6
<1>3. QED
    BY <1>2 DEF CountOf, Plus, new

\* Every page goes to one of the requests of S, and each of them gets one.
Deals(pos, S, pages) ==
    /\ \A r \in S : pos[r] \in DOMAIN pages
    /\ \A q, r \in S : pos[q] = pos[r] => q = r
    /\ \A i \in DOMAIN pages : \E r \in S : pos[r] = i

Grown(tab, S, pages, pos) ==
    [r \in Requests |-> IF r \in S THEN Append(tab[r], pages[pos[r]]) ELSE tab[r]]

Extends(new, tab, S, pages, pos) ==
    /\ \A r \in Requests \ S : new[r] = tab[r]
    /\ \A r \in S :
          /\ pages[pos[r]] \in Range(pages) /\ Len(new[r]) = Len(tab[r]) + 1
          /\ new[r][Len(new[r])] = pages[pos[r]]
          /\ \A i \in DOMAIN tab[r] : new[r][i] = tab[r][i]
          /\ Range(new[r]) = Range(tab[r]) \cup {pages[pos[r]]}

\* Several tables get a page each, of pages that were in none.
LEMMA GrownTables ==
    ASSUME NEW tab \in [Requests -> Seq(Pages)], NEW S, S \subseteq Requests,
           NEW pages \in Seq(Pages), Distinct(pages), NEW pos, Deals(pos, S, pages),
           \A p \in Range(pages) : CountOf(tab)[p] = 0,
           NEW new, new = Grown(tab, S, pages, pos)
    PROVE  /\ CountOf(new) = Plus(CountOf(tab), pages)
           /\ new \in [Requests -> Seq(Pages)]
           /\ Extends(new, tab, S, pages, pos)
<1>1. Range(pages) \subseteq Pages
    BY TablesAreTyped
<1>2. ASSUME NEW r \in S
      PROVE  /\ pages[pos[r]] \in Range(pages)
             /\ new[r] \in Seq(Pages) /\ Len(new[r]) = Len(tab[r]) + 1
             /\ new[r][Len(new[r])] = pages[pos[r]]
             /\ \A i \in DOMAIN tab[r] : new[r][i] = tab[r][i]
             /\ Range(new[r]) = Range(tab[r]) \cup {pages[pos[r]]}
  <2> DEFINE old  == tab[r]
             page == pages[pos[r]]
             now  == new[r]
  <2>1. old \in Seq(Pages) /\ page \in Range(pages) /\ page \in Pages
    BY <1>1 DEF Deals, Range
  <2>2. now = Append(old, page)
    BY DEF Grown
  <2> HIDE DEF old, page, now
  <2>3. /\ now \in Seq(Pages) /\ Len(now) = Len(old) + 1
        /\ \A i \in 1 .. Len(old) : now[i] = old[i]
        /\ now[Len(old) + 1] = page
    BY <2>1, <2>2, AppendProperties
  <2>4. DOMAIN old = 1 .. Len(old) /\ DOMAIN now = 1 .. Len(now) /\ Len(old) \in Nat
    BY <2>1, <2>3, LenProperties
  <2>5. Range(now) = Range(old) \cup {page}
    <3>1. \A i \in 1 .. Len(now) : i \in 1 .. Len(old) \/ i = Len(old) + 1
      BY <2>3, <2>4
    <3>2. \A i \in 1 .. Len(old) : i \in 1 .. Len(now)
      BY <2>3, <2>4
    <3>3. Len(old) + 1 \in 1 .. Len(now)
      BY <2>3, <2>4
    <3>4. QED
      BY <2>3, <2>4, <3>1, <3>2, <3>3 DEF Range
  <2>6. QED
    BY <2>1, <2>3, <2>4, <2>5 DEF old, page, now
<1>3. \A r \in Requests \ S : new[r] = tab[r]
    BY DEF Grown
<1>4. new \in [Requests -> Seq(Pages)]
  <2>1. \A r \in Requests : new[r] \in Seq(Pages)
    BY <1>2, <1>3
  <2>2. QED
    BY <2>1 DEF Grown
<1>5. ASSUME NEW p \in Pages PROVE CountOf(new)[p] = Plus(CountOf(tab), pages)[p]
  <2> DEFINE old == {q \in Requests : p \in Range(tab[q])}
             now == {q \in Requests : p \in Range(new[q])}
  <2>1. CountOf(tab)[p] = Cardinality(old) /\ CountOf(new)[p] = Cardinality(now)
    BY DEF CountOf
  <2>2. CountOf(tab)[p] \in Nat
    BY CountType
  <2>3. Plus(CountOf(tab), pages)[p] = CountOf(tab)[p] + (IF p \in Range(pages) THEN 1 ELSE 0)
    BY DEF Plus
  <2>4. ASSUME NEW q \in Requests
        PROVE  p \in Range(new[q]) <=> p \in Range(tab[q]) \/ (q \in S /\ p = pages[pos[q]])
    <3>1. CASE q \in S
      <4>1. Range(new[q]) = Range(tab[q]) \cup {pages[pos[q]]}
        BY <1>2, <3>1
      <4>2. QED
        BY <3>1, <4>1
    <3>2. CASE q \notin S
      <4>1. new[q] = tab[q]
        BY <1>3, <3>2
      <4>2. QED
        BY <3>2, <4>1
    <3>3. QED
      BY <3>1, <3>2
  <2>5. CASE p \in Range(pages)
    <3>1. PICK i \in DOMAIN pages : pages[i] = p
      BY <2>5 DEF Range
    <3>2. PICK r \in S : pos[r] = i
      BY <3>1 DEF Deals
    <3>3. CountOf(tab)[p] = 0 /\ \A q \in Requests : p \notin Range(tab[q])
      BY <2>5, CountedPages
    <3>4. \A q \in S : pages[pos[q]] = p => q = r
      BY <3>1, <3>2 DEF Deals, Distinct
    <3>5. \A q : q \in now <=> q = r
      BY <2>4, <3>1, <3>2, <3>3, <3>4, ZenonT(30)
    <3> HIDE DEF old, now
    <3>6. now = {r}
      BY <3>5
    <3>7. Cardinality({r}) = 1
      BY FS_Singleton
    <3>8. QED
      BY <2>1, <2>3, <2>5, <3>3, <3>6, <3>7
  <2>6. CASE p \notin Range(pages)
    <3>1. \A q : q \in now <=> q \in old
      <4>1. \A q \in S : p # pages[pos[q]]
        BY <1>2, <2>6
      <4>2. QED
        BY <2>4, <4>1
    <3> HIDE DEF old, now
    <3>2. now = old
      BY <3>1
    <3>3. QED
      BY <2>1, <2>2, <2>3, <2>6, <3>2
  <2>7. QED
    BY <2>5, <2>6
<1>6. CountOf(new) = Plus(CountOf(tab), pages)
    BY <1>5 DEF CountOf, Plus
<1>7. QED
    BY <1>2, <1>3, <1>4, <1>6 DEF Extends
-----------------------------------------------------------------------------
(* What the steps do to the pages. *)

LEMMA Division ==
    ASSUME NEW n \in Nat
    PROVE  \E q \in Int, r \in Int :
              n \div PageTokens = q /\ n = PageTokens * q + r /\ 0 <= r /\ r < PageTokens
<1> DEFINE q == n \div PageTokens
           r == n % PageTokens
<1>1. PageTokens \in Nat /\ PageTokens >= 1
    BY KvAssumption
<1>2. q \in Int /\ r \in Int /\ n = PageTokens * q + r /\ 0 <= r /\ r < PageTokens
    BY <1>1
<1> HIDE DEF r
<1>3. QED
    BY <1>2

LEMMA Quotients ==
    ASSUME NEW a \in Nat, NEW b \in Nat, a <= b
    PROVE  a \div PageTokens <= b \div PageTokens
<1> DEFINE size == PageTokens
<1>1. size \in Nat /\ size >= 1
    BY KvAssumption
<1>2. PICK m \in Int, i \in Int : a \div size = m /\ a = size * m + i /\ 0 <= i /\ i < size
    BY Division
<1>3. PICK n \in Int, j \in Int : b \div size = n /\ b = size * n + j /\ 0 <= j /\ j < size
    BY Division
<1>4. SUFFICES ASSUME m >= n + 1 PROVE FALSE
    BY <1>2, <1>3
<1> HIDE DEF size
<1>5. size * m >= size * (n + 1) /\ size * (n + 1) = size * n + size
    BY <1>1, <1>4
<1>6. size * m \in Int /\ size * n \in Int
    BY <1>1
<1>7. QED
    BY <1>1, <1>2, <1>3, <1>5, <1>6

\* Entries that go leave the rest as it is.
LEMMA KeptSmaller ==
    ASSUME NEW tab, NEW st, NEW off, NEW state, Kept(tab, st, off, state),
           NEW less, Sound(less, CountOf(tab)), Range(less.cache) \subseteq Range(state.cache)
    PROVE  Kept(tab, st, off, less)
<1>1. \A p : EntriesOf(less.cache, p) \subseteq EntriesOf(state.cache, p)
    BY DEF EntriesOf
<1>2. Apart(tab, st, off, less.cache)
    BY <1>1 DEF Kept, Apart
<1>3. QED
    BY <1>2 DEF Kept

\* Requests that write on, or leave their lane without pages.
LEMMA KeptMoves ==
    ASSUME NEW tab, NEW st, NEW off, NEW state, Kept(tab, st, off, state),
           NEW next, NEW past \in [Requests -> Nat],
           \A r \in Requests :
              \/ tab[r] = << >> /\ next[r] \notin Active
              \/ st[r] \in Active /\ next[r] \in Active /\ off[r] <= past[r]
    PROVE  Kept(tab, next, past, state)
<1>1. Apart(tab, next, past, state.cache)
  <2>1. SUFFICES ASSUME NEW r \in Requests, next[r] \in Active, NEW i \in DOMAIN tab[r],
                        i > past[r] \div PageTokens
                 PROVE  /\ EntriesOf(state.cache, tab[r][i]) = {}
                        /\ \A q \in Requests : tab[r][i] \in Range(tab[q]) => q = r
    BY DEF Apart
  <2>2. st[r] \in Active /\ off[r] \div PageTokens <= past[r] \div PageTokens
    BY <2>1, Quotients DEF Kept
  <2>3. i \in Int /\ off[r] \div PageTokens \in Int /\ past[r] \div PageTokens \in Int
    <3>1. DOMAIN tab[r] = 1 .. Len(tab[r]) /\ Len(tab[r]) \in Nat
      BY TablesAreTyped DEF Kept
    <3>2. off[r] \in Nat /\ past[r] \in Nat
      BY DEF Kept
    <3>3. QED
      BY <3>1, <3>2, KvAssumption
  <2>4. i > off[r] \div PageTokens
    BY <2>1, <2>2, <2>3
  <2>5. QED
    BY <2>2, <2>4 DEF Kept, Apart
<1>2. QED
    BY <1>1 DEF Kept

LEMMA KeptFinish ==
    ASSUME NEW tab, NEW st, NEW off, NEW state, Kept(tab, st, off, state),
           NEW S, S \subseteq Requests, NEW end, end \notin Active,
           NEW new, new = [r \in Requests |-> IF r \in S THEN << >> ELSE tab[r]],
           NEW next, next = [r \in Requests |-> IF r \in S THEN end ELSE st[r]]
    PROVE  Kept(new, next, off, ReleaseTables(state, [r \in S |-> tab[r]]))
<1> DEFINE after == ReleaseTables(state, [r \in S |-> tab[r]])
<1>1. Sound(after, CountOf(new))
    BY FinishedTables DEF Kept
<1>2. after.cache = state.cache
    BY DEF ReleaseTables
<1> HIDE DEF after
<1>3. << >> \in Seq(Pages) /\ Distinct(<< >>) /\ Range(<< >>) = {}
    BY EmptySeq DEF Distinct, Range
<1>4. \A r \in Requests : /\ new[r] = IF r \in S THEN << >> ELSE tab[r]
                          /\ next[r] = IF r \in S THEN end ELSE st[r]
    OBVIOUS
<1>5. new \in [Requests -> Seq(Pages)]
  <2>1. \A r \in Requests : (IF r \in S THEN << >> ELSE tab[r]) \in Seq(Pages)
    BY <1>3 DEF Kept
  <2>2. QED
    BY <2>1
<1>6. \A r \in Requests : Distinct(new[r]) /\ (next[r] \notin Active => new[r] = << >>)
    BY <1>3, <1>4 DEF Kept
<1>7. Apart(new, next, off, after.cache)
  <2>1. SUFFICES ASSUME NEW r \in Requests, next[r] \in Active, NEW i \in DOMAIN new[r],
                        i > off[r] \div PageTokens
                 PROVE  /\ EntriesOf(state.cache, new[r][i]) = {}
                        /\ \A q \in Requests : new[r][i] \in Range(new[q]) => q = r
    BY <1>2 DEF Apart
  <2>2. st[r] \in Active /\ new[r] = tab[r] /\ \A q \in Requests : Range(new[q]) \subseteq Range(tab[q])
    BY <1>3, <1>4, <2>1
  <2>3. QED
    BY <2>1, <2>2 DEF Kept, Apart
<1>8. QED
    BY <1>1, <1>5, <1>6, <1>7 DEF Kept, after

\* A request starts with pages that are new, or that are filled and in an entry.
LEMMA KeptAdmit ==
    ASSUME NEW tab, NEW st, NEW off, NEW state, Kept(tab, st, off, state),
           DOMAIN st = Requests,
           NEW r \in Requests, tab[r] = << >>, NEW lease, lease.ok,
           Lawful(lease, state, CountOf(tab)), NEW m \in Nat,
           \A i \in 1 .. Len(lease.pages) :
              \/ Unheld(lease.kv.cache, CountOf(tab), lease.pages[i])
              \/ i <= m \div PageTokens /\ EntriesOf(state.cache, lease.pages[i]) # {},
           NEW start \in Active
    PROVE  Kept([tab EXCEPT ![r] = lease.pages], [st EXCEPT ![r] = start],
                [off EXCEPT ![r] = m], lease.kv)
<1> DEFINE new   == [tab EXCEPT ![r] = lease.pages]
           next  == [st EXCEPT ![r] = start]
           past  == [off EXCEPT ![r] = m]
           pages == lease.pages
           after == lease.kv
<1>1. /\ tab \in [Requests -> Seq(Pages)] /\ off \in [Requests -> Nat]
      /\ \A q \in Requests : Distinct(tab[q]) /\ (st[q] \notin Active => tab[q] = << >>)
      /\ Apart(tab, st, off, state.cache)
    BY DEF Kept
<1>2. /\ pages \in Seq(Pages) /\ Distinct(pages)
      /\ Range(after.cache) \subseteq Range(state.cache)
      /\ Sound(after, Plus(CountOf(tab), pages))
    BY DEF Lawful
<1>3. /\ new[r] = pages /\ past[r] = m
      /\ \A q \in Requests : q # r => new[q] = tab[q] /\ past[q] = off[q] /\ next[q] = st[q]
      /\ \A q \in Requests : next[q] \in Active => q = r \/ st[q] \in Active
    BY <1>1
<1>4. new \in [Requests -> Seq(Pages)] /\ past \in [Requests -> Nat]
    BY <1>1, <1>2
<1>5. next[r] \in Active
    OBVIOUS
<1>6. CountOf(new) = Plus(CountOf(tab), pages)
    BY <1>1, GivenTable
<1>7. \A i \in 1 .. Len(pages) :
         \/ Unheld(after.cache, CountOf(tab), pages[i])
         \/ i <= m \div PageTokens /\ EntriesOf(state.cache, pages[i]) # {}
    OBVIOUS
<1>8. DOMAIN pages = 1 .. Len(pages) /\ Len(pages) \in Nat /\ \A i \in 1 .. Len(pages) : pages[i] \in Pages
    BY <1>2, TablesAreTyped
<1> HIDE DEF new, next, past, pages, after
<1>9. Apart(new, next, past, after.cache)
  <2>1. ASSUME NEW i \in DOMAIN new[r], i > m \div PageTokens
        PROVE  /\ EntriesOf(after.cache, new[r][i]) = {}
               /\ \A q \in Requests : new[r][i] \in Range(new[q]) => q = r
    <3>1. i \in 1 .. Len(pages) /\ m \div PageTokens \in Int
      BY <1>3, <1>8, KvAssumption
    <3>2. Unheld(after.cache, CountOf(tab), pages[i])
      BY <1>7, <2>1, <3>1
    <3>3. \A q \in Requests : pages[i] \notin Range(tab[q])
      BY <1>8, <3>1, <3>2, CountedPages DEF Unheld
    <3>4. QED
      BY <1>3, <3>2, <3>3 DEF Unheld
  <2>2. ASSUME NEW q \in Requests, q # r, next[q] \in Active, NEW i \in DOMAIN new[q],
               i > past[q] \div PageTokens
        PROVE  /\ EntriesOf(after.cache, new[q][i]) = {}
               /\ \A h \in Requests : new[q][i] \in Range(new[h]) => h = q
    <3> DEFINE p == tab[q][i]
    <3>1. st[q] \in Active /\ new[q] = tab[q] /\ i > off[q] \div PageTokens /\ i \in DOMAIN tab[q]
      BY <1>3, <2>2
    <3>2. EntriesOf(state.cache, p) = {} /\ \A h \in Requests : p \in Range(tab[h]) => h = q
      BY <1>1, <3>1 DEF Apart
    <3>3. p \in Range(tab[q]) /\ new[q][i] = p
      BY <3>1 DEF Range
    <3> HIDE DEF p
    <3>4. EntriesOf(after.cache, p) = {}
      BY <1>2, <3>2 DEF EntriesOf
    <3>5. p \notin Range(pages)
      <4>1. SUFFICES ASSUME NEW j \in 1 .. Len(pages), pages[j] = p PROVE FALSE
        BY <1>8 DEF Range
      <4>2. Unheld(after.cache, CountOf(tab), p)
        BY <1>7, <3>2, <4>1
      <4>3. p \notin Range(tab[q])
        BY <1>8, <4>1, <4>2, CountedPages DEF Unheld
      <4>4. QED
        BY <3>3, <4>3
    <3>6. \A h \in Requests : p \in Range(new[h]) => h = q
      BY <1>3, <3>2, <3>5
    <3>7. QED
      BY <3>3, <3>4, <3>6
  <2>3. QED
    BY <1>3, <2>1, <2>2 DEF Apart
<1>10. \A q \in Requests : Distinct(new[q]) /\ (next[q] \notin Active => new[q] = << >>)
    BY <1>1, <1>2, <1>3, <1>5
<1>11. QED
    BY <1>2, <1>4, <1>6, <1>9, <1>10 DEF Kept, new, next, past, pages, after

\* A finished prompt goes to the prefix cache with the pages it fills, and its
\* request goes on behind them.
LEMMA KeptInsert ==
    ASSUME NEW tab, NEW st, NEW off, NEW state, Kept(tab, st, off, state),
           NEW r \in Requests, st[r] \in Active, NEW prompt \in Seq(Nat),
           PagesFor(Len(prompt)) <= Len(tab[r]), off[r] = Len(prompt)
    PROVE  Kept(tab, st, off, Insert(state, prompt, tab[r]))
<1> DEFINE after == Insert(state, prompt, tab[r])
           pages == tab[r]
           whole == Len(prompt) \div PageTokens
<1>1. /\ tab \in [Requests -> Seq(Pages)] /\ off \in [Requests -> Nat]
      /\ \A q \in Requests : Distinct(tab[q]) /\ (st[q] \notin Active => tab[q] = << >>)
      /\ Apart(tab, st, off, state.cache) /\ Sound(state, CountOf(tab))
    BY DEF Kept
<1>2. pages \in Seq(Pages) /\ Distinct(pages) /\ PagesFor(Len(prompt)) <= Len(pages)
    BY <1>1
<1>3. after = Insert(state, prompt, pages)
    OBVIOUS
<1>4. whole \in Nat /\ whole <= Len(pages) /\ DOMAIN pages = 1 .. Len(pages) /\ Len(pages) \in Nat
  <2> DEFINE size == Len(prompt)
  <2>1. size \in Nat
    BY LenProperties
  <2> HIDE DEF size
  <2>2. /\ size \div PageTokens \in Nat /\ PagesFor(size) \in Nat
        /\ size \div PageTokens <= PagesFor(size)
    <3>1. /\ size \div PageTokens \in Nat /\ size % PageTokens \in Nat /\ PagesFor(size) \in Nat
          /\ size % PageTokens = 0 => PagesFor(size) = size \div PageTokens
          /\ size % PageTokens # 0 => PagesFor(size) = size \div PageTokens + 1
      BY <2>1, PagesForSize
    <3>2. QED
      BY <3>1
  <2>3. DOMAIN pages = 1 .. Len(pages) /\ Len(pages) \in Nat
    BY <1>2, TablesAreTyped
  <2>4. QED
    BY <1>2, <2>2, <2>3 DEF size
<1>5. off[r] \div PageTokens = whole
    OBVIOUS
<1> HIDE DEF after, pages, whole
<1>6. Sound(after, CountOf(tab)) /\ SharesWhole(after.cache, state.cache, CountOf(tab), pages, whole)
    BY <1>1, <1>2, <1>3, InsertSound DEF whole
<1>7. Apart(tab, st, off, after.cache)
  <2>1. SUFFICES ASSUME NEW q \in Requests, st[q] \in Active, NEW i \in DOMAIN tab[q],
                        i > off[q] \div PageTokens,
                        NEW e \in Range(after.cache), tab[q][i] \in Range(e.pages)
                 PROVE  FALSE
    BY <1>1 DEF Apart, EntriesOf
  <2> DEFINE p == tab[q][i]
  <2>2. /\ EntriesOf(state.cache, p) = {}
        /\ \A h \in Requests : p \in Range(tab[h]) => h = q
    BY <1>1, <2>1 DEF Apart
  <2>3. p \in Range(tab[q]) /\ p \in Pages
    <3>1. p \in Range(tab[q])
      BY DEF Range
    <3>2. QED
      BY <1>1, <3>1, TablesAreTyped
  <2>4. e \notin Range(state.cache)
    BY <2>1, <2>2 DEF EntriesOf
  <2>5. CountOf(tab)[p] # 0
    BY <2>3, CountedPages
  <2>6. PICK j \in 1 .. whole : p = pages[j]
    BY <1>6, <2>1, <2>4, <2>5 DEF SharesWhole
  <2>7. j \in DOMAIN pages /\ j <= whole
    BY <1>4
  <2>8. r = q
    BY <2>2, <2>6, <2>7 DEF pages, Range
  <2>9. i = j
    BY <1>2, <2>6, <2>7, <2>8 DEF Distinct, pages
  <2>10. QED
    BY <1>4, <1>5, <2>1, <2>7, <2>8, <2>9
<1>8. QED
    BY <1>1, <1>6, <1>7 DEF Kept, after

Longer(new, tab, S) ==
    /\ \A r \in S : Len(new[r]) = Len(tab[r]) + 1
    /\ \A r \in Requests \ S : new[r] = tab[r]

\* Each of some requests on a lane gets a page of the pool that nobody holds.
LEMMA KeptGrow ==
    ASSUME NEW tab, NEW st, NEW off, NEW state, Kept(tab, st, off, state),
           NEW S, S \subseteq Requests, \A r \in S : st[r] \in Active,
           NEW n \in Nat, Fits(state, n), NEW pos, Deals(pos, S, Taken(state, n)),
           NEW new, new = Grown(tab, S, Taken(state, n), pos)
    PROVE  /\ Kept(new, st, off, RetainPages(state, Taken(state, n)))
           /\ Longer(new, tab, S)
<1> DEFINE pages == Taken(state, n)
           after == RetainPages(state, pages)
<1>1. /\ tab \in [Requests -> Seq(Pages)] /\ off \in [Requests -> Nat]
      /\ \A q \in Requests : Distinct(tab[q]) /\ (st[q] \notin Active => tab[q] = << >>)
      /\ Apart(tab, st, off, state.cache) /\ Sound(state, CountOf(tab))
    BY DEF Kept
<1>2. /\ pages \in Seq(Pages) /\ Distinct(pages)
      /\ \A p \in Range(pages) : p \in Pages /\ state.refs[p] = 0
    BY TakenProperties
<1>3. after.cache = state.cache
    BY DEF RetainPages
<1>4. Deals(pos, S, pages) /\ new = Grown(tab, S, pages, pos)
    OBVIOUS
<1> HIDE DEF pages
<1>5. Sound(after, Plus(CountOf(tab), pages))
    BY <1>1, <1>2, RetainSound
<1> HIDE DEF after
<1>6. ASSUME NEW p \in Range(pages)
      PROVE  /\ CountOf(tab)[p] = 0 /\ EntriesOf(state.cache, p) = {}
             /\ \A q \in Requests : p \notin Range(tab[q])
  <2>1. p \in Pages /\ Unheld(state.cache, CountOf(tab), p)
    BY <1>1, <1>2, FreeIsUnheld
  <2>2. QED
    BY <2>1, CountedPages DEF Unheld
<1>7. /\ CountOf(new) = Plus(CountOf(tab), pages)
      /\ new \in [Requests -> Seq(Pages)]
      /\ Extends(new, tab, S, pages, pos)
  <2>1. \A p \in Range(pages) : CountOf(tab)[p] = 0
    BY <1>6
  <2>2. QED
    BY <1>1, <1>2, <1>4, <2>1, GrownTables
<1>7a. ASSUME NEW r \in Requests, r \notin S PROVE new[r] = tab[r]
    BY <1>7, <1>7a DEF Extends
<1>7b. ASSUME NEW r \in S
       PROVE  /\ pages[pos[r]] \in Range(pages) /\ Len(new[r]) = Len(tab[r]) + 1
              /\ new[r][Len(new[r])] = pages[pos[r]]
              /\ \A i \in DOMAIN tab[r] : new[r][i] = tab[r][i]
              /\ Range(new[r]) = Range(tab[r]) \cup {pages[pos[r]]}
    BY <1>7 DEF Extends
<1>8. \A q, r \in S : pages[pos[q]] = pages[pos[r]] => q = r
    BY <1>2, <1>4 DEF Deals, Distinct
<1>9. \A r \in Requests : /\ Len(tab[r]) \in Nat /\ DOMAIN tab[r] = 1 .. Len(tab[r])
                          /\ Len(new[r]) \in Nat /\ DOMAIN new[r] = 1 .. Len(new[r])
    BY <1>1, <1>7, LenProperties
\* A place of a table is an old one, or the one of the new page.
<1>10. ASSUME NEW r \in Requests, NEW i \in DOMAIN new[r]
       PROVE  \/ i \in DOMAIN tab[r] /\ new[r][i] = tab[r][i] /\ new[r][i] \in Range(tab[r])
              \/ r \in S /\ i = Len(new[r]) /\ new[r][i] = pages[pos[r]]
  <2>1. CASE r \in S
    <3>1. i \in DOMAIN tab[r] \/ i = Len(new[r])
      BY <1>7b, <1>9, <2>1
    <3>2. QED
      BY <1>7b, <2>1, <3>1 DEF Range
  <2>2. CASE r \notin S
    <3>1. new[r] = tab[r]
      BY <1>7a, <2>2
    <3>2. QED
      BY <3>1 DEF Range
  <2>3. QED
    BY <2>1, <2>2
<1>11. ASSUME NEW r \in Requests PROVE Distinct(new[r])
  <2>1. SUFFICES ASSUME NEW i \in DOMAIN new[r], NEW j \in DOMAIN new[r], new[r][i] = new[r][j]
                 PROVE  i = j
    BY DEF Distinct
  <2>2. r \in S => pages[pos[r]] \notin Range(tab[r])
    BY <1>6, <1>7b
  <2>3. CASE /\ i \in DOMAIN tab[r] /\ new[r][i] = tab[r][i]
             /\ j \in DOMAIN tab[r] /\ new[r][j] = tab[r][j]
    BY <1>1, <2>1, <2>3 DEF Distinct
  <2>4. QED
    BY <1>10, <2>1, <2>2, <2>3
<1>12. Apart(new, st, off, after.cache)
  <2>1. SUFFICES ASSUME NEW r \in Requests, st[r] \in Active, NEW i \in DOMAIN new[r],
                        i > off[r] \div PageTokens
                 PROVE  /\ EntriesOf(state.cache, new[r][i]) = {}
                        /\ \A q \in Requests : new[r][i] \in Range(new[q]) => q = r
    BY <1>3 DEF Apart
  <2>2. ASSUME NEW q \in Requests, NEW p \in Range(new[q])
        PROVE  p \in Range(tab[q]) \/ (q \in S /\ p = pages[pos[q]] /\ p \in Range(pages))
    <3>1. CASE q \in S
      <4>1. Range(new[q]) = Range(tab[q]) \cup {pages[pos[q]]} /\ pages[pos[q]] \in Range(pages)
        BY <1>7b, <3>1
      <4>2. QED
        BY <3>1, <4>1
    <3>2. QED
      BY <1>7a, <3>1
  <2>3. CASE i \in DOMAIN tab[r] /\ new[r][i] = tab[r][i] /\ new[r][i] \in Range(tab[r])
    <3>1. /\ EntriesOf(state.cache, new[r][i]) = {}
          /\ \A q \in Requests : new[r][i] \in Range(tab[q]) => q = r
      BY <1>1, <2>1, <2>3 DEF Apart
    <3>2. new[r][i] \notin Range(pages)
      BY <1>6, <2>3
    <3>3. QED
      BY <2>2, <3>1, <3>2
  <2>4. CASE r \in S /\ new[r][i] = pages[pos[r]]
    <3>1. new[r][i] \in Range(pages)
      BY <1>7b, <2>4
    <3>2. /\ EntriesOf(state.cache, new[r][i]) = {}
          /\ \A q \in Requests : new[r][i] \notin Range(tab[q])
      BY <1>6, <3>1
    <3>3. QED
      BY <1>8, <2>2, <2>4, <3>2
  <2>5. QED
    BY <1>10, <2>3, <2>4
<1>13. \A r \in Requests : st[r] \notin Active => new[r] = << >>
    BY <1>1, <1>7a
<1>14. Longer(new, tab, S)
    BY <1>7a, <1>7b DEF Longer
<1>15. QED
    BY <1>1, <1>5, <1>7, <1>11, <1>12, <1>13, <1>14 DEF Kept, after, pages
-----------------------------------------------------------------------------
(* The order of the requests. *)

Ahead == {x \in Requests \X Requests : Before(x[1], x[2])}

LEMMA AheadOrders ==
    ASSUME NEW S, S \subseteq Requests
    PROVE  /\ Orders(Ahead, S) /\ IsFiniteSet(S)
           /\ \A r \in S : {q \in S : Before(q, r)} = Below(S, Ahead, r)
<1>1. \A r \in Requests : r \in Int /\ Priority[r] \in Nat
    BY CudaAssumption DEF Requests
<1>2. \A q, r \in Requests : <<q, r>> \in Ahead <=> Before(q, r)
    BY DEF Ahead
<1>3. Orders(Ahead, S)
  <2>1. \A x \in S : ~Before(x, x)
    BY <1>1 DEF Before
  <2>2. ASSUME NEW x \in S, NEW y \in S, NEW z \in S, Before(x, y), Before(y, z)
        PROVE  Before(x, z)
    BY <1>1, <2>2 DEF Before
  <2>3. \A x, y \in S : x = y \/ Before(x, y) \/ Before(y, x)
    BY <1>1 DEF Before
  <2>4. QED
    BY <1>2, <2>1, <2>2, <2>3 DEF Orders
<1>4. \A r \in S : {q \in S : Before(q, r)} = Below(S, Ahead, r)
    BY <1>2 DEF Below
<1>5. QED
    BY <1>3, <1>4, RequestsAreFinite

\* The first k are at most k.
LEMMA FirstAreFew ==
    ASSUME NEW S, S \subseteq Requests, NEW k \in Nat
    PROVE  First(S, k) \subseteq S /\ Cardinality(First(S, k)) \in Nat /\ Cardinality(First(S, k)) <= k
<1> DEFINE F == First(S, k)
           rank == [r \in F |-> Cardinality(Below(S, Ahead, r))]
<1>1. /\ Orders(Ahead, S) /\ IsFiniteSet(S)
      /\ \A r \in S : {q \in S : Before(q, r)} = Below(S, Ahead, r)
    BY AheadOrders
<1>2. F \subseteq S /\ \A r \in F : Cardinality(Below(S, Ahead, r)) < k
    BY <1>1 DEF First
<1>3. /\ Cardinality(S) \in Nat
      /\ \A x \in S : Cardinality(Below(S, Ahead, x)) \in 0 .. Cardinality(S) - 1
      /\ \A x, y \in S : Cardinality(Below(S, Ahead, x)) = Cardinality(Below(S, Ahead, y)) => x = y
    BY <1>1, Ranks
<1> HIDE DEF F
<1>4. \A r \in F : Cardinality(Below(S, Ahead, r)) \in 0 .. k - 1
    BY <1>2, <1>3
<1>5. rank \in Injection(F, 0 .. k - 1)
    BY <1>2, <1>3, <1>4 DEF Injection, IsInjective
<1>6. IsFiniteSet(0 .. k - 1) /\ Cardinality(0 .. k - 1) = k
  <2>1. k - 1 \in Int
    OBVIOUS
  <2>2. QED
    BY <2>1, FS_Interval
<1>7. IsFiniteSet(F) /\ Cardinality(F) <= k
    BY <1>5, <1>6, FS_Injection
<1>8. QED
    BY <1>2, <1>7, FS_CardinalityType DEF F

\* Counting who comes before gives each request a place of its own.
LEMMA Dealing ==
    ASSUME NEW S, S \subseteq Requests, NEW pages \in Seq(Pages), Len(pages) = Cardinality(S)
    PROVE  Deals([r \in S |-> 1 + Cardinality({q \in S : Before(q, r)})], S, pages)
<1> DEFINE n   == Cardinality(S)
           pos == [r \in S |-> 1 + Cardinality({q \in S : Before(q, r)})]
<1>1. /\ Orders(Ahead, S) /\ IsFiniteSet(S)
      /\ \A r \in S : {q \in S : Before(q, r)} = Below(S, Ahead, r)
    BY AheadOrders
<1>2. /\ n \in Nat
      /\ \A x \in S : Cardinality(Below(S, Ahead, x)) \in 0 .. n - 1
      /\ \A x, y \in S : Cardinality(Below(S, Ahead, x)) = Cardinality(Below(S, Ahead, y)) => x = y
      /\ \A k \in 0 .. n - 1 : \E x \in S : Cardinality(Below(S, Ahead, x)) = k
    BY <1>1, Ranks
<1>3. \A r \in S : pos[r] = 1 + Cardinality(Below(S, Ahead, r))
    BY <1>1
<1>4. DOMAIN pages = 1 .. n
    BY LenProperties
<1> HIDE DEF n, pos
<1>5. \A r \in S : pos[r] \in 1 .. n
    BY <1>2, <1>3
<1>6. \A q, r \in S : pos[q] = pos[r] => q = r
    BY <1>2, <1>3
<1>7. ASSUME NEW i \in 1 .. n PROVE \E r \in S : pos[r] = i
  <2>1. i - 1 \in 0 .. n - 1
    BY <1>2
  <2>2. PICK r \in S : Cardinality(Below(S, Ahead, r)) = i - 1
    BY <1>2, <2>1
  <2>3. QED
    BY <1>2, <1>3, <2>1, <2>2
<1>8. QED
    BY <1>4, <1>5, <1>6, <1>7 DEF Deals, pos

LEMMA InOrderMembers ==
    ASSUME NEW S, S \subseteq Requests
    PROVE  \A i \in DOMAIN InOrder(S) : InOrder(S)[i] \in S /\ i \in Nat \ {0}
<1>1. /\ Orders(Ahead, S) /\ IsFiniteSet(S)
      /\ \A r \in S : {q \in S : Before(q, r)} = Below(S, Ahead, r)
    BY AheadOrders
<1>2. /\ Cardinality(S) \in Nat
      /\ \A k \in 0 .. Cardinality(S) - 1 : \E x \in S : Cardinality(Below(S, Ahead, x)) = k
    BY <1>1, Ranks
<1>3. ASSUME NEW i \in 1 .. Cardinality(S)
      PROVE  (CHOOSE r \in S : Cardinality({q \in S : Before(q, r)}) = i - 1) \in S
  <2>1. i - 1 \in 0 .. Cardinality(S) - 1
    BY <1>2
  <2>2. \E r \in S : Cardinality({q \in S : Before(q, r)}) = i - 1
    BY <1>1, <1>2, <2>1
  <2>3. QED
    BY <2>2
<1>4. /\ DOMAIN InOrder(S) = 1 .. Cardinality(S)
      /\ \A i \in 1 .. Cardinality(S) :
            InOrder(S)[i] = CHOOSE r \in S : Cardinality({q \in S : Before(q, r)}) = i - 1
    BY DEF InOrder
<1>5. ASSUME NEW i \in DOMAIN InOrder(S) PROVE InOrder(S)[i] \in S /\ i \in Nat \ {0}
  <2>1. i \in 1 .. Cardinality(S) /\ i \in Nat \ {0}
    BY <1>2, <1>4
  <2>2. InOrder(S)[i] = CHOOSE r \in S : Cardinality({q \in S : Before(q, r)}) = i - 1
    BY <1>4, <2>1
  <2>3. QED
    BY <1>3, <2>1, <2>2
<1>6. QED
    BY <1>5
-----------------------------------------------------------------------------
(* The state. *)

\* Besides its pages: what a request has generated, how much of its prompt is done,
\* and that its table is long enough for both.
Sized(r) ==
    /\ offset[r] <= Len(Prompt[r])
    /\ status[r] \in {"Unsubmitted", "Released", "Queued", "Prefill"} => generated[r] = 0
    /\ status[r] \in Active => PagesFor(Reservation(r)) <= Len(table[r])
    /\ status[r] = "Decoding" => /\ generated[r] < MaxNew[r]
                                 /\ Len(Prompt[r]) + generated[r] <= Len(table[r]) * PageTokens

\* The requests of a batch stay in the phase it was planned for.
BatchStays ==
    /\ pc = "prefilling" => \A r \in DOMAIN work : status[r] = "Prefill" /\ work[r] <= Remaining(r)
    /\ pc = "decoding" =>
          \A r \in DOMAIN work :
             status[r] = "Decoding" /\ Len(Prompt[r]) + generated[r] < Len(table[r]) * PageTokens
    /\ pc \notin {"prefilling", "decoding"} => DOMAIN work = {}

\* The type invariant, but for the pages.
Typed ==
    /\ status \in [Requests -> {"Queued"} \cup Active \cup Terminal \cup Absent]
    /\ offset \in [Requests -> Nat]
    /\ generated \in [Requests -> Nat]
    /\ polled \in [Requests -> Nat]
    /\ cancelReq \in [Requests -> BOOLEAN]
    /\ pc \in {"idle", "admit1", "prefill", "prefilling", "decode", "decoding", "admit2"}
    /\ DOMAIN work \subseteq Requests /\ \A r \in DOMAIN work : work[r] \in Nat \ {0}

IInv ==
    /\ Typed
    /\ Kept(table, status, offset, kv)
    /\ \A r \in Requests : Sized(r)
    /\ BatchStays

LEMMA Numbers ==
    ASSUME NEW r \in Requests
    PROVE  /\ Len(Prompt[r]) \in Nat /\ Prompt[r] \in Seq(Nat) /\ MaxNew[r] \in Nat /\ MaxNew[r] >= 1
           /\ Reservation(r) \in Nat /\ Len(Prompt[r]) <= Reservation(r)
           /\ GuaranteedNoEvict => Reservation(r) = Len(Prompt[r]) + MaxNew[r]
           /\ PagesFor(Reservation(r)) \in Nat
           /\ Reservation(r) <= PagesFor(Reservation(r)) * PageTokens
           /\ PagesFor(Len(Prompt[r])) <= PagesFor(Reservation(r))
           /\ PageTokens \in Nat /\ PageTokens >= 1
<1> DEFINE n == Len(Prompt[r])
           more == Reservation(r)
<1>1. n \in Nat /\ Prompt[r] \in Seq(Nat) /\ MaxNew[r] \in Nat /\ MaxNew[r] >= 1
    BY CudaAssumption, LenProperties
<1>2. PageTokens \in Nat /\ PageTokens >= 1
    BY KvAssumption
<1>3. /\ more \in Nat /\ n <= more
      /\ GuaranteedNoEvict => more = n + MaxNew[r]
    BY <1>1, <1>2, CudaAssumption DEF Reservation
<1> HIDE DEF n, more
<1>4. PagesFor(more) \in Nat /\ more <= PagesFor(more) * PageTokens
    BY <1>3, PagesForSize
<1>5. PagesFor(n) <= PagesFor(more)
  <2>1. n + PageTokens - 1 \in Nat /\ more + PageTokens - 1 \in Nat
        /\ n + PageTokens - 1 <= more + PageTokens - 1
    BY <1>1, <1>2, <1>3
  <2>2. QED
    BY <2>1, Quotients DEF PagesFor
<1>6. QED
    BY <1>1, <1>2, <1>3, <1>4, <1>5 DEF n, more

\* What an admission is given.
LEMMA LeaseSound ==
    ASSUME IInv, NEW r \in Requests
    PROVE  /\ Lawful(Lease(r), kv, CountOf(table))
           /\ Matched(r) \in Nat /\ Matched(r) <= Len(Prompt[r])
           /\ Lease(r).ok =>
                 /\ Len(Lease(r).pages) >= PagesFor(Reservation(r))
                 /\ \A i \in 1 .. Len(Lease(r).pages) :
                       \/ Unheld(Lease(r).kv.cache, CountOf(table), Lease(r).pages[i])
                       \/ /\ i <= Matched(r) \div PageTokens
                          /\ EntriesOf(kv.cache, Lease(r).pages[i]) # {}
<1> DEFINE lease == Lease(r)
           need  == Reservation(r)
           held  == CountOf(table)
<1>1. /\ Sound(kv, held) /\ need \in Nat /\ PagesFor(need) \in Nat
      /\ Len(Prompt[r]) \in Nat
    BY Numbers DEF IInv, Kept
<1> HIDE DEF need, held
<1>2. CASE Match(r) = {}
  <2>1. lease = Obtain(kv, PagesFor(need), << >>) /\ Matched(r) = 0
    BY <1>2 DEF Lease, Matched, need
  <2>2. PagesFor(need) \in Int
    BY <1>1
  <2> DEFINE keep == << >>
             n    == PagesFor(need)
  <2>3. lease = Obtain(kv, n, keep) /\ n \in Int
    BY <2>1, <2>2
  <2> HIDE DEF lease, keep, n
  <2>4. /\ Lawful(lease, kv, held)
        /\ lease.ok => /\ Len(lease.pages) = IF n > 0 THEN n ELSE 0
                       /\ \A p \in Range(lease.pages) : Unheld(lease.kv.cache, held, p)
    BY <1>1, <2>3, ObtainSound
  <2>5. lease.pages \in Seq(Pages)
    BY <2>4 DEF Lawful
  <2>6. lease.ok => Len(lease.pages) >= n
    BY <1>1, <2>4 DEF n
  <2>7. lease.ok => \A i \in 1 .. Len(lease.pages) : Unheld(lease.kv.cache, held, lease.pages[i])
    BY <2>4, <2>5, TablesAreTyped
  <2>8. QED
    BY <1>1, <2>1, <2>4, <2>6, <2>7 DEF lease, n, need, held
<1>3. CASE Match(r) # {}
  <2> DEFINE e == CHOOSE f \in Match(r) : TRUE
             m == Len(e.prompt)
  <2>1. e \in Match(r) /\ lease = Acquire(kv, e, need) /\ Matched(r) = m
    BY <1>3 DEF Lease, Matched, need
  <2>2. e \in Range(kv.cache) /\ IsPrefix(e.prompt, Prompt[r])
    BY <2>1 DEF Match, Longest
  <2>3. m \in Nat /\ m <= Len(Prompt[r])
    <3>1. e \in Entry
      BY <1>1, <2>2, EntriesAreFinite DEF Sound
    <3>2. e.prompt \in Seq(Nat)
      BY <3>1 DEF Entry
    <3>3. QED
      BY <2>2, <3>2, LenProperties DEF IsPrefix
  <2> HIDE DEF e, lease
  <2>4. /\ Lawful(lease, kv, held)
        /\ lease.ok => Leased(lease, kv, held, e, need)
    BY <1>1, <2>1, <2>2, AcquireSound
  <2>5. QED
    BY <2>1, <2>3, <2>4 DEF Leased, lease, need, held
<1>4. QED
    BY <1>2, <1>3
-----------------------------------------------------------------------------
(* Parts of steps. *)

\* Requests that leave and enter without pages.
LEMMA PagesStay ==
    ASSUME IInv, UNCHANGED <<table, kv>>, offset' \in [Requests -> Nat],
           \A r \in Requests :
              \/ UNCHANGED <<status[r], offset[r]>>
              \/ status[r] \notin Active /\ status'[r] \notin Active
    PROVE  Kept(table', status', offset', kv')
<1>1. Kept(table, status, offset, kv) /\ offset \in [Requests -> Nat]
    BY DEF IInv, Kept
<1>2. \A r \in Requests :
         \/ table[r] = << >> /\ status'[r] \notin Active
         \/ status[r] \in Active /\ status'[r] \in Active /\ offset[r] <= offset'[r]
  <2>1. \A r \in Requests : offset[r] \in Nat /\ (status[r] \notin Active => table[r] = << >>)
    BY <1>1 DEF Kept
  <2>2. QED
    BY <2>1
<1>3. Kept(table, status', offset', kv)
    BY <1>1, <1>2, KeptMoves
<1>4. QED
    BY <1>3

LEMMA PagesGiven ==
    ASSUME IInv, NEW S, S \subseteq Requests, NEW state, Sound(state, CountOf(table)),
           Range(state.cache) \subseteq Range(kv.cache),
           NEW end \in Terminal, Finish(S, state, end), UNCHANGED offset
    PROVE  /\ Kept(table', status', offset', kv')
           /\ \A r \in S : status'[r] = end
           /\ \A r \in Requests \ S : UNCHANGED <<status[r], table[r]>>
           /\ status' \in [Requests -> {"Queued"} \cup Active \cup Terminal \cup Absent]
           /\ Range(kv'.cache) \subseteq Range(kv.cache)
<1>1. Kept(table, status, offset, state)
    BY KeptSmaller DEF IInv
<1>2. /\ status' = [r \in Requests |-> IF r \in S THEN end ELSE status[r]]
      /\ table' = [r \in Requests |-> IF r \in S THEN << >> ELSE table[r]]
      /\ kv' = ReleaseTables(state, [r \in S |-> table[r]])
    BY DEF Finish, TablesOf
<1>3. end \notin Active
    BY DEF Terminal, Active
<1>4. Kept(table', status', offset, ReleaseTables(state, [r \in S |-> table[r]]))
    BY <1>1, <1>2, <1>3, KeptFinish
<1>5. kv'.cache = state.cache
    BY <1>2 DEF ReleaseTables
<1>6. status' \in [Requests -> {"Queued"} \cup Active \cup Terminal \cup Absent]
    BY <1>2 DEF IInv, Typed
<1>7. QED
    BY <1>2, <1>4, <1>5, <1>6

LEMMA OneOver ==
    ASSUME IInv, NEW r \in Requests, NEW state, Sound(state, CountOf(table)),
           Range(state.cache) \subseteq Range(kv.cache),
           NEW end \in Terminal, Finish({r}, state, end), UNCHANGED offset
    PROVE  /\ Kept(table', status', offset', kv') /\ status'[r] = end
           /\ \A q \in Requests : q # r => UNCHANGED <<status[q], table[q]>>
           /\ status' \in [Requests -> {"Queued"} \cup Active \cup Terminal \cup Absent]
<1> DEFINE S == {r}
<1>1. S \subseteq Requests /\ Finish(S, state, end)
    OBVIOUS
<1> HIDE DEF S
<1>2. /\ Kept(table', status', offset', kv')
      /\ \A q \in S : status'[q] = end
      /\ \A q \in Requests \ S : UNCHANGED <<status[q], table[q]>>
      /\ status' \in [Requests -> {"Queued"} \cup Active \cup Terminal \cup Absent]
    BY <1>1, PagesGiven
<1>3. QED
    BY <1>2 DEF S

\* A request that is over, and one that nothing happens to.
LEMMA SizedOver ==
    ASSUME IInv, NEW r \in Requests, status'[r] \in Terminal, UNCHANGED offset[r]
    PROVE  Sized(r)'
BY DEF IInv, Sized, Terminal, Active

LEMMA SizedSame ==
    ASSUME IInv, NEW r \in Requests, UNCHANGED <<status[r], offset[r], generated[r], table[r]>>
    PROVE  Sized(r)'
BY DEF IInv, Sized

\* The requests S are over, the others go on as they were.
LEMMA FinishSized ==
    ASSUME IInv, NEW S, S \subseteq Requests, NEW end \in Terminal,
           \A r \in S : status'[r] = end,
           \A r \in Requests \ S : UNCHANGED <<status[r], table[r], generated[r]>>,
           UNCHANGED offset
    PROVE  \A r \in Requests : Sized(r)'
BY SizedOver, SizedSame

\* Nobody of the batch is touched.
LEMMA BatchSame ==
    ASSUME IInv, UNCHANGED <<work, pc, offset>>,
           \A r \in DOMAIN work : UNCHANGED <<status[r], generated[r], table[r]>>
    PROVE  BatchStays'
BY DEF IInv, BatchStays, Remaining
-----------------------------------------------------------------------------
(* The steps. *)

LEMMA ClientKeeps ==
    ASSUME IInv, ClientNext
    PROVE  IInv'
<1>1. Typed /\ Kept(table, status, offset, kv) /\ BatchStays /\ \A r \in Requests : Sized(r)
    BY DEF IInv
<1>2. UNCHANGED <<table, kv, pc, work>>
    BY DEF ClientNext, Submit, Cancel, Release, Poll
\* Nobody of a batch can be submitted or released.
<1>3. \A r \in DOMAIN work : r \in Requests /\ status[r] \in Active
  <2>1. DOMAIN work \subseteq Requests
    BY <1>1 DEF Typed
  <2>2. QED
    BY <1>1, <2>1 DEF BatchStays, Active
<1>4. PICK r \in Requests : Submit(r) \/ Cancel(r) \/ Release(r) \/ \E n \in 1 .. MaxNew[r] : Poll(r, n)
    BY DEF ClientNext
<1>5. CASE Submit(r)
  <2>1. /\ status[r] = "Unsubmitted" /\ status' = [status EXCEPT ![r] = "Queued"]
        /\ UNCHANGED <<offset, generated, polled, cancelReq>>
    BY <1>5 DEF Submit
  <2>2. status'[r] = "Queued" /\ \A q \in Requests : q # r => status'[q] = status[q]
    BY <1>1, <2>1 DEF Typed
  <2>3. Typed'
    BY <1>1, <1>2, <2>1 DEF Typed
  <2>4. Kept(table', status', offset', kv')
    <3>1. \A q \in Requests : \/ UNCHANGED <<status[q], offset[q]>>
                              \/ status[q] \notin Active /\ status'[q] \notin Active
      BY <2>1, <2>2 DEF Active
    <3>2. QED
      BY <1>1, <1>2, <2>1, <3>1, PagesStay DEF Kept
  <2>5. \A q \in Requests : Sized(q)'
    <3>1. Sized(r)'
      BY <1>1, <2>1, <2>2 DEF Sized, Active
    <3>2. QED
      BY <1>2, <2>1, <2>2, <3>1, SizedSame
  <2>6. BatchStays'
    <3>1. r \notin DOMAIN work
      BY <1>3, <2>1 DEF Active
    <3>2. QED
      BY <1>2, <1>3, <2>1, <2>2, <3>1, BatchSame
  <2>7. QED
    BY <2>3, <2>4, <2>5, <2>6 DEF IInv
<1>6. CASE Cancel(r) \/ \E n \in 1 .. MaxNew[r] : Poll(r, n)
  <2>1. UNCHANGED <<status, offset, generated>>
    BY <1>6 DEF Cancel, Poll
  <2>2. Typed'
    <3>1. CASE Cancel(r)
      BY <1>1, <1>2, <2>1, <3>1 DEF Typed, Cancel
    <3>2. CASE \E n \in 1 .. MaxNew[r] : Poll(r, n)
      <4>1. PICK n \in 1 .. MaxNew[r] : Poll(r, n)
        BY <3>2
      <4>2. polled' = [polled EXCEPT ![r] = @ + n] /\ UNCHANGED cancelReq /\ n \in Nat
        BY <4>1, Numbers DEF Poll
      <4>3. QED
        BY <1>1, <1>2, <2>1, <4>2 DEF Typed
    <3>3. QED
      BY <1>6, <3>1, <3>2
  <2>3. QED
    BY <1>1, <1>2, <2>1, <2>2, SizedSame, BatchSame DEF IInv
<1>7. CASE Release(r)
  <2>1. /\ status[r] \in Terminal /\ status' = [status EXCEPT ![r] = "Released"]
        /\ offset' = [offset EXCEPT ![r] = 0] /\ generated' = [generated EXCEPT ![r] = 0]
        /\ polled' = [polled EXCEPT ![r] = 0] /\ cancelReq' = [cancelReq EXCEPT ![r] = FALSE]
    BY <1>7 DEF Release
  <2>2. /\ status'[r] = "Released" /\ offset'[r] = 0 /\ generated'[r] = 0
        /\ \A q \in Requests : q # r => UNCHANGED <<status[q], offset[q], generated[q]>>
    BY <1>1, <2>1 DEF Typed
  <2>3. Typed'
    BY <1>1, <1>2, <2>1 DEF Typed, Absent
  <2>4. Kept(table', status', offset', kv')
    <3>1. \A q \in Requests : \/ UNCHANGED <<status[q], offset[q]>>
                              \/ status[q] \notin Active /\ status'[q] \notin Active
      BY <2>1, <2>2 DEF Active, Terminal
    <3>2. QED
      BY <1>2, <2>3, <3>1, PagesStay DEF Typed
  <2>5. \A q \in Requests : Sized(q)'
    <3>1. Sized(r)'
      BY <2>2, Numbers DEF Sized, Active
    <3>2. QED
      BY <1>2, <2>2, <3>1, SizedSame
  <2>6. BatchStays'
    <3>1. r \notin DOMAIN work
      BY <1>3, <2>1 DEF Active, Terminal
    <3>2. \A q \in DOMAIN work : UNCHANGED <<status[q], offset[q], generated[q], table[q]>>
      BY <1>2, <1>3, <2>2, <3>1
    <3>3. QED
      BY <1>1, <1>2, <3>2 DEF BatchStays, Remaining
  <2>7. QED
    BY <2>3, <2>4, <2>5, <2>6 DEF IInv
<1>8. QED
    BY <1>4, <1>5, <1>6, <1>7

\* A table that is long enough for the reservation is long enough for the prompt.
LEMMA Enough ==
    ASSUME NEW r \in Requests, NEW n \in Nat, PagesFor(Reservation(r)) <= n
    PROVE  /\ Reservation(r) <= n * PageTokens /\ Len(Prompt[r]) <= n * PageTokens
           /\ GuaranteedNoEvict => Len(Prompt[r]) + MaxNew[r] <= n * PageTokens
<1> DEFINE k == PagesFor(Reservation(r))
           m == Reservation(r)
           size == Len(Prompt[r])
           new == MaxNew[r]
<1>1. /\ k \in Nat /\ m \in Nat /\ size \in Nat /\ new \in Nat /\ m <= k * PageTokens /\ size <= m
      /\ PageTokens \in Nat
      /\ GuaranteedNoEvict => m = size + new
    BY Numbers
<1>2. k <= n
    OBVIOUS
<1> HIDE DEF k, m, size, new
<1>3. k * PageTokens <= n * PageTokens
  <2>1. n - k \in Nat
    BY <1>1, <1>2
  <2>2. (n - k) * PageTokens \in Nat
    BY <1>1, <2>1
  <2>3. n * PageTokens = k * PageTokens + (n - k) * PageTokens
    BY <1>1, <2>1
  <2>4. QED
    BY <1>1, <2>2, <2>3
<1>4. k * PageTokens \in Nat /\ n * PageTokens \in Nat
    BY <1>1
<1>5. QED
    BY <1>1, <1>3, <1>4 DEF m, size, new

LEMMA AdmissionKeeps ==
    ASSUME IInv, AdmitNext
    PROVE  IInv'
<1>1. Typed /\ Kept(table, status, offset, kv) /\ BatchStays /\ \A r \in Requests : Sized(r)
    BY DEF IInv
<1>2. PICK r \in BestQueued : AdmitCancelled(r) \/ Admit(r) \/ LaneFails(r) \/ NoPages(r)
    BY DEF AdmitNext
<1>3. UNCHANGED <<generated, polled, cancelReq, work>> /\ pc \in {"admit1", "admit2"}
    BY DEF AdmitNext, Admitting
<1>4. r \in Requests /\ status[r] = "Queued"
    BY DEF BestQueued, First, InStatus
<1>5. pc' \in {"admit1", "admit2", "prefill", "idle"}
    BY <1>2, <1>3 DEF AdmitCancelled, Admit, LaneFails, NoPages, AdmissionOver
<1>6. BatchStays'
    BY <1>1, <1>3, <1>5 DEF BatchStays
<1> DEFINE lease == Lease(r)
<1>7. /\ Lawful(lease, kv, CountOf(table))
      /\ Matched(r) \in Nat /\ Matched(r) <= Len(Prompt[r])
      /\ lease.ok =>
            /\ Len(lease.pages) >= PagesFor(Reservation(r))
            /\ \A i \in 1 .. Len(lease.pages) :
                  \/ Unheld(lease.kv.cache, CountOf(table), lease.pages[i])
                  \/ i <= Matched(r) \div PageTokens /\ EntriesOf(kv.cache, lease.pages[i]) # {}
    BY <1>4, LeaseSound
<1>8. ASSUME NEW state, Sound(state, CountOf(table)), Range(state.cache) \subseteq Range(kv.cache),
             NEW end \in Terminal, Finish({r}, state, end), UNCHANGED offset
      PROVE  IInv'
  <2>1. /\ Kept(table', status', offset', kv') /\ status'[r] = end
        /\ \A q \in Requests : q # r => UNCHANGED <<status[q], table[q]>>
        /\ status' \in [Requests -> {"Queued"} \cup Active \cup Terminal \cup Absent]
    BY <1>4, <1>8, OneOver
  <2>2. \A q \in Requests : Sized(q)'
    BY <1>3, <1>4, <1>8, <2>1, SizedOver, SizedSame
  <2>3. Typed'
    BY <1>1, <1>3, <1>5, <1>8, <2>1 DEF Typed
  <2>4. QED
    BY <1>6, <2>1, <2>2, <2>3 DEF IInv
<1>9. CASE AdmitCancelled(r)
  <2>1. Finish({r}, kv, "Cancelled") /\ UNCHANGED offset /\ "Cancelled" \in Terminal
    BY <1>9 DEF AdmitCancelled, Terminal
  <2>2. QED
    BY <1>1, <1>8, <2>1 DEF Kept
<1>10. CASE LaneFails(r)
  <2> DEFINE state == ReleasePages(lease.kv, lease.pages)
  <2>1. lease.ok /\ Finish({r}, state, "Failed") /\ UNCHANGED offset /\ "Failed" \in Terminal
    BY <1>10 DEF LaneFails, Terminal
  <2> HIDE DEF lease
  <2>2. /\ Distinct(lease.pages) /\ Range(lease.kv.cache) \subseteq Range(kv.cache)
        /\ Sound(lease.kv, Plus(CountOf(table), lease.pages))
    BY <1>7, <2>1 DEF Lawful
  <2>3. Sound(state, CountOf(table))
    BY <2>2, CountType, ReleaseSound
  <2>4. state.cache = lease.kv.cache
    BY DEF ReleasePages, ReleaseTables
  <2> HIDE DEF state
  <2>5. QED
    BY <1>8, <2>1, <2>2, <2>3, <2>4
<1>11. CASE NoPages(r)
  <2>1. ~lease.ok /\ kv' = lease.kv /\ UNCHANGED <<status, offset, table>>
    BY <1>11 DEF NoPages
  <2> HIDE DEF lease
  <2>2. Sound(lease.kv, CountOf(table)) /\ Range(lease.kv.cache) \subseteq Range(kv.cache)
    BY <1>7, <2>1 DEF Lawful
  <2>3. Kept(table, status, offset, lease.kv)
    BY <1>1, <2>2, KeptSmaller
  <2>4. \A q \in Requests : Sized(q)'
    BY <1>3, <2>1, SizedSame
  <2>5. Typed'
    BY <1>1, <1>3, <1>5, <2>1 DEF Typed
  <2>6. QED
    BY <1>6, <2>1, <2>3, <2>4, <2>5 DEF IInv
<1>12. CASE Admit(r)
  <2> DEFINE start == IF Matched(r) = Len(Prompt[r]) THEN "Decoding" ELSE "Prefill"
             m     == Matched(r)
  <2>1. /\ lease.ok /\ kv' = lease.kv /\ table' = [table EXCEPT ![r] = lease.pages]
        /\ offset' = [offset EXCEPT ![r] = m] /\ status' = [status EXCEPT ![r] = start]
    BY <1>12 DEF Admit
  <2>2. /\ DOMAIN status = Requests /\ table[r] = << >> /\ start \in Active
        /\ table \in [Requests -> Seq(Pages)] /\ offset \in [Requests -> Nat]
    BY <1>1, <1>4 DEF Typed, Kept, Active
  <2> HIDE DEF lease, m, start
  <2>3. /\ m \in Nat /\ m <= Len(Prompt[r]) /\ Lawful(lease, kv, CountOf(table))
        /\ Len(lease.pages) >= PagesFor(Reservation(r))
        /\ \A i \in 1 .. Len(lease.pages) :
              \/ Unheld(lease.kv.cache, CountOf(table), lease.pages[i])
              \/ i <= m \div PageTokens /\ EntriesOf(kv.cache, lease.pages[i]) # {}
    BY <1>7, <2>1 DEF m
  <2>4. Kept([table EXCEPT ![r] = lease.pages], [status EXCEPT ![r] = start],
             [offset EXCEPT ![r] = m], lease.kv)
    BY <1>1, <1>4, <2>1, <2>2, <2>3, KeptAdmit
  <2>5. Kept(table', status', offset', kv')
    BY <2>1, <2>4
  <2>6. /\ status'[r] = start /\ offset'[r] = m /\ table'[r] = lease.pages
        /\ \A q \in Requests : q # r => UNCHANGED <<status[q], offset[q], table[q]>>
    BY <1>4, <2>1, <2>2
  <2>7. Sized(r)'
    <3>1. generated'[r] = 0
      BY <1>1, <1>3, <1>4 DEF Sized
    <3>2. Len(lease.pages) \in Nat
      BY <2>3, LenProperties DEF Lawful
    <3>3. Len(Prompt[r]) <= Len(lease.pages) * PageTokens /\ Len(Prompt[r]) \in Nat /\ 0 < MaxNew[r]
          /\ PagesFor(Reservation(r)) \in Nat
      BY <1>4, <2>3, <3>2, Enough, Numbers
    <3>4. QED
      BY <2>3, <2>6, <3>1, <3>2, <3>3 DEF Sized, Reservation
  <2>8. \A q \in Requests : Sized(q)'
    BY <1>3, <2>6, <2>7, SizedSame
  <2>9. Typed'
    <3>1. status' \in [Requests -> {"Queued"} \cup Active \cup Terminal \cup Absent]
      BY <1>1, <2>1, <2>2 DEF Typed
    <3>2. offset' \in [Requests -> Nat]
      BY <2>1, <2>2, <2>3
    <3>3. QED
      BY <1>1, <1>3, <1>5, <3>1, <3>2 DEF Typed
  <2>10. QED
    BY <1>6, <2>5, <2>8, <2>9 DEF IInv
<1>13. QED
    BY <1>2, <1>9, <1>10, <1>11, <1>12

LEMMA IdleKeeps ==
    ASSUME IInv, AdmitNobody \/ StepBegin \/ UNCHANGED vars
    PROVE  IInv'
<1>1. Typed /\ Kept(table, status, offset, kv) /\ BatchStays /\ \A r \in Requests : Sized(r)
    BY DEF IInv
<1>2. UNCHANGED <<status, offset, generated, polled, cancelReq, table, kv, work>>
    BY DEF AdmitNobody, StepBegin, vars, request
<1>3. \/ UNCHANGED pc
      \/ pc \in {"idle", "admit1", "admit2"} /\ pc' \in {"idle", "admit1", "prefill"}
    BY DEF AdmitNobody, StepBegin, vars, Admitting, AdmissionOver
<1>4. BatchStays'
    BY <1>1, <1>2, <1>3 DEF BatchStays, Remaining
<1>5. Typed'
    BY <1>1, <1>2, <1>3 DEF Typed
<1>6. \A r \in Requests : Sized(r)'
    BY <1>2, SizedSame
<1>7. QED
    BY <1>1, <1>2, <1>4, <1>5, <1>6 DEF IInv
-----------------------------------------------------------------------------
LEMMA TakeType ==
    ASSUME IInv, NEW r \in Requests, NEW b \in Nat, Take(r, b) > 0
    PROVE  Take(r, b) \in Nat \ {0} /\ Take(r, b) <= Remaining(r)
<1> DEFINE left == Remaining(r)
<1>1. left \in Nat
    BY Numbers DEF IInv, Typed, Sized, Remaining
<1> HIDE DEF left
<1>2. CASE r \in Embedded
    BY <1>1, <1>2 DEF Take, left
<1>3. CASE r \notin Embedded
  <2> DEFINE T == {left, PrefillChunk, b}
  <2>1. T \subseteq Int /\ left \in T /\ PrefillChunk \in Nat
    BY <1>1, CudaAssumption
  <2>2. \E x \in T : \A y \in T : x <= y
    <3>1. CASE left <= PrefillChunk /\ left <= b
      BY <2>1, <3>1
    <3>2. CASE PrefillChunk <= left /\ PrefillChunk <= b
      BY <2>1, <3>2
    <3>3. CASE b <= left /\ b <= PrefillChunk
      BY <2>1, <3>3
    <3>4. QED
      BY <1>1, <2>1, <3>1, <3>2, <3>3
  <2>3. Take(r, b) = Min(T)
    BY <1>3 DEF Take, left
  <2> HIDE DEF T
  <2>4. Min(T) \in T /\ \A y \in T : Min(T) <= y
    BY <2>2 DEF Min
  <2> DEFINE t == Take(r, b)
  <2>5. t \in Int /\ t <= left /\ t > 0
    <3>1. t \in T /\ \A y \in T : t <= y
      BY <2>3, <2>4
    <3> HIDE DEF t
    <3>2. QED
      BY <2>1, <3>1 DEF t
  <2> HIDE DEF t
  <2>6. t \in Nat \ {0}
    BY <2>5
  <2>7. QED
    BY <2>5, <2>6 DEF t, left
<1>4. QED
    BY <1>2, <1>3

LEMMA PlanPrefillKeeps ==
    ASSUME IInv, PlanPrefill
    PROVE  IInv'
<1>1. Typed /\ Kept(table, status, offset, kv) /\ BatchStays /\ \A r \in Requests : Sized(r)
    BY DEF IInv
<1> DEFINE order   == InOrder(InStatus({"Prefill"}))
           waiting == {r \in InStatus({"Decoding"}) : ~cancelReq[r]}
           left    == Budgets(order, Max({0, MaxBatchedTokens - Cardinality(waiting)}))
           visited == {i \in DOMAIN order : left[i - 1] \in Nat}
           stopped == {order[i] : i \in {j \in visited : cancelReq[order[j]]}}
           batch   == {i \in visited : ~cancelReq[order[i]] /\ Take(order[i], left[i - 1]) > 0}
           first(r) == CHOOSE i \in batch : order[i] = r
<1>2. /\ pc = "prefill" /\ Finish(stopped, kv, "Cancelled")
      /\ work' = [r \in {order[i] : i \in batch} |-> Take(r, left[first(r) - 1])]
      /\ pc' = (IF batch = {} THEN "decode" ELSE "prefilling")
      /\ UNCHANGED <<offset, generated, polled, cancelReq>>
    BY DEF PlanPrefill
<1>3. \A i \in DOMAIN order : order[i] \in Requests /\ status[order[i]] = "Prefill"
  <2>1. InStatus({"Prefill"}) \subseteq Requests
    BY DEF InStatus
  <2>2. \A i \in DOMAIN order : order[i] \in InStatus({"Prefill"})
    BY <2>1, InOrderMembers
  <2>3. QED
    BY <2>2 DEF InStatus
<1> HIDE DEF order, left
<1>4. /\ stopped \subseteq Requests
      /\ \A r \in stopped : cancelReq[r]
      /\ \A i \in batch : /\ i \in DOMAIN order /\ ~cancelReq[order[i]]
                          /\ left[i - 1] \in Nat /\ Take(order[i], left[i - 1]) > 0
    BY <1>3
<1> HIDE DEF stopped, batch
<1>5. /\ Kept(table', status', offset', kv')
      /\ \A r \in stopped : status'[r] = "Cancelled"
      /\ \A r \in Requests \ stopped : UNCHANGED <<status[r], table[r]>>
      /\ status' \in [Requests -> {"Queued"} \cup Active \cup Terminal \cup Absent]
  <2>1. "Cancelled" \in Terminal /\ Sound(kv, CountOf(table))
    BY <1>1 DEF Terminal, Kept
  <2>2. Finish(stopped, kv, "Cancelled") /\ UNCHANGED offset
    BY <1>2
  <2>3. stopped \subseteq Requests /\ Range(kv.cache) \subseteq Range(kv.cache)
    BY <1>4
  <2>4. QED
    BY <2>1, <2>2, <2>3, PagesGiven
<1>6. \A r \in Requests : Sized(r)'
  <2>1. "Cancelled" \in Terminal
    BY DEF Terminal
  <2>2. QED
    BY <1>2, <1>4, <1>5, <2>1, SizedOver, SizedSame
<1>7. DOMAIN work' = {order[i] : i \in batch} /\ \A r \in DOMAIN work' : work'[r] = Take(r, left[first(r) - 1])
    BY <1>2
<1>8. ASSUME NEW r \in DOMAIN work'
      PROVE  /\ r \in Requests /\ status'[r] = "Prefill"
             /\ work'[r] \in Nat \ {0} /\ work'[r] <= Remaining(r)
  <2>1. \E i \in batch : order[i] = r
    BY <1>7
  <2>2. first(r) \in batch /\ order[first(r)] = r
    BY <2>1
  <2> DEFINE i == first(r)
             b == left[i - 1]
  <2> HIDE DEF i
  <2>3. r \in Requests /\ status[r] = "Prefill" /\ ~cancelReq[r] /\ b \in Nat /\ Take(r, b) > 0
    BY <1>3, <1>4, <2>2 DEF i
  <2>4. work'[r] = Take(r, b)
    BY <1>7 DEF i
  <2>5. status'[r] = "Prefill"
    BY <1>4, <1>5, <2>3
  <2>6. QED
    BY <2>3, <2>4, <2>5, TakeType
<1>9. Typed'
    BY <1>1, <1>2, <1>5, <1>8 DEF Typed
<1>10. BatchStays'
  <2>1. UNCHANGED offset /\ \A r : Remaining(r)' = Remaining(r)
    BY <1>2 DEF Remaining
  <2>2. CASE batch = {}
    <3>1. pc' = "decode" /\ DOMAIN work' = {}
      BY <1>2, <1>7, <2>2
    <3>2. QED
      BY <3>1 DEF BatchStays
  <2>3. CASE batch # {}
    <3>1. pc' = "prefilling"
      BY <1>2, <2>3
    <3>2. QED
      BY <1>8, <2>1, <3>1 DEF BatchStays
  <2>4. QED
    BY <2>2, <2>3
<1>11. QED
    BY <1>5, <1>6, <1>9, <1>10 DEF IInv

\* One request leaves the batch, the others stay as they were.
LEMMA AppliedBatch ==
    ASSUME IInv, NEW r \in DOMAIN work, NEW next, Applied(r, next),
           next \notin {"prefilling", "decoding"}, pc \in {"prefilling", "decoding"},
           \A q \in Requests : q # r => UNCHANGED <<status[q], offset[q], generated[q], table[q]>>
    PROVE  /\ BatchStays'
           /\ DOMAIN work' \subseteq Requests /\ \A q \in DOMAIN work' : work'[q] \in Nat \ {0}
           /\ pc' \in {pc, next}
<1>1. Typed /\ BatchStays
    BY DEF IInv
<1>2. /\ DOMAIN work' = DOMAIN work \ {r}
      /\ \A q \in DOMAIN work' : work'[q] = work[q]
      /\ pc' = IF DOMAIN work = {r} THEN next ELSE pc
    BY DEF Applied
<1>3. \A q \in DOMAIN work' : /\ q \in DOMAIN work /\ q \in Requests /\ work'[q] \in Nat \ {0}
                              /\ UNCHANGED <<status[q], generated[q], table[q]>>
                              /\ Remaining(q)' = Remaining(q)
    BY <1>1, <1>2 DEF Typed, Remaining
<1>4. CASE DOMAIN work = {r}
  <2>1. DOMAIN work' = {} /\ pc' = next
    BY <1>2, <1>4
  <2>2. QED
    BY <1>1, <2>1 DEF BatchStays, Typed
<1>5. CASE DOMAIN work # {r}
  <2>1. UNCHANGED pc
    BY <1>2, <1>5
  <2>2. BatchStays'
    BY <1>1, <1>2, <1>3, <2>1 DEF BatchStays
  <2>3. QED
    BY <1>3, <2>1, <2>2
<1>6. QED
    BY <1>4, <1>5

\* A request of a batch is over.
LEMMA OutcomeOver ==
    ASSUME IInv, NEW r \in DOMAIN work, NEW next, Applied(r, next),
           next \in {"decode", "admit2"}, pc \in {"prefilling", "decoding"},
           NEW end \in Terminal, Finish({r}, kv, end), UNCHANGED <<offset, polled, cancelReq>>,
           generated' \in [Requests -> Nat],
           \A q \in Requests : q # r => UNCHANGED generated[q]
    PROVE  IInv'
<1>1. Typed /\ Sound(kv, CountOf(table)) /\ r \in Requests
    BY DEF IInv, Kept, Typed
<1>2. /\ Kept(table', status', offset', kv') /\ status'[r] = end
      /\ \A q \in Requests : q # r => UNCHANGED <<status[q], table[q]>>
      /\ status' \in [Requests -> {"Queued"} \cup Active \cup Terminal \cup Absent]
    BY <1>1, OneOver
<1>3. /\ BatchStays'
      /\ DOMAIN work' \subseteq Requests /\ \A q \in DOMAIN work' : work'[q] \in Nat \ {0}
      /\ pc' \in {pc, next}
    BY <1>2, AppliedBatch
<1>4. Typed'
    BY <1>1, <1>2, <1>3 DEF Typed
<1>5. \A q \in Requests : Sized(q)'
    BY <1>1, <1>2, SizedOver, SizedSame
<1>6. QED
    BY <1>2, <1>3, <1>4, <1>5 DEF IInv

LEMMA PrefillOutcomeKeeps ==
    ASSUME IInv, PrefillOutcome
    PROVE  IInv'
<1>1. Typed /\ Kept(table, status, offset, kv) /\ BatchStays /\ \A r \in Requests : Sized(r)
    BY DEF IInv
<1>2. pc = "prefilling" /\ UNCHANGED <<generated, polled, cancelReq>>
    BY DEF PrefillOutcome
<1>3. PICK r \in First(DOMAIN work, 1) :
         /\ PrefillCancelled(r) \/ PrefillLeftOut(r) \/ PrefillSucceeds(r) \/ Fails(r)
         /\ Applied(r, "decode")
    BY DEF PrefillOutcome
<1>4. /\ r \in DOMAIN work /\ r \in Requests /\ status[r] = "Prefill"
      /\ work[r] \in Nat \ {0} /\ work[r] <= Remaining(r)
    BY <1>1, <1>2 DEF First, Typed, BatchStays
<1>5. generated' \in [Requests -> Nat] /\ \A q \in Requests : UNCHANGED generated[q]
    BY <1>1, <1>2 DEF Typed
<1>6. CASE PrefillCancelled(r)
  <2>1. "Cancelled" \in Terminal /\ Finish({r}, kv, "Cancelled") /\ UNCHANGED offset
    BY <1>6 DEF PrefillCancelled, Terminal
  <2>2. QED
    BY <1>2, <1>3, <1>4, <1>5, <2>1, OutcomeOver
<1>7. CASE Fails(r)
  <2>1. "Failed" \in Terminal /\ Finish({r}, kv, "Failed") /\ UNCHANGED offset
    BY <1>7 DEF Fails, Terminal
  <2>2. QED
    BY <1>2, <1>3, <1>4, <1>5, <2>1, OutcomeOver
<1>8. CASE PrefillLeftOut(r)
  <2>1. UNCHANGED <<status, offset, table, kv>>
    BY <1>8 DEF PrefillLeftOut
  <2>2. /\ BatchStays'
        /\ DOMAIN work' \subseteq Requests /\ \A q \in DOMAIN work' : work'[q] \in Nat \ {0}
        /\ pc' \in {pc, "decode"}
    BY <1>2, <1>3, <1>4, <2>1, AppliedBatch
  <2>3. Typed'
    BY <1>1, <1>2, <2>1, <2>2 DEF Typed
  <2>4. \A q \in Requests : Sized(q)'
    BY <1>2, <2>1, SizedSame
  <2>5. QED
    BY <1>1, <2>1, <2>2, <2>3, <2>4 DEF IInv
<1>9. CASE PrefillSucceeds(r)
  <2> DEFINE done == work[r] = Remaining(r)
             past == [offset EXCEPT ![r] = @ + work[r]]
             next == IF done THEN [status EXCEPT ![r] = "Decoding"] ELSE status
  <2>1. /\ offset' = past /\ UNCHANGED table /\ status' = next
        /\ kv' = IF done /\ r \notin Embedded THEN Insert(kv, Prompt[r], table[r]) ELSE kv
    BY <1>9 DEF PrefillSucceeds
  <2>2. /\ offset[r] \in Nat /\ Len(Prompt[r]) \in Nat /\ Remaining(r) = Len(Prompt[r]) - offset[r]
        /\ DOMAIN status = Requests /\ offset \in [Requests -> Nat]
        /\ status \in [Requests -> {"Queued"} \cup Active \cup Terminal \cup Absent]
    BY <1>1, <1>4, Numbers DEF Typed, Remaining
  <2>3. /\ past \in [Requests -> Nat] /\ offset[r] <= past[r] /\ past[r] <= Len(Prompt[r])
        /\ done => past[r] = Len(Prompt[r])
        /\ \A q \in Requests : q # r => past[q] = offset[q]
    <3>1. past[r] = offset[r] + work[r]
      BY <1>4, <2>2
    <3> HIDE DEF done
    <3>2. \A q \in Requests : past[q] = IF q = r THEN offset[q] + work[r] ELSE offset[q]
      BY <1>4, <2>2
    <3>3. past \in [Requests -> Nat]
      BY <1>4, <2>2
    <3> HIDE DEF past
    <3>4. QED
      BY <1>4, <2>2, <3>1, <3>2, <3>3 DEF done
  <2>4. /\ next[r] = IF done THEN "Decoding" ELSE "Prefill"
        /\ next[r] \in Active
        /\ \A q \in Requests : q # r => next[q] = status[q]
        /\ next \in [Requests -> {"Queued"} \cup Active \cup Terminal \cup Absent]
    BY <1>4, <2>2 DEF Active
  <2> HIDE DEF done, past, next
  <2>5. Kept(table, next, past, kv)
    <3>1. \A q \in Requests : offset[q] \in Nat /\ (status[q] \notin Active => table[q] = << >>)
      BY <1>1 DEF Kept
    <3>2. \A q \in Requests :
             \/ table[q] = << >> /\ next[q] \notin Active
             \/ status[q] \in Active /\ next[q] \in Active /\ offset[q] <= past[q]
      BY <1>4, <2>3, <2>4, <3>1 DEF Active
    <3>3. QED
      BY <1>1, <2>3, <3>2, KeptMoves
  <2>6. table \in [Requests -> Seq(Pages)] /\ Len(table[r]) \in Nat
        /\ PagesFor(Reservation(r)) <= Len(table[r]) /\ Len(Prompt[r]) <= Len(table[r]) * PageTokens
        /\ PagesFor(Len(Prompt[r])) <= Len(table[r])
    <3>1. table \in [Requests -> Seq(Pages)] /\ Len(table[r]) \in Nat
      BY <1>1, <1>4, LenProperties DEF Kept
    <3>2. PagesFor(Reservation(r)) <= Len(table[r])
      BY <1>1, <1>4 DEF Sized, Active
    <3>3. Len(Prompt[r]) <= Len(table[r]) * PageTokens
      BY <1>4, <3>1, <3>2, Enough
    <3>4. PagesFor(Len(Prompt[r])) <= PagesFor(Reservation(r)) /\ PagesFor(Reservation(r)) \in Nat
          /\ PagesFor(Len(Prompt[r])) \in Nat
      BY <1>4, Numbers, PagesForSize
    <3>5. QED
      BY <3>1, <3>2, <3>3, <3>4
  <2>7. Kept(table', status', offset', kv')
    <3>1. CASE done /\ r \notin Embedded
      <4>1. Prompt[r] \in Seq(Nat)
        BY <1>4, Numbers
      <4>2. Kept(table, next, past, Insert(kv, Prompt[r], table[r]))
        BY <1>4, <2>3, <2>4, <2>5, <2>6, <3>1, <4>1, KeptInsert
      <4>3. QED
        BY <2>1, <3>1, <4>2
    <3>2. CASE ~(done /\ r \notin Embedded)
      BY <2>1, <2>5, <3>2
    <3>3. QED
      BY <3>1, <3>2
  <2>8. Sized(r)'
    <3>1. /\ generated'[r] = 0 /\ table'[r] = table[r] /\ offset'[r] = past[r]
          /\ status'[r] \in {"Prefill", "Decoding"}
      BY <1>1, <1>4, <1>5, <2>1, <2>4 DEF Sized
    <3>2. MaxNew[r] \in Nat /\ MaxNew[r] >= 1
      BY <1>4, Numbers
    <3>3. QED
      BY <2>2, <2>3, <2>6, <3>1, <3>2 DEF Sized, Reservation
  <2>9. \A q \in Requests : q # r => UNCHANGED <<status[q], offset[q], generated[q], table[q]>>
    BY <1>2, <2>1, <2>3, <2>4
  <2>10. \A q \in Requests : Sized(q)'
    BY <2>8, <2>9, SizedSame
  <2>11. /\ BatchStays'
         /\ DOMAIN work' \subseteq Requests /\ \A q \in DOMAIN work' : work'[q] \in Nat \ {0}
         /\ pc' \in {pc, "decode"}
    BY <1>2, <1>3, <1>4, <2>9, AppliedBatch
  <2>12. Typed'
    BY <1>1, <1>2, <2>1, <2>3, <2>4, <2>11 DEF Typed
  <2>13. QED
    BY <2>7, <2>10, <2>11, <2>12 DEF IInv
<1>10. QED
    BY <1>3, <1>6, <1>7, <1>8, <1>9

LEMMA DecodeOutcomeKeeps ==
    ASSUME IInv, DecodeOutcome
    PROVE  IInv'
<1>1. Typed /\ Kept(table, status, offset, kv) /\ BatchStays /\ \A r \in Requests : Sized(r)
    BY DEF IInv
<1>2. pc = "decoding" /\ UNCHANGED <<offset, polled, cancelReq>>
    BY DEF DecodeOutcome
<1>3. PICK r \in DOMAIN work :
         /\ \/ DecodeCancelled(r)
            \/ \E eos \in BOOLEAN : Accept(r, eos)
            \/ Fails(r) /\ UNCHANGED generated
         /\ Applied(r, "admit2")
    BY DEF DecodeOutcome
<1>4. /\ r \in Requests /\ status[r] = "Decoding"
      /\ Len(Prompt[r]) + generated[r] < Len(table[r]) * PageTokens
    BY <1>1, <1>2 DEF Typed, BatchStays
<1>5. generated \in [Requests -> Nat]
    BY <1>1 DEF Typed
<1>6. CASE DecodeCancelled(r)
  <2>1. "Cancelled" \in Terminal /\ Finish({r}, kv, "Cancelled") /\ UNCHANGED generated
    BY <1>6 DEF DecodeCancelled, Terminal
  <2>2. QED
    BY <1>2, <1>3, <1>5, <2>1, OutcomeOver
<1>7. CASE Fails(r) /\ UNCHANGED generated
  <2>1. "Failed" \in Terminal /\ Finish({r}, kv, "Failed")
    BY <1>7 DEF Fails, Terminal
  <2>2. QED
    BY <1>2, <1>3, <1>5, <1>7, <2>1, OutcomeOver
<1>8. CASE \E eos \in BOOLEAN : Accept(r, eos)
  <2>1. PICK eos \in BOOLEAN : Accept(r, eos)
    BY <1>8
  <2>2. generated' = [generated EXCEPT ![r] = @ + 1]
    BY <2>1 DEF Accept
  <2>3. /\ generated' \in [Requests -> Nat] /\ generated'[r] = generated[r] + 1
        /\ \A q \in Requests : q # r => UNCHANGED generated[q]
    BY <1>4, <1>5, <2>2
  <2>4. CASE eos \/ generated[r] + 1 >= MaxNew[r]
    <3>1. "Finished" \in Terminal /\ Finish({r}, kv, "Finished")
      BY <2>1, <2>4 DEF Accept, Terminal
    <3>2. QED
      BY <1>2, <1>3, <2>3, <3>1, OutcomeOver
  <2>5. CASE ~(eos \/ generated[r] + 1 >= MaxNew[r])
    <3>1. UNCHANGED <<status, table, kv>>
      BY <2>1, <2>5 DEF Accept
    <3>2. /\ BatchStays'
          /\ DOMAIN work' \subseteq Requests /\ \A q \in DOMAIN work' : work'[q] \in Nat \ {0}
          /\ pc' \in {pc, "admit2"}
      BY <1>2, <1>3, <2>3, <3>1, AppliedBatch
    <3>3. Typed'
      BY <1>1, <1>2, <2>3, <3>1, <3>2 DEF Typed
    <3>4. Sized(r)'
      <4> DEFINE room == Len(table[r]) * PageTokens
      <4>1. room \in Nat /\ Len(Prompt[r]) \in Nat /\ generated[r] \in Nat /\ MaxNew[r] \in Nat
        <5>1. Len(table[r]) \in Nat
          BY <1>1, <1>4, LenProperties DEF Kept
        <5>2. QED
          BY <1>4, <1>5, <5>1, Numbers
      <4>2. /\ generated'[r] < MaxNew[r]
            /\ Len(Prompt[r]) + generated'[r] <= room
        <5>1. Len(Prompt[r]) + generated[r] < room
          BY <1>4
        <5> HIDE DEF room
        <5>2. QED
          BY <2>3, <2>5, <4>1, <5>1
      <4>3. QED
        BY <1>1, <1>2, <1>4, <3>1, <4>2 DEF Sized, Reservation
    <3>5. \A q \in Requests : Sized(q)'
      BY <1>2, <2>3, <3>1, <3>4, SizedSame
    <3>6. QED
      BY <1>1, <1>2, <3>1, <3>2, <3>3, <3>5 DEF IInv
  <2>6. QED
    BY <2>4, <2>5
<1>9. QED
    BY <1>3, <1>6, <1>7, <1>8

\* A table that grows stays long enough, by one page for a token more.
LEMMA SizedLonger ==
    ASSUME IInv, NEW r \in Requests, UNCHANGED <<status[r], offset[r], generated[r]>>,
           Len(table'[r]) \in Nat, Len(table[r]) <= Len(table'[r])
    PROVE  /\ Sized(r)'
           /\ status[r] = "Decoding" /\ Len(table[r]) < Len(table'[r]) =>
                 Len(Prompt[r]) + generated[r] < Len(table'[r]) * PageTokens
<1> DEFINE m   == Len(table[r])
           n   == Len(table'[r])
           all == Len(Prompt[r]) + generated[r]
           need == PagesFor(Reservation(r))
<1>1. /\ m \in Nat /\ n \in Nat /\ all \in Nat /\ need \in Nat /\ m <= n
      /\ PageTokens \in Nat /\ PageTokens >= 1
  <2>1. m \in Nat
    BY LenProperties DEF IInv, Kept
  <2>2. all \in Nat
    BY Numbers DEF IInv, Typed
  <2>3. QED
    BY <2>1, <2>2, Numbers
<1>2. /\ status[r] \in Active => need <= m
      /\ status[r] = "Decoding" => all <= m * PageTokens
    BY DEF IInv, Sized
<1> HIDE DEF m, n, all, need
<1>3. m * PageTokens <= n * PageTokens /\ (m < n => m * PageTokens < n * PageTokens)
  <2>1. n - m \in Nat
    BY <1>1
  <2>2. n * PageTokens = m * PageTokens + (n - m) * PageTokens
    BY <1>1, <2>1
  <2>3. (n - m) * PageTokens \in Nat /\ m * PageTokens \in Nat
    BY <1>1, <2>1
  <2>4. m < n => (n - m) * PageTokens >= 1
    <3>1. SUFFICES ASSUME m < n PROVE (n - m) * PageTokens >= 1
      OBVIOUS
    <3>2. n - m >= 1
      BY <1>1, <3>1
    <3>3. QED
      BY <1>1, <2>1, <3>2
  <2>5. QED
    BY <2>2, <2>3, <2>4
<1>4. m * PageTokens \in Nat /\ n * PageTokens \in Nat
    BY <1>1
<1>5. status[r] \in Active => need <= n
    BY <1>1, <1>2
<1>6. /\ status[r] = "Decoding" => all <= n * PageTokens
      /\ status[r] = "Decoding" /\ m < n => all < n * PageTokens
    BY <1>1, <1>2, <1>3, <1>4
<1>7. Sized(r)'
    BY <1>5, <1>6 DEF IInv, Sized, Reservation, all, n, need
<1>8. QED
    BY <1>6, <1>7 DEF all, m, n

LEMMA PlanDecodeKeeps ==
    ASSUME IInv, PlanDecode
    PROVE  IInv'
<1>1. Typed /\ Kept(table, status, offset, kv) /\ BatchStays /\ \A r \in Requests : Sized(r)
    BY DEF IInv
<1> DEFINE ready   == {r \in InStatus({"Decoding"}) : ~cancelReq[r]}
           stopped == {r \in InStatus({"Decoding"}) \ ready :
                         Cardinality({q \in ready : Before(q, r)}) < MaxBatchedTokens}
           planned == First(ready, MaxBatchedTokens)
           needy   == {r \in planned : ~GuaranteedNoEvict /\ ~CoversNext(r)}
           after   == ReleaseTables(kv, TablesOf(stopped))
           pressed == Pressed(after, Cardinality(needy), << >>)
           served  == First(needy, Cardinality(Free(pressed)))
           n       == Cardinality(served)
           pages   == Taken(pressed, n)
           batch   == planned \ (needy \ served)
           left    == [r \in Requests |-> IF r \in stopped THEN << >> ELSE table[r]]
           next    == [r \in Requests |-> IF r \in stopped THEN "Cancelled" ELSE status[r]]
           pos     == [r \in served |-> 1 + Cardinality({q \in served : Before(q, r)})]
<1>2. /\ status' = next
      /\ kv' = RetainPages(pressed, pages)
      /\ table' = [r \in Requests |->
                     IF r \in stopped THEN << >>
                     ELSE IF r \in served
                     THEN Append(table[r], pages[1 + Cardinality({q \in served : Before(q, r)})])
                     ELSE table[r]]
      /\ work' = [r \in batch |-> 1]
      /\ pc' = IF batch = {} THEN "admit2" ELSE "decoding"
      /\ UNCHANGED <<offset, generated, polled, cancelReq>>
    BY DEF PlanDecode
<1>3. /\ stopped \subseteq Requests /\ ready \subseteq Requests
      /\ \A r \in ready : r \notin stopped /\ status[r] = "Decoding"
    BY DEF InStatus
<1>4. /\ planned \subseteq ready /\ needy \subseteq planned /\ needy \subseteq Requests
      /\ \A r \in planned \ needy : GuaranteedNoEvict \/ CoversNext(r)
    BY <1>3 DEF First
<1>5. Kept(left, next, offset, after)
  <2>1. "Cancelled" \notin Active
    BY DEF Active
  <2>2. TablesOf(stopped) = [r \in stopped |-> table[r]]
    BY DEF TablesOf
  <2> HIDE DEF stopped
  <2>3. QED
    BY <1>1, <1>3, <2>1, <2>2, KeptFinish
<1>6. \A r \in Requests : left[r] = (IF r \in stopped THEN << >> ELSE table[r])
    OBVIOUS
<1>7. \A r \in Requests : next[r] = (IF r \in stopped THEN "Cancelled" ELSE status[r])
    OBVIOUS
<1> HIDE DEF ready, stopped, planned, needy, after, left, next
<1>8. Kept(left, next, offset, pressed)
  <2>1. Sound(pressed, CountOf(left)) /\ Range(pressed.cache) \subseteq Range(after.cache)
    BY <1>5, PressedSound DEF Kept
  <2> HIDE DEF pressed
  <2>2. QED
    BY <1>5, <2>1, KeptSmaller
<1> HIDE DEF pressed
<1>9. /\ served \subseteq needy /\ n \in Nat /\ n \in Int /\ Fits(pressed, n)
  <2>1. Cardinality(Free(pressed)) \in Nat
    BY PagesAreNumbers, FS_Subset, FS_CardinalityType DEF Free
  <2> DEFINE k == Cardinality(Free(pressed))
  <2> HIDE DEF k
  <2>2. k \in Nat
    BY <2>1 DEF k
  <2>3. First(needy, k) \subseteq needy /\ Cardinality(First(needy, k)) \in Nat
        /\ Cardinality(First(needy, k)) <= k
    BY <1>4, <2>2, FirstAreFew
  <2>4. QED
    BY <2>3 DEF Fits, k
<1>10. served \subseteq Requests /\ \A r \in served : r \notin stopped /\ next[r] = "Decoding"
    BY <1>3, <1>4, <1>7, <1>9
<1>11. pages \in Seq(Pages) /\ Len(pages) = n
    BY <1>9, TakenProperties
<1>12. Deals(pos, served, pages)
  <2> HIDE DEF served, pages
  <2>1. Deals([r \in served |-> 1 + Cardinality({q \in served : Before(q, r)})], served, pages)
    BY <1>10, <1>11, Dealing
  <2>2. QED
    BY <2>1
<1>13. table' = Grown(left, served, pages, pos)
  <2> DEFINE new == Grown(left, served, pages, pos)
  <2>1. ASSUME NEW r \in Requests
        PROVE  new[r] = IF r \in stopped THEN << >>
                        ELSE IF r \in served
                        THEN Append(table[r], pages[1 + Cardinality({q \in served : Before(q, r)})])
                        ELSE table[r]
    <3> HIDE DEF served, pages
    <3>1. CASE r \in served
      <4>1. pos[r] = 1 + Cardinality({q \in served : Before(q, r)})
        BY <3>1
      <4>2. r \notin stopped /\ left[r] = table[r]
        BY <1>6, <1>10, <3>1
      <4> HIDE DEF pos
      <4>3. new[r] = Append(left[r], pages[pos[r]])
        BY <3>1 DEF Grown
      <4>4. QED
        BY <3>1, <4>1, <4>2, <4>3
    <3>2. CASE r \notin served
      BY <1>6, <3>2 DEF Grown
    <3>3. QED
      BY <3>1, <3>2
  <2>2. new = [r \in Requests |-> new[r]]
    BY DEF Grown
  <2> HIDE DEF served, pages, new
  <2>3. new = [r \in Requests |->
                  IF r \in stopped THEN << >>
                  ELSE IF r \in served
                  THEN Append(table[r], pages[1 + Cardinality({q \in served : Before(q, r)})])
                  ELSE table[r]]
    BY <2>1, <2>2
  <2>4. table' = new
    BY <1>2, <2>3
  <2>5. QED
    BY <2>4 DEF new
<1> HIDE DEF served, n, pos
<1>14. /\ Kept(table', next, offset, kv')
       /\ Longer(table', left, served)
  <2>1. \A r \in served : next[r] \in Active
    BY <1>10 DEF Active
  <2> DEFINE new == table'
  <2>2. new = Grown(left, served, Taken(pressed, n), pos) /\ Deals(pos, served, Taken(pressed, n))
    BY <1>12, <1>13
  <2>3. kv' = RetainPages(pressed, Taken(pressed, n))
    BY <1>2
  <2> HIDE DEF new
  <2>4. /\ Kept(new, next, offset, RetainPages(pressed, Taken(pressed, n)))
        /\ Longer(new, left, served)
    <3>1. n \in Nat /\ Fits(pressed, n) /\ served \subseteq Requests
      BY <1>9, <1>10
    <3> HIDE DEF pages
    <3>2. QED
      BY <1>8, <2>1, <2>2, <3>1, KeptGrow
  <2>5. QED
    BY <2>3, <2>4 DEF new
<1> HIDE DEF pages
<1>15. Kept(table', status', offset', kv')
    BY <1>2, <1>14
<1>16. ASSUME NEW r \in Requests, r \notin stopped
       PROVE  /\ UNCHANGED <<status[r], offset[r], generated[r]>>
              /\ Len(table[r]) \in Nat /\ Len(table'[r]) \in Nat
              /\ r \in served => Len(table'[r]) = Len(table[r]) + 1
              /\ r \notin served => table'[r] = table[r]
  <2>1. Len(table[r]) \in Nat /\ Len(table'[r]) \in Nat
    BY <1>1, <1>15, LenProperties DEF Kept
  <2>2. left[r] = table[r]
    BY <1>6, <1>16
  <2>3. QED
    BY <1>2, <1>7, <1>14, <1>16, <2>1, <2>2 DEF Longer
<1>17. \A r \in Requests : Sized(r)'
  <2>1. ASSUME NEW r \in Requests, r \in stopped PROVE Sized(r)'
    <3>1. status'[r] \in Terminal /\ UNCHANGED offset[r]
      BY <1>2, <1>7, <2>1 DEF Terminal
    <3>2. QED
      BY <3>1, SizedOver
  <2>2. ASSUME NEW r \in Requests, r \notin stopped PROVE Sized(r)'
    <3>1. /\ UNCHANGED <<status[r], offset[r], generated[r]>>
          /\ Len(table[r]) \in Nat /\ Len(table'[r]) \in Nat
          /\ r \in served => Len(table'[r]) = Len(table[r]) + 1
          /\ r \notin served => table'[r] = table[r]
      BY <1>16, <2>2
    <3>2. Len(table[r]) <= Len(table'[r])
      BY <3>1
    <3>3. QED
      BY <3>1, <3>2, SizedLonger
  <2>3. QED
    BY <2>1, <2>2
<1>18. ASSUME NEW r \in batch
       PROVE  /\ r \in Requests /\ status'[r] = "Decoding"
              /\ Len(Prompt[r]) + generated'[r] < Len(table'[r]) * PageTokens
  <2>1. r \in Requests /\ r \notin stopped /\ status[r] = "Decoding"
    BY <1>3, <1>4
  <2>2. /\ UNCHANGED <<status[r], offset[r], generated[r]>>
        /\ Len(table[r]) \in Nat /\ Len(table'[r]) \in Nat
        /\ r \in served => Len(table'[r]) = Len(table[r]) + 1
        /\ r \notin served => table'[r] = table[r]
    BY <1>16, <2>1
  <2>3. CASE r \in served
    <3>1. Len(table[r]) <= Len(table'[r]) /\ Len(table[r]) < Len(table'[r])
      BY <2>2, <2>3
    <3>2. QED
      BY <2>1, <2>2, <3>1, SizedLonger
  <2>4. CASE r \notin served
    <3> DEFINE len  == Len(table[r])
               room == len * PageTokens
    <3>1. GuaranteedNoEvict \/ CoversNext(r)
      BY <1>4, <2>4
    <3>2. /\ len \in Nat /\ Len(table'[r]) = len /\ PagesFor(Reservation(r)) <= len
          /\ generated[r] \in Nat /\ generated[r] < MaxNew[r]
      BY <1>1, <2>1, <2>2, <2>4 DEF Typed, Sized, Active
    <3>3. Len(Prompt[r]) \in Nat /\ MaxNew[r] \in Nat /\ PageTokens \in Nat
      BY <2>1, Numbers
    <3>4. room \in Nat
      BY <3>2, <3>3
    <3>5. CASE GuaranteedNoEvict
      <4> HIDE DEF len
      <4>1. Len(Prompt[r]) + MaxNew[r] <= room
        BY <2>1, <3>2, <3>5, Enough
      <4> HIDE DEF room
      <4>2. Len(Prompt[r]) + generated[r] < room
        BY <3>2, <3>3, <3>4, <4>1
      <4>3. QED
        BY <2>1, <2>2, <3>2, <4>2 DEF room
    <3>6. CASE CoversNext(r)
      <4>1. Len(Prompt[r]) + generated[r] + 1 <= room
        BY <3>6 DEF CoversNext
      <4> HIDE DEF room
      <4>2. Len(Prompt[r]) + generated[r] < room
        BY <3>2, <3>3, <3>4, <4>1
      <4>3. QED
        BY <2>1, <2>2, <3>2, <4>2 DEF room
    <3>7. QED
      BY <3>1, <3>5, <3>6
  <2>5. QED
    BY <2>1, <2>2, <2>3, <2>4
<1>19. DOMAIN work' = batch /\ \A r \in DOMAIN work' : work'[r] = 1
    BY <1>2
<1> HIDE DEF batch
<1>20. Typed'
  <2>1. status' \in [Requests -> {"Queued"} \cup Active \cup Terminal \cup Absent]
    <3>1. \A r \in Requests : next[r] \in {"Queued"} \cup Active \cup Terminal \cup Absent
      BY <1>1, <1>7 DEF Typed, Terminal
    <3>2. QED
      BY <1>2, <3>1 DEF next
  <2>2. DOMAIN work' \subseteq Requests /\ \A r \in DOMAIN work' : work'[r] \in Nat \ {0}
    <3>1. 1 \in Nat \ {0}
      OBVIOUS
    <3>2. QED
      BY <1>18, <1>19, <3>1
  <2>3. pc' \in {"admit2", "decoding"}
    BY <1>2
  <2>4. QED
    BY <1>1, <1>2, <2>1, <2>2, <2>3 DEF Typed
<1>21. BatchStays'
  <2>1. CASE batch = {}
    <3>1. pc' = "admit2" /\ DOMAIN work' = {}
      BY <1>2, <1>19, <2>1
    <3>2. QED
      BY <3>1 DEF BatchStays
  <2>2. CASE batch # {}
    <3>1. pc' = "decoding"
      BY <1>2, <2>2
    <3>2. QED
      BY <1>18, <1>19, <3>1 DEF BatchStays
  <2>3. QED
    BY <2>1, <2>2
<1>22. QED
    BY <1>15, <1>17, <1>20, <1>21 DEF IInv
-----------------------------------------------------------------------------
LEMMA InitKeeps ==
    ASSUME Init
    PROVE  IInv
<1>1. /\ status = [r \in Requests |-> "Unsubmitted"] /\ offset = [r \in Requests |-> 0]
      /\ generated = [r \in Requests |-> 0] /\ polled = [r \in Requests |-> 0]
      /\ cancelReq = [r \in Requests |-> FALSE] /\ table = [r \in Requests |-> << >>]
      /\ kv = EmptyKv /\ pc = "idle" /\ work = NoWork
    BY DEF Init
<1>2. DOMAIN work = {}
    BY <1>1 DEF NoWork
<1>3. Typed
    BY <1>1, <1>2 DEF Typed, Absent
<1>4. << >> \in Seq(Pages) /\ << >> \in Seq(Entry) /\ DOMAIN << >> = {} /\ Range(<< >>) = {}
    BY EmptySeq DEF Range
<1>5. /\ table \in [Requests -> Seq(Pages)] /\ offset \in [Requests -> Nat]
      /\ \A r \in Requests : table[r] = << >> /\ Distinct(table[r]) /\ status[r] \notin Active
    BY <1>1, <1>4 DEF Distinct, Active
<1>6. Sound(kv, CountOf(table))
  <2> DEFINE refs == [p \in Pages |-> 0]
             cache == << >>
  <2>1. refs \in [Pages -> Nat] /\ \A p \in Pages : refs[p] = 0
    OBVIOUS
  <2>2. cache \in Seq(Entry) /\ DOMAIN cache = {} /\ Range(cache) = {}
    BY <1>4
  <2>3. kv = [refs |-> refs, cache |-> cache]
    BY <1>1 DEF EmptyKv
  <2> HIDE DEF refs, cache
  <2>4. kv \in Kv /\ kv.refs = refs /\ kv.cache = cache
    BY <2>1, <2>2, <2>3 DEF Kv
  <2>5. CacheOK(cache)
    BY <2>2 DEF CacheOK
  <2>6. CountOf(table) \in [Pages -> Nat]
    BY CountType
  <2>7. \A p \in Pages : EntriesOf(cache, p) = {}
    BY <2>2 DEF EntriesOf
  <2>8. \A p \in Pages : {r \in Requests : p \in Range(table[r])} = {}
    BY <1>4, <1>5
  <2>9. Cardinality({}) = 0
    BY FS_EmptySet
  <2>10. \A p \in Pages : CountOf(table)[p] = 0
    BY <2>8, <2>9 DEF CountOf
  <2>11. QED
    BY <2>1, <2>4, <2>5, <2>6, <2>7, <2>9, <2>10 DEF Sound
<1>7. Apart(table, status, offset, kv.cache)
    BY <1>5 DEF Apart
<1>8. Kept(table, status, offset, kv)
    BY <1>5, <1>6, <1>7 DEF Kept
<1>9. \A r \in Requests : Sized(r)
  <2>1. SUFFICES ASSUME NEW r \in Requests PROVE Sized(r)
    OBVIOUS
  <2>2. offset[r] = 0 /\ generated[r] = 0 /\ status[r] = "Unsubmitted"
    BY <1>1
  <2>3. QED
    BY <2>2, Numbers DEF Sized, Active
<1>10. BatchStays
    BY <1>1, <1>2 DEF BatchStays
<1>11. QED
    BY <1>3, <1>8, <1>9, <1>10 DEF IInv

LEMMA StepKeeps ==
    ASSUME IInv, [Next]_vars
    PROVE  IInv'
<1>1. CASE ClientNext
    BY <1>1, ClientKeeps
<1>2. CASE AdmitNext
    BY <1>2, AdmissionKeeps
<1>3. CASE AdmitNobody \/ StepBegin \/ UNCHANGED vars
    BY <1>3, IdleKeeps
<1>4. CASE PlanPrefill
    BY <1>4, PlanPrefillKeeps
<1>5. CASE PrefillOutcome
    BY <1>5, PrefillOutcomeKeeps
<1>6. CASE PlanDecode
    BY <1>6, PlanDecodeKeeps
<1>7. CASE DecodeOutcome
    BY <1>7, DecodeOutcomeKeeps
<1>8. QED
    BY <1>1, <1>2, <1>3, <1>4, <1>5, <1>6, <1>7 DEF Next, EngineNext

LEMMA InvAlways == Spec => []IInv
<1>1. Init => IInv
    BY InitKeeps
<1>2. IInv /\ [Next]_vars => IInv'
    BY StepKeeps
<1>3. QED
    BY <1>1, <1>2, PTL DEF Spec
-----------------------------------------------------------------------------
(* Theorems. *)

\* Every request, page table, page count and cache entry keeps its type, whatever
\* the clients and the steps do: no page count goes below zero.
THEOREM TypeTheorem == Spec => []TypeOK
<1>1. IInv => TypeOK
    BY DEF IInv, Typed, Kept, Sound, TypeOK
<1>2. QED
    BY <1>1, InvAlways, PTL

\* Every page is counted once for each request and each cached prefix that holds
\* it, through admissions, copies on write, evictions, cancellations and failures:
\* no page is leaked and none is given back twice.
THEOREM AccountTheorem == Spec => []PagesAccount
<1>1. ASSUME IInv PROVE PagesAccount
  <2>1. Sound(kv, CountOf(table))
    BY <1>1 DEF IInv, Kept
  <2>2. \A p \in Pages : /\ kv.refs[p] = CountOf(table)[p] + Cardinality(EntriesOf(kv.cache, p))
                         /\ CountOf(table)[p] = Cardinality({r \in Requests : p \in Range(table[r])})
    BY <2>1 DEF Sound, CountOf
  <2>3. QED
    BY <2>2 DEF PagesAccount, Holders, Entries, EntriesOf
<1>2. QED
    BY <1>1, InvAlways, PTL

\* Copy on write: a page that a request has yet to write to is in no other request's
\* table and in no entry of the prefix cache, so nobody reads what it overwrites.
THEOREM WritesAloneTheorem == Spec => []WritesAlone
<1>1. ASSUME IInv PROVE WritesAlone
  <2>1. /\ Sound(kv, CountOf(table)) /\ Apart(table, status, offset, kv.cache)
        /\ table \in [Requests -> Seq(Pages)]
    BY <1>1 DEF IInv, Kept
  <2>2. SUFFICES ASSUME NEW r \in Requests, status[r] \in Active, NEW i \in DOMAIN table[r],
                        i > offset[r] \div PageTokens
                 PROVE  kv.refs[table[r][i]] = 1
    BY DEF WritesAlone, InStatus
  <2> DEFINE p == table[r][i]
  <2>3. EntriesOf(kv.cache, p) = {} /\ \A q \in Requests : p \in Range(table[q]) => q = r
    BY <2>1, <2>2 DEF Apart
  <2>4. p \in Range(table[r]) /\ p \in Pages
    <3>1. p \in Range(table[r])
      BY DEF Range
    <3>2. QED
      BY <2>1, <3>1, TablesAreTyped
  <2> HIDE DEF p
  <2>5. {q \in Requests : p \in Range(table[q])} = {r}
    BY <2>3, <2>4
  <2>6. CountOf(table)[p] = 1 /\ Cardinality(EntriesOf(kv.cache, p)) = 0
    BY <2>3, <2>4, <2>5, FS_Singleton, FS_EmptySet DEF CountOf
  <2>7. kv.refs[p] = 1
    BY <2>1, <2>4, <2>6 DEF Sound
  <2>8. QED
    BY <2>7 DEF p
<1>2. QED
    BY <1>1, InvAlways, PTL

\* Under both policies a request in a batch has a page for every token it writes:
\* the plan gives it one, or the reservation of its admission still has room, and
\* nothing between the plan and the outcome takes it away.
THEOREM BatchTheorem == Spec => []BatchHasPages
<1>1. ASSUME IInv PROVE BatchHasPages
  <2>1. Typed /\ BatchStays /\ Kept(table, status, offset, kv)
    BY <1>1 DEF IInv
  <2>2. SUFFICES ASSUME NEW r \in DOMAIN work
                 PROVE  IF status[r] = "Prefill"
                        THEN offset[r] + work[r] <= Len(table[r]) * PageTokens
                        ELSE status[r] = "Decoding" =>
                                Len(Prompt[r]) + generated[r] < Len(table[r]) * PageTokens
    BY DEF BatchHasPages
  <2>3. r \in Requests /\ Sized(r)
    BY <1>1, <2>1 DEF IInv, Typed
  <2>4. pc = "prefilling" \/ pc = "decoding"
    BY <2>1 DEF BatchStays
  <2>5. CASE pc = "decoding"
    BY <2>1, <2>5 DEF BatchStays
  <2>6. CASE pc = "prefilling"
    <3> DEFINE room == Len(table[r]) * PageTokens
    <3>1. status[r] = "Prefill" /\ work[r] <= Len(Prompt[r]) - offset[r]
      BY <2>1, <2>6 DEF BatchStays, Remaining
    <3>2. /\ Len(table[r]) \in Nat /\ PagesFor(Reservation(r)) <= Len(table[r])
          /\ offset[r] \in Nat /\ work[r] \in Nat /\ Len(Prompt[r]) \in Nat /\ PageTokens \in Nat
      BY <2>1, <2>3, <3>1, LenProperties, Numbers DEF Kept, Sized, Active, Typed
    <3>3. Len(Prompt[r]) <= room /\ room \in Nat
      BY <2>3, <3>2, Enough
    <3> HIDE DEF room
    <3>4. offset[r] + work[r] <= room
      BY <3>1, <3>2, <3>3
    <3>5. QED
      BY <3>1, <3>4 DEF room
  <2>7. QED
    BY <2>4, <2>5, <2>6
<1>2. QED
    BY <1>1, InvAlways, PTL
-----------------------------------------------------------------------------
(* The engine implements RequestService.  "View" is the service that clients  *)
(* see; a client operation is the operation of that name, and a step of the   *)
(* engine is a move of the scheduler.                                         *)

Live(state) == state \in {"Queued"} \cup Active

View ==
    [r \in Requests |->
       [status    |-> IF status[r] \in {"Queued"} \cup Active THEN "Live" ELSE status[r],
        produced  |-> generated[r],
        taken     |-> polled[r],
        cancelled |-> cancelReq[r]]]

\* Nobody reads what is not there, and no request outgrows max_new_tokens.
Limited == \A r \in Requests : polled[r] <= generated[r] /\ generated[r] <= MaxNew[r]

Served == IInv /\ Limited

\* What one step does to one request, seen from the service: a token (the last one
\* finishes it), its end, or nothing.
Advances(r) ==
    /\ Live(status[r])
    /\ ~cancelReq[r]
    /\ generated'[r] = generated[r] + 1
    /\ generated'[r] <= MaxNew[r]
    /\ status'[r] \in Active \cup {"Finished"}
    /\ generated'[r] >= MaxNew[r] => status'[r] = "Finished"

Ends(r) ==
    /\ Live(status[r])
    /\ generated'[r] = generated[r]
    /\ status'[r] = "Failed" \/ (status'[r] = "Cancelled" /\ cancelReq[r])

Stays(r) ==
    /\ generated'[r] = generated[r]
    /\ status'[r] = status[r] \/ (Live(status[r]) /\ Live(status'[r]))

LEMMA Viewed ==
    ASSUME NEW r \in Requests
    PROVE  /\ View[r] = [status |-> IF Live(status[r]) THEN "Live" ELSE status[r],
                         produced |-> generated[r], taken |-> polled[r], cancelled |-> cancelReq[r]]
           /\ View'[r] = [status |-> IF Live(status'[r]) THEN "Live" ELSE status'[r],
                          produced |-> generated'[r], taken |-> polled'[r], cancelled |-> cancelReq'[r]]
BY DEF View, Live

LEMMA CountsAreTyped ==
    ASSUME Served, NEW r \in Requests
    PROVE  /\ generated[r] \in Nat /\ polled[r] \in Nat /\ cancelReq[r] \in BOOLEAN
           /\ status[r] \in {"Queued"} \cup Active \cup Terminal \cup Absent
           /\ MaxNew[r] \in Nat /\ polled[r] <= generated[r] /\ generated[r] <= MaxNew[r]
BY Numbers DEF Served, Limited, IInv, Typed

LEMMA SchedulerStep ==
    ASSUME Served, UNCHANGED <<polled, cancelReq>>,
           \A r \in Requests : Advances(r) \/ Ends(r) \/ Stays(r)
    PROVE  Service!SchedulerMoves /\ Limited'
<1>1. ASSUME NEW r \in Requests
      PROVE  View'[r] = View[r] \/ View'[r] \in Service!Moves(r)
  <2> DEFINE st   == IF Live(status[r]) THEN "Live" ELSE status[r]
             next == IF Live(status'[r]) THEN "Live" ELSE status'[r]
  <2>1. /\ generated[r] \in Nat /\ polled[r] \in Nat /\ cancelReq[r] \in BOOLEAN
        /\ status[r] \in {"Queued"} \cup Active \cup Terminal \cup Absent
        /\ MaxNew[r] \in Nat /\ polled[r] <= generated[r] /\ generated[r] <= MaxNew[r]
    BY CountsAreTyped
  <2>2. /\ View[r] = [status |-> st, produced |-> generated[r], taken |-> polled[r],
                      cancelled |-> cancelReq[r]]
        /\ View'[r] = [status |-> next, produced |-> generated'[r], taken |-> polled[r],
                       cancelled |-> cancelReq[r]]
    BY Viewed
  <2>3. CASE Stays(r)
    <3>1. st = next /\ generated'[r] = generated[r]
      BY <2>3 DEF Stays
    <3> HIDE DEF st, next
    <3>2. QED
      BY <2>2, <3>1
  <2>4. CASE Advances(r)
    <3>1. /\ st = "Live" /\ next \in {"Live", "Finished"}
          /\ generated'[r] = generated[r] + 1 /\ generated'[r] <= MaxNew[r] /\ ~cancelReq[r]
          /\ generated'[r] >= MaxNew[r] => next = "Finished"
      BY <2>4 DEF Advances, Live, Active
    <3> HIDE DEF st, next
    <3>2. View'[r] \in Service!Record(r)
      BY <2>1, <2>2, <3>1 DEF Service!Record, Service!Live, Service!Terminal, Service!Absent
    <3>3. Service!Move(View[r], View'[r], MaxNew[r])
      BY <2>1, <2>2, <3>1 DEF Service!Move, Service!Produce, Service!Live
    <3>4. QED
      BY <3>2, <3>3 DEF Service!Moves, View
  <2>5. CASE Ends(r)
    <3>1. /\ st = "Live"
          /\ next = "Failed" \/ (next = "Cancelled" /\ cancelReq[r])
          /\ generated'[r] = generated[r]
      BY <2>5 DEF Ends, Live, Active
    <3> HIDE DEF st, next
    <3>2. View'[r] \in Service!Record(r)
      BY <2>1, <2>2, <3>1 DEF Service!Record, Service!Live, Service!Terminal, Service!Absent
    <3>3. Service!Move(View[r], View'[r], MaxNew[r])
      BY <2>1, <2>2, <3>1 DEF Service!Move, Service!Retire, Service!Live
    <3>4. QED
      BY <3>2, <3>3 DEF Service!Moves, View
  <2>6. QED
    BY <2>3, <2>4, <2>5
<1>2. DOMAIN View' = Requests
    BY DEF View
<1>3. Service!SchedulerMoves
    BY <1>1, <1>2 DEF Service!SchedulerMoves, View
<1>4. Limited'
  <2>1. SUFFICES ASSUME NEW r \in Requests PROVE polled'[r] <= generated'[r] /\ generated'[r] <= MaxNew[r]
    BY DEF Limited
  <2>2. /\ generated[r] \in Nat /\ polled[r] \in Nat /\ MaxNew[r] \in Nat
        /\ polled[r] <= generated[r] /\ generated[r] <= MaxNew[r]
    BY CountsAreTyped
  <2>3. QED
    BY <2>2 DEF Advances, Ends, Stays
<1>5. QED
    BY <1>3, <1>4

\* An operation of a client changes what the service shows of one request.
LEMMA OneChanges ==
    ASSUME NEW r \in Requests, NEW n, View'[r] = n,
           \A q \in Requests \ {r} : UNCHANGED <<status[q], generated[q], polled[q], cancelReq[q]>>
    PROVE  View' = [View EXCEPT ![r] = n]
<1>1. ASSUME NEW q \in Requests \ {r} PROVE View'[q] = View[q]
  <2> DEFINE same == [status |-> IF Live(status[q]) THEN "Live" ELSE status[q],
                      produced |-> generated[q], taken |-> polled[q], cancelled |-> cancelReq[q]]
  <2>1. UNCHANGED <<status[q], generated[q], polled[q], cancelReq[q]>>
    OBVIOUS
  <2>2. View[q] = same
    BY DEF View, Live
  <2>3. View'[q] = same
    BY <2>1 DEF View, Live
  <2> HIDE DEF same
  <2>4. QED
    BY <2>2, <2>3
<1>2. View = [q \in Requests |-> View[q]] /\ View' = [q \in Requests |-> View'[q]]
    BY DEF View
<1>3. QED
    BY <1>1, <1>2

LEMMA ClientImplements ==
    ASSUME Served, ClientNext
    PROVE  Service!ServiceNext /\ Limited'
<1>1. /\ status \in [Requests -> {"Queued"} \cup Active \cup Terminal \cup Absent]
      /\ generated \in [Requests -> Nat] /\ polled \in [Requests -> Nat]
      /\ cancelReq \in [Requests -> BOOLEAN]
    BY DEF Served, IInv, Typed
<1>2. \A r \in Requests : MaxNew[r] \in Nat /\ polled[r] <= generated[r] /\ generated[r] <= MaxNew[r]
    BY CountsAreTyped
<1>3. ASSUME NEW r \in Requests, Submit(r)
      PROVE  Service!Submit(r) /\ Limited'
  <2>1. /\ status[r] = "Unsubmitted" /\ status' = [status EXCEPT ![r] = "Queued"]
        /\ UNCHANGED <<generated, polled, cancelReq>>
    BY <1>3 DEF Submit
  <2> DEFINE n == [View[r] EXCEPT !.status = "Live"]
  <2>2. View[r] = [status |-> "Unsubmitted", produced |-> generated[r], taken |-> polled[r],
                   cancelled |-> cancelReq[r]]
    BY <2>1, Viewed DEF Live, Active
  <2>3. View'[r] = [status |-> "Live", produced |-> generated[r], taken |-> polled[r],
                    cancelled |-> cancelReq[r]]
    <3>1. status'[r] = "Queued"
      BY <1>1, <2>1
    <3>2. QED
      BY <2>1, <3>1, Viewed DEF Live
  <2>4. View'[r] = n
    BY <2>2, <2>3
  <2>5. View' = [View EXCEPT ![r] = n]
    <3> HIDE DEF n
    <3>1. QED
      BY <1>1, <2>1, <2>4, OneChanges
  <2>6. View[r].status = "Unsubmitted" /\ View' = [View EXCEPT ![r].status = "Live"]
    BY <2>2, <2>5
  <2>7. Service!Submit(r)
    BY <2>6 DEF Service!Submit, View
  <2>8. Limited'
    BY <1>2, <2>1 DEF Limited
  <2>9. QED
    BY <2>7, <2>8
<1>4. ASSUME NEW r \in Requests, NEW n \in 1 .. MaxNew[r], Poll(r, n)
      PROVE  (\E k \in 0 .. MaxNew[r] : Service!PollTakes(r, k)) /\ Limited'
  <2>1. /\ status[r] \notin Absent /\ polled' = [polled EXCEPT ![r] = @ + n]
        /\ UNCHANGED <<status, generated, cancelReq>> /\ n \in 1 .. (generated[r] - polled[r])
    BY <1>4 DEF Poll
  <2> DEFINE st   == IF Live(status[r]) THEN "Live" ELSE status[r]
             next == [View[r] EXCEPT !.taken = @ + n]
  <2>2. n \in Nat /\ n \in 0 .. MaxNew[r] /\ st \notin {"Unsubmitted", "Released"}
    BY <1>2, <2>1 DEF Absent
  <2> HIDE DEF st
  <2>3. View[r] = [status |-> st, produced |-> generated[r], taken |-> polled[r],
                   cancelled |-> cancelReq[r]]
    BY Viewed DEF st
  <2>4. View'[r] = [status |-> st, produced |-> generated[r], taken |-> polled[r] + n,
                    cancelled |-> cancelReq[r]]
    BY <1>1, <2>1, Viewed DEF st
  <2>5. View'[r] = next
    BY <2>3, <2>4
  <2>6. View' = [View EXCEPT ![r] = next]
    <3> HIDE DEF next
    <3>1. QED
      BY <1>1, <2>1, <2>5, OneChanges
  <2>7. View' = [View EXCEPT ![r].taken = @ + n]
    BY <2>6
  <2>8. /\ View[r].status \notin {"Unsubmitted", "Released"}
        /\ n \in 0 .. (View[r].produced - View[r].taken)
    BY <1>1, <2>1, <2>2, <2>3
  <2>9. Service!PollTakes(r, n)
    BY <2>7, <2>8 DEF Service!PollTakes, Service!Known, Service!Absent, Service!Unread,
                      Service!Advance, View
  <2>10. Limited'
    <3>1. polled'[r] = polled[r] + n /\ \A q \in Requests : q # r => polled'[q] = polled[q]
      BY <1>1, <2>1
    <3>2. polled[r] + n <= generated[r]
      BY <1>1, <2>1
    <3>3. QED
      BY <1>2, <2>1, <3>1, <3>2 DEF Limited
  <2>11. QED
    BY <2>2, <2>9, <2>10
<1>5. ASSUME NEW r \in Requests, Cancel(r)
      PROVE  Service!CancelAccepted(r) /\ Limited'
  <2>1. /\ Live(status[r]) /\ cancelReq' = [cancelReq EXCEPT ![r] = TRUE]
        /\ UNCHANGED <<status, generated, polled>>
    BY <1>5 DEF Cancel, Live
  <2> DEFINE n == [status |-> "Live", produced |-> generated[r], taken |-> polled[r], cancelled |-> TRUE]
  <2>2. View[r] = [status |-> "Live", produced |-> generated[r], taken |-> polled[r],
                   cancelled |-> cancelReq[r]]
    BY <2>1, Viewed
  <2>3. View'[r] = n
    BY <1>1, <2>1, Viewed
  <2>4. View' = [View EXCEPT ![r] = n]
    <3> HIDE DEF n
    <3>1. QED
      BY <1>1, <2>1, <2>3, OneChanges
  <2>5. View' = [View EXCEPT ![r].status = "Live", ![r].cancelled = TRUE]
    <3>1. r \in DOMAIN View
      BY DEF View
    <3> DEFINE m == [View[r] EXCEPT !.status = "Live"]
    <3>2. m = [status |-> "Live", produced |-> generated[r], taken |-> polled[r],
               cancelled |-> cancelReq[r]]
      BY <2>2
    <3>3. n = [m EXCEPT !.cancelled = TRUE]
      <4> HIDE DEF m
      <4>1. PICK u : u = [m EXCEPT !.cancelled = TRUE]
        OBVIOUS
      <4>2. u = n
        BY <3>2, <4>1
      <4>3. QED
        BY <4>1, <4>2, Zenon
    <3>4. n = [View[r] EXCEPT !.status = "Live", !.cancelled = TRUE]
      BY <3>3
    <3> HIDE DEF n
    <3>5. QED
      BY <2>4, <3>1, <3>4
  <2>6. View[r].status = "Live"
    BY <2>2
  <2>7. Service!CancelAccepted(r)
    BY <2>5, <2>6 DEF Service!CancelAccepted, Service!Live, View
  <2>8. Limited'
    BY <1>2, <2>1 DEF Limited
  <2>9. QED
    BY <2>7, <2>8
<1>6. ASSUME NEW r \in Requests, Release(r)
      PROVE  Service!Release(r) /\ Limited'
  <2>1. /\ status[r] \in Terminal /\ status' = [status EXCEPT ![r] = "Released"]
        /\ generated' = [generated EXCEPT ![r] = 0] /\ polled' = [polled EXCEPT ![r] = 0]
        /\ cancelReq' = [cancelReq EXCEPT ![r] = FALSE]
    BY <1>6 DEF Release
  <2> DEFINE gone == [status |-> "Released", produced |-> 0, taken |-> 0, cancelled |-> FALSE]
  <2>2. View'[r] = gone
    <3>1. status'[r] = "Released" /\ generated'[r] = 0 /\ polled'[r] = 0 /\ cancelReq'[r] = FALSE
      BY <1>1, <2>1
    <3>2. ~Live("Released")
      BY DEF Live, Active
    <3>3. QED
      BY <3>1, <3>2, Viewed
  <2> HIDE DEF gone
  <2>3. View' = [View EXCEPT ![r] = gone]
    BY <1>1, <2>1, <2>2, OneChanges
  <2>4. gone = [Service!Fresh EXCEPT !.status = "Released"]
    <3> DEFINE f == Service!Fresh
    <3>1. f = [status |-> "Unsubmitted", produced |-> 0, taken |-> 0, cancelled |-> FALSE]
      BY DEF Service!Fresh
    <3> HIDE DEF f
    <3>2. PICK u : u = [f EXCEPT !.status = "Released"]
      OBVIOUS
    <3>3. u = gone
      BY <3>1, <3>2 DEF gone
    <3>4. QED
      BY <3>2, <3>3, Zenon DEF f
  <2>5. View[r].status \in Terminal
    <3>1. ~Live(status[r])
      BY <2>1 DEF Live, Active, Terminal
    <3>2. View[r] = [status |-> status[r], produced |-> generated[r], taken |-> polled[r],
                     cancelled |-> cancelReq[r]]
      BY <3>1, Viewed
    <3>3. QED
      BY <2>1, <3>2
  <2>6. Service!Release(r)
    BY <2>3, <2>4, <2>5 DEF Service!Release, Service!Terminal, Terminal, View
  <2>7. Limited'
    BY <1>1, <1>2, <2>1 DEF Limited
  <2>8. QED
    BY <2>6, <2>7
<1>7. QED
    BY <1>3, <1>4, <1>5, <1>6 DEF ClientNext, Service!ServiceNext

\* Of the requests, S are over and nothing happens to the others.
LEMMA SomeEnd ==
    ASSUME Served, NEW S, S \subseteq Requests, NEW state, NEW end, Finish(S, state, end),
           \A r \in S : /\ Live(status[r])
                        /\ end = "Failed" \/ (end = "Cancelled" /\ cancelReq[r]),
           UNCHANGED generated
    PROVE  \A r \in Requests : Advances(r) \/ Ends(r) \/ Stays(r)
BY DEF Finish, Ends, Stays

LEMMA AdmissionImplements ==
    ASSUME Served, AdmitNext
    PROVE  Service!SchedulerMoves /\ Limited'
<1>1. PICK r \in BestQueued : AdmitCancelled(r) \/ Admit(r) \/ LaneFails(r) \/ NoPages(r)
    BY DEF AdmitNext
<1>2. UNCHANGED <<generated, polled, cancelReq>>
    BY DEF AdmitNext
<1>3. r \in Requests /\ Live(status[r])
    BY DEF BestQueued, First, InStatus, Live
<1>4. \A q \in Requests : Advances(q) \/ Ends(q) \/ Stays(q)
  <2> DEFINE S == {r}
  <2>1. S \subseteq Requests /\ \A q \in S : q = r
    BY <1>3
  <2>2. ASSUME NEW state, NEW end, Finish({r}, state, end),
               end = "Failed" \/ (end = "Cancelled" /\ cancelReq[r])
        PROVE  \A q \in Requests : Advances(q) \/ Ends(q) \/ Stays(q)
    <3>1. Finish(S, state, end)
      BY <2>2
    <3> HIDE DEF S
    <3>2. QED
      BY <1>2, <1>3, <2>1, <2>2, <3>1, SomeEnd
  <2>3. CASE AdmitCancelled(r)
    BY <2>2, <2>3 DEF AdmitCancelled
  <2>4. CASE LaneFails(r)
    BY <2>2, <2>4 DEF LaneFails
  <2>5. CASE NoPages(r)
    BY <1>2, <2>5 DEF NoPages, Stays
  <2>6. CASE Admit(r)
    <3>1. \E start \in Active : status' = [status EXCEPT ![r] = start]
      BY <2>6 DEF Admit, Active
    <3>2. DOMAIN status = Requests
      BY DEF Served, IInv, Typed
    <3>3. QED
      BY <1>2, <1>3, <3>1, <3>2 DEF Stays, Live
  <2>7. QED
    BY <1>1, <2>3, <2>4, <2>5, <2>6
<1>5. QED
    BY <1>2, <1>4, SchedulerStep

LEMMA PlansImplement ==
    ASSUME Served, PlanPrefill \/ PlanDecode
    PROVE  Service!SchedulerMoves /\ Limited'
<1>1. UNCHANGED <<generated, polled, cancelReq>>
    BY DEF PlanPrefill, PlanDecode
<1>2. CASE PlanPrefill
  <2>1. \E S \in SUBSET Requests :
           /\ Finish(S, kv, "Cancelled")
           /\ \A r \in S : Live(status[r]) /\ cancelReq[r]
    <3> DEFINE order   == InOrder(InStatus({"Prefill"}))
               waiting == {r \in InStatus({"Decoding"}) : ~cancelReq[r]}
               left    == Budgets(order, Max({0, MaxBatchedTokens - Cardinality(waiting)}))
               visited == {i \in DOMAIN order : left[i - 1] \in Nat}
               stopped == {order[i] : i \in {j \in visited : cancelReq[order[j]]}}
    <3>1. Finish(stopped, kv, "Cancelled")
      BY <1>2 DEF PlanPrefill
    <3>2. \A i \in DOMAIN order : order[i] \in Requests /\ status[order[i]] = "Prefill"
      <4>1. InStatus({"Prefill"}) \subseteq Requests
        BY DEF InStatus
      <4>2. \A i \in DOMAIN order : order[i] \in InStatus({"Prefill"})
        BY <4>1, InOrderMembers
      <4>3. QED
        BY <4>2 DEF InStatus
    <3> HIDE DEF order, left
    <3>3. stopped \subseteq Requests /\ \A r \in stopped : status[r] = "Prefill" /\ cancelReq[r]
      BY <3>2
    <3> HIDE DEF stopped
    <3>4. QED
      BY <3>1, <3>3 DEF Live, Active
  <2>2. PICK S \in SUBSET Requests :
           /\ Finish(S, kv, "Cancelled")
           /\ \A r \in S : Live(status[r]) /\ cancelReq[r]
    BY <2>1
  <2>3. \A r \in Requests : Advances(r) \/ Ends(r) \/ Stays(r)
    BY <1>1, <2>2, SomeEnd
  <2>4. QED
    BY <1>1, <2>3, SchedulerStep
<1>3. CASE PlanDecode
  <2>1. \E S \in SUBSET Requests :
           /\ status' = [r \in Requests |-> IF r \in S THEN "Cancelled" ELSE status[r]]
           /\ \A r \in S : Live(status[r]) /\ cancelReq[r]
    <3> DEFINE ready   == {r \in InStatus({"Decoding"}) : ~cancelReq[r]}
               stopped == {r \in InStatus({"Decoding"}) \ ready :
                             Cardinality({q \in ready : Before(q, r)}) < MaxBatchedTokens}
    <3>1. status' = [r \in Requests |-> IF r \in stopped THEN "Cancelled" ELSE status[r]]
      BY <1>3 DEF PlanDecode
    <3>2. stopped \subseteq Requests /\ \A r \in stopped : status[r] = "Decoding" /\ cancelReq[r]
      BY DEF InStatus
    <3> HIDE DEF stopped
    <3>3. QED
      BY <3>1, <3>2 DEF Live, Active
  <2>2. PICK S \in SUBSET Requests :
           /\ status' = [r \in Requests |-> IF r \in S THEN "Cancelled" ELSE status[r]]
           /\ \A r \in S : Live(status[r]) /\ cancelReq[r]
    BY <2>1
  <2>3. \A r \in Requests : Ends(r) \/ Stays(r)
    BY <1>1, <2>2 DEF Ends, Stays
  <2>4. QED
    BY <1>1, <2>3, SchedulerStep
<1>4. QED
    BY <1>2, <1>3

LEMMA OutcomesImplement ==
    ASSUME Served, PrefillOutcome \/ DecodeOutcome
    PROVE  Service!SchedulerMoves /\ Limited'
<1>1. Typed /\ BatchStays /\ \A r \in Requests : Sized(r)
    BY DEF Served, IInv
<1>2. UNCHANGED <<polled, cancelReq>>
    BY DEF PrefillOutcome, DecodeOutcome
<1>3. PICK r \in DOMAIN work :
         \/ PrefillOutcome /\ PrefillCancelled(r)
         \/ PrefillOutcome /\ PrefillLeftOut(r)
         \/ PrefillOutcome /\ PrefillSucceeds(r)
         \/ PrefillOutcome /\ Fails(r)
         \/ DecodeOutcome /\ DecodeCancelled(r)
         \/ DecodeOutcome /\ \E eos \in BOOLEAN : Accept(r, eos)
         \/ DecodeOutcome /\ Fails(r) /\ UNCHANGED generated
  <2>1. First(DOMAIN work, 1) \subseteq DOMAIN work
    BY DEF First
  <2>2. PrefillOutcome =>
           \E r \in DOMAIN work :
              PrefillCancelled(r) \/ PrefillLeftOut(r) \/ PrefillSucceeds(r) \/ Fails(r)
    BY <2>1 DEF PrefillOutcome
  <2>3. DecodeOutcome =>
           \E r \in DOMAIN work :
              \/ DecodeCancelled(r)
              \/ \E eos \in BOOLEAN : Accept(r, eos)
              \/ Fails(r) /\ UNCHANGED generated
    BY DEF DecodeOutcome
  <2>4. QED
    BY <2>2, <2>3
<1>4. /\ r \in Requests /\ Live(status[r]) /\ DOMAIN status = Requests
      /\ DecodeOutcome => status[r] = "Decoding"
      /\ PrefillOutcome => status[r] = "Prefill" /\ UNCHANGED generated
  <2>1. r \in Requests /\ DOMAIN status = Requests
    BY <1>1 DEF Typed
  <2>2. DecodeOutcome => status[r] = "Decoding"
    BY <1>1 DEF BatchStays, DecodeOutcome
  <2>3. PrefillOutcome => status[r] = "Prefill" /\ UNCHANGED generated
    BY <1>1 DEF BatchStays, PrefillOutcome
  <2>4. QED
    BY <2>1, <2>2, <2>3 DEF Live, Active
<1>5. ASSUME NEW state, NEW end, Finish({r}, state, end), UNCHANGED generated,
             end = "Failed" \/ (end = "Cancelled" /\ cancelReq[r])
      PROVE  \A q \in Requests : Advances(q) \/ Ends(q) \/ Stays(q)
  <2> DEFINE S == {r}
  <2>1. S \subseteq Requests /\ (\A q \in S : q = r) /\ Finish(S, state, end)
    BY <1>4, <1>5
  <2> HIDE DEF S
  <2>2. QED
    BY <1>4, <1>5, <2>1, SomeEnd
<1>6. CASE (PrefillOutcome /\ PrefillCancelled(r)) \/ (DecodeOutcome /\ DecodeCancelled(r))
  <2>1. cancelReq[r] /\ Finish({r}, kv, "Cancelled") /\ UNCHANGED generated
    BY <1>4, <1>6 DEF PrefillCancelled, DecodeCancelled
  <2>2. \A q \in Requests : Advances(q) \/ Ends(q) \/ Stays(q)
    BY <1>5, <2>1
  <2>3. QED
    BY <1>2, <2>2, SchedulerStep
<1>7. CASE (PrefillOutcome /\ Fails(r)) \/ (DecodeOutcome /\ Fails(r) /\ UNCHANGED generated)
  <2>1. Finish({r}, kv, "Failed") /\ UNCHANGED generated
    BY <1>4, <1>7 DEF Fails
  <2>2. \A q \in Requests : Advances(q) \/ Ends(q) \/ Stays(q)
    BY <1>5, <2>1
  <2>3. QED
    BY <1>2, <2>2, SchedulerStep
<1>8. CASE PrefillOutcome /\ (PrefillLeftOut(r) \/ PrefillSucceeds(r))
  <2>1. UNCHANGED status \/ status' = [status EXCEPT ![r] = "Decoding"]
    BY <1>8 DEF PrefillLeftOut, PrefillSucceeds
  <2>2. \A q \in Requests : Stays(q)
    BY <1>4, <1>8, <2>1 DEF Stays, Live, Active
  <2>3. QED
    BY <1>2, <2>2, SchedulerStep
<1>9. CASE DecodeOutcome /\ \E eos \in BOOLEAN : Accept(r, eos)
  <2>1. PICK eos \in BOOLEAN : Accept(r, eos)
    BY <1>9
  <2>2. /\ ~cancelReq[r] /\ generated' = [generated EXCEPT ![r] = @ + 1]
        /\ IF eos \/ generated[r] + 1 >= MaxNew[r]
           THEN status' = [q \in Requests |-> IF q \in {r} THEN "Finished" ELSE status[q]]
           ELSE UNCHANGED status
    BY <2>1 DEF Accept, Finish
  <2>3. /\ status[r] = "Decoding" /\ generated \in [Requests -> Nat] /\ generated[r] \in Nat
        /\ MaxNew[r] \in Nat /\ generated[r] < MaxNew[r]
    BY <1>1, <1>4, <1>9, Numbers DEF Typed, Sized
  <2>4. Advances(r)
    <3>1. generated'[r] = generated[r] + 1
      BY <1>4, <2>2, <2>3
    <3>2. CASE eos \/ generated[r] + 1 >= MaxNew[r]
      <4>1. status'[r] = "Finished"
        BY <1>4, <2>2, <3>2
      <4>2. QED
        BY <1>4, <2>2, <2>3, <3>1, <4>1 DEF Advances
    <3>3. CASE ~(eos \/ generated[r] + 1 >= MaxNew[r])
      <4>1. status'[r] = "Decoding" /\ ~(generated[r] + 1 >= MaxNew[r])
        BY <2>2, <2>3, <3>3
      <4>2. QED
        BY <1>4, <2>2, <2>3, <3>1, <4>1 DEF Advances, Active
    <3>4. QED
      BY <3>2, <3>3
  <2>5. ASSUME NEW q \in Requests, q # r PROVE Stays(q)
    BY <2>2, <2>3, <2>5 DEF Stays
  <2>6. \A q \in Requests : Advances(q) \/ Ends(q) \/ Stays(q)
    BY <2>4, <2>5
  <2>7. QED
    BY <1>2, <2>6, SchedulerStep
<1>10. QED
    BY <1>3, <1>6, <1>7, <1>8, <1>9

LEMMA StepImplements ==
    ASSUME Served, [Next]_vars
    PROVE  (Service!ServiceNext \/ UNCHANGED View) /\ Limited'
<1>1. CASE ClientNext
    BY <1>1, ClientImplements
<1>2. CASE AdmitNext
    BY <1>2, AdmissionImplements DEF Service!ServiceNext
<1>3. CASE PlanPrefill \/ PlanDecode
    BY <1>3, PlansImplement DEF Service!ServiceNext
<1>4. CASE PrefillOutcome \/ DecodeOutcome
    BY <1>4, OutcomesImplement DEF Service!ServiceNext
<1>5. CASE AdmitNobody \/ StepBegin \/ UNCHANGED vars
  <2>1. UNCHANGED <<status, generated, polled, cancelReq>>
    BY <1>5 DEF AdmitNobody, StepBegin, vars, request
  <2>2. QED
    BY <2>1 DEF View, Served, Limited
<1>6. QED
    BY <1>1, <1>2, <1>3, <1>4, <1>5 DEF Next, EngineNext

LEMMA ServedAlways == Spec => []Served
<1>1. Init => Served
  <2>1. Init => Limited
    BY Numbers DEF Init, Limited
  <2>2. QED
    BY <2>1, InitKeeps DEF Served
<1>2. Served /\ [Next]_vars => Served'
    BY StepKeeps, StepImplements DEF Served
<1>3. QED
    BY <1>1, <1>2, PTL DEF Spec

\* Seen through submit, poll, cancel and release the engine is a RequestService: no
\* token is lost, repeated or added once a cancel was accepted or the request is
\* over, a request to be cancelled ends Cancelled, or Failed when its model call
\* throws, only one that is over is forgotten, and none outgrows max_new_tokens.
THEOREM ServiceTheorem == Spec => ImplementsService
<1>1. Init => Service!ServiceInit
  <2>1. SUFFICES ASSUME Init PROVE View = [r \in Requests |-> Service!Fresh]
    BY DEF Service!ServiceInit, View
  <2>2. \A r \in Requests : View[r] = Service!Fresh
    BY <2>1 DEF Init, View, Active, Service!Fresh
  <2>3. QED
    BY <2>2 DEF View
<1>2. Served /\ [Next]_vars => Service!ServiceNext \/ UNCHANGED View
    BY StepImplements
<1>3. QED
    BY <1>1, <1>2, ServedAlways, PTL DEF Spec, ImplementsService, Service!ServiceSpec, View
=============================================================================
