------------------------------ MODULE PagedKv ------------------------------
(***************************************************************************)
(* The pages of the key-value cache of the CUDA engine: the pool that       *)
(* counts references (PagedBlockPool, src/runtime/concurrency/policy.cpp,   *)
(* behind PhysicalPagedKvCache) and the prefix cache on top of it           *)
(* (PrefixCacheManager, src/runtime/cache/prefix_cache.cpp).                *)
(*                                                                         *)
(* Both are called by one thread at a time, so an operation is a function:  *)
(* it takes a state of the pool and the cache and returns                   *)
(* the next one.  A page table is a sequence of pages; the free list is the *)
(* set of pages without references, of which the lowest is taken first:     *)
(* nothing depends on which free page is taken.                             *)
(***************************************************************************)
EXTENDS Integers, FiniteSets, SequencesExt

CONSTANTS NumPages,     \* logical_kv_pages
          PageTokens,   \* page_tokens
          CacheEntries  \* prefix_cache_entries, 0 when there is no prefix cache

ASSUME KvAssumption ==
    NumPages \in Nat \ {0} /\ PageTokens \in Nat \ {0} /\ CacheEntries \in Nat

Pages == 1 .. NumPages

PagesFor(tokens) == (tokens + PageTokens - 1) \div PageTokens

\* The cache holds its entries from the least to the most recently used.
Entry == [prompt : Seq(Nat), pages : Seq(Pages)]
Kv    == [refs : [Pages -> Nat], cache : Seq(Entry)]

EmptyKv == [refs |-> [p \in Pages |-> 0], cache |-> << >>]

\* The k-th smallest of a set of numbers, and the part of a sequence at a set of places.
Nth(S, k)    == CHOOSE x \in S : Cardinality({y \in S : y < x}) = k - 1
Picked(s, S) == [k \in 1 .. Cardinality(S) |-> s[Nth(S, k)]]
-----------------------------------------------------------------------------
(* The pool. *)

Free(kv) == {p \in Pages : kv.refs[p] = 0}

Fits(kv, n) == n <= Cardinality(Free(kv))

\* The pages allocate_tokens hands out for n pages.
Taken(kv, n) == [i \in 1 .. n |-> Nth(Free(kv), i)]

\* Where page p is in a family of page tables, and how often.
Places(p, tables) ==
    {x \in UNION {{k} \X DOMAIN tables[k] : k \in DOMAIN tables} : tables[x[1]][x[2]] = p}

Times(p, tables) == Cardinality(Places(p, tables))

RetainPages(kv, pages) ==
    [refs |-> [p \in Pages |-> kv.refs[p] + Times(p, <<pages>>)], cache |-> kv.cache]

\* "invalid or double page release" is a count below zero.
ReleaseTables(kv, tables) ==
    [refs |-> [p \in Pages |-> kv.refs[p] - Times(p, tables)], cache |-> kv.cache]

ReleasePages(kv, pages) == ReleaseTables(kv, <<pages>>)

Allocate(kv, n) == RetainPages(kv, Taken(kv, n))
-----------------------------------------------------------------------------
(* The prefix cache. *)

\* The places of the entries that evict_one may take; no prompt is empty.
Evictable(kv, keep) == {i \in DOMAIN kv.cache : kv.cache[i].prompt # keep}

Evict(kv, n, keep) ==
    LET gone == {i \in Evictable(kv, keep) :
                   Cardinality({j \in Evictable(kv, keep) : j < i}) < n}
    IN  ReleaseTables([kv EXCEPT !.cache = Picked(@, DOMAIN @ \ gone)],
                      [i \in gone |-> kv.cache[i].pages])

\* Evicts until n pages are free, in vain if they never are.
Pressed(kv, n, keep) ==
    LET all    == Cardinality(Evictable(kv, keep))
        enough == {k \in 0 .. all : Fits(Evict(kv, k, keep), n)}
    IN  Evict(kv, IF enough = {} THEN all ELSE Min(enough), keep)

Refused(kv) == [ok |-> FALSE, kv |-> kv, pages |-> << >>]

\* n pages of kv, when there are.
Granted(kv, n) ==
    IF Fits(kv, n) THEN [ok |-> TRUE, kv |-> Allocate(kv, n), pages |-> Taken(kv, n)]
                   ELSE Refused(kv)

\* allocate_with_eviction
Obtain(kv, n, keep) == Granted(Pressed(kv, n, keep), n)

\* Faulty: a page of which only a part belongs to the prefix is shared.
CopyNothing(kv, pages, tokens, keep) == [ok |-> TRUE, kv |-> kv, pages |-> pages]

\* Copy on write: a last page of which only a part belongs to the prefix is
\* replaced in the table by a copy of that part, or the table is given back.
CopyLast(kv, pages, tokens, keep) ==
    LET copy == Obtain(kv, 1, keep)
    IN  IF tokens % PageTokens = 0 THEN [ok |-> TRUE, kv |-> kv, pages |-> pages]
        ELSE IF ~copy.ok THEN Refused(ReleasePages(copy.kv, pages))
        ELSE [ok    |-> TRUE,
              kv    |-> ReleasePages(copy.kv, <<Last(pages)>>),
              pages |-> Front(pages) \o copy.pages]

\* The entry whose prompt is the longest prefix of this one, if there is any.
Longest(kv, prompt) ==
    LET prefixes == {e \in Range(kv.cache) : IsPrefix(e.prompt, prompt)}
    IN  {e \in prefixes : \A f \in prefixes : Len(f.prompt) <= Len(e.prompt)}

Touch(kv, prompt) ==
    LET mine == {i \in DOMAIN kv.cache : kv.cache[i].prompt = prompt}
    IN  [kv EXCEPT !.cache = Picked(@, DOMAIN @ \ mine) \o Picked(@, mine)]

\* acquire: the pages of entry e, the last one copied, and as many more as the
\* tokens need.  The entry itself is not evicted to make room.
Acquire(kv, e, tokens) ==
    LET own  == CopyLast(RetainPages(kv, e.pages), e.pages, Len(e.prompt), e.prompt)
        rest == Obtain(own.kv, PagesFor(tokens) - Len(own.pages), e.prompt)
    IN  IF ~own.ok THEN own
        ELSE IF ~rest.ok THEN Refused(ReleasePages(rest.kv, own.pages))
        ELSE [ok    |-> TRUE,
              kv    |-> Touch(rest.kv, e.prompt),
              pages |-> own.pages \o rest.pages]

\* insert_or_update
Insert(kv, prompt, pages) ==
    LET mine == SubSeq(pages, 1, PagesFor(Len(prompt)))
        own  == CopyLast(RetainPages(kv, mine), mine, Len(prompt), << >>)
        full == [own.kv EXCEPT !.cache = Append(@, [prompt |-> prompt, pages |-> own.pages])]
    IN  IF CacheEntries = 0 THEN kv
        ELSE IF \E e \in Range(kv.cache) : e.prompt = prompt THEN Touch(kv, prompt)
        ELSE IF ~own.ok THEN own.kv
        ELSE Evict(full, Max({0, Len(full.cache) - CacheEntries}), prompt)
=============================================================================
