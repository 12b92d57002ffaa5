---------------------------- MODULE MoeCacheLru ----------------------------
(***************************************************************************)
(* ggml_moe_cache_lru: the byte-bounded LRU that stands for a host cache   *)
(* of expert slices.  It decides residency only; no page is touched.  A    *)
(* key is a tensor view and an expert; sizes are size_t and wrap.          *)
(***************************************************************************)
EXTENDS Integers, SequencesExt

CONSTANTS
    Keys,        \* ggml_moe_cache_key
    Sizes,       \* bytes of a slice
    Capacities,  \* budgets asked for
    SizeMax      \* largest size_t

ASSUME SizesAssumption ==
    /\ SizeMax \in Nat /\ Sizes \subseteq 0..SizeMax
    /\ Capacities \subseteq 0..SizeMax /\ 0 \in Capacities

VARIABLES
    entries,  \* entries_, most recent first
    index,    \* the keys of index_
    stats     \* stats_

lruVars == <<entries, index, stats>>

NoStats(cap) ==
    [capacity |-> cap, resident |-> 0, requests |-> 0, hits |-> 0, misses |-> 0,
     evictions |-> 0, evicted |-> 0, bypasses |-> 0]

\* size_t arithmetic.
Minus(a, b) == (a - b) % (SizeMax + 1)
Plus(a, b)  == (a + b) % (SizeMax + 1)

\* Bytes of the entries at some places of a list.
Bytes(s, places) == SumFunctionOnSet([i \in 1..Len(s) |-> s[i].bytes], places)

LruInit == entries = <<>> /\ index = {} /\ stats = NoStats(0)

\* ggml_moe_cache_lru::reset
Reset(cap) == entries' = <<>> /\ index' = {} /\ stats' = NoStats(cap)

\* The entry of a key in the list, which index_ has, and the list without it.
Place(s, key) == CHOOSE i \in 1..Len(s) : s[i].key = key
Entry(key) == entries[Place(entries, key)]
Others(key) == IF key \in index THEN RemoveAt(entries, Place(entries, key)) ELSE entries

Found(key, bytes) == key \in index /\ Entry(key).bytes = bytes

\* A hit moves the entry to the front.
HitInPlace(key, bytes) == entries  \* mutant: no splice, so a FIFO
Promoted(key, bytes) == <<[key |-> key, bytes |-> bytes]>> \o Others(key)

AccessHit(key, bytes) ==
    /\ Found(key, bytes)
    /\ entries' = Promoted(key, bytes)
    /\ UNCHANGED index
    /\ stats' = [stats EXCEPT !.requests = @ + 1, !.hits = @ + 1]

\* resident_bytes once an entry of the same key and another size is erased.
ResidentWithout(key) ==
    IF key \in index THEN Minus(stats.resident, Entry(key).bytes) ELSE stats.resident

TooBig(bytes) == bytes = 0 \/ stats.capacity = 0 \/ bytes > stats.capacity

\* A miss that is not worth caching: an entry of the key is gone all the same.
AccessBypass(key, bytes) ==
    /\ ~Found(key, bytes)
    /\ TooBig(bytes)
    /\ entries' = Others(key)
    /\ index' = index \ {key}
    /\ stats' = [stats EXCEPT !.requests = @ + 1, !.misses = @ + 1,
                              !.resident = ResidentWithout(key), !.bypasses = @ + 1]

FitsBySum(bytes, resident) == Plus(resident, bytes) <= stats.capacity  \* mutant: wraps
Fits(bytes, resident) == bytes <= Minus(stats.capacity, resident)

\* resident_bytes when the loop has left the n most recent entries.
ResidentLeft(s, n, resident) == Minus(resident, Bytes(s, n + 1..Len(s)))

\* How many of the most recent entries survive the eviction loop, which takes
\* the last entry while there is one and the slice does not fit.
Survivors(s, bytes, resident) ==
    CHOOSE n \in 0..Len(s) :
        /\ n = 0 \/ Fits(bytes, ResidentLeft(s, n, resident))
        /\ \A m \in n + 1..Len(s) : ~Fits(bytes, ResidentLeft(s, m, resident))

\* index_ after the victims are erased and the new entry is inserted.
IndexStale(key, s, n) == index \cup {key}  \* mutant: victims stay in index_
IndexAfter(key, s, n) == (index \ {s[i].key : i \in n + 1..Len(s)}) \cup {key}

AccessInsert(key, bytes) ==
    /\ ~Found(key, bytes)
    /\ ~TooBig(bytes)
    /\ LET rest == Others(key)
           n == Survivors(rest, bytes, ResidentWithout(key))
       IN  /\ entries' = <<[key |-> key, bytes |-> bytes]>> \o SubSeq(rest, 1, n)
           /\ index' = IndexAfter(key, rest, n)
           /\ stats' = [stats EXCEPT
                !.requests = @ + 1, !.misses = @ + 1,
                !.resident = Plus(ResidentLeft(rest, n, ResidentWithout(key)), bytes),
                !.evictions = @ + Len(rest) - n,
                !.evicted = @ + Bytes(rest, n + 1..Len(rest))]

\* ggml_moe_cache_lru::access
Access(key, bytes) ==
    \/ AccessHit(key, bytes)
    \/ AccessBypass(key, bytes)
    \/ AccessInsert(key, bytes)
-----------------------------------------------------------------------------
(* The type of the list, the index and the counters.                      *)
LruTypeOK ==
    /\ entries \in Seq([key : Keys, bytes : Sizes])
    /\ index \subseteq Keys
    /\ stats \in [capacity : Capacities, resident : 0..SizeMax, requests : Nat,
                  hits : Nat, misses : Nat, evictions : Nat, evicted : Nat, bypasses : Nat]

(* The list and the hash index of access() hold the same keys, each once:  *)
(* no iterator of index_ dangles and no entry is out of its reach.         *)
IndexMatchesList ==
    /\ index = { entries[i].key : i \in 1..Len(entries) }
    /\ \A i, j \in 1..Len(entries) : entries[i].key = entries[j].key => i = j

(* resident_bytes is the true sum of the entries and stays inside the      *)
(* budget, so that the unsigned capacity_bytes - resident_bytes that the   *)
(* eviction loop of access() tests never wraps.                            *)
BudgetKept ==
    /\ stats.resident = Bytes(entries, 1..Len(entries))
    /\ stats.resident <= stats.capacity
=============================================================================
