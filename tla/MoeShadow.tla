----------------------------- MODULE MoeShadow -----------------------------
(***************************************************************************)
(* The process-wide shadow cache and its owner.  A context that asks for a *)
(* shadow budget acquires it as the last step of its creation and is freed *)
(* again when another context owns it; MoE kernels of a context with a     *)
(* budget feed every expert they touch to the shadow and to the trace.     *)
(* cache_sim_mtx is held through a kernel entry, one access per step.      *)
(***************************************************************************)
EXTENDS MoeCacheLru

CONSTANTS
    Contexts,
    KernelEntries,  \* slices touched by a kernel entry: sequences of [key, bytes]
    TraceLimit,     \* ggml_moe_trace::max_records
    MaxAccesses,    \* bound on the accesses of one owner
    None

ASSUME ShadowAssumption ==
    /\ KernelEntries \subseteq Seq([key : Keys, bytes : Sizes]) \ {<<>>}
    /\ TraceLimit \in Nat /\ MaxAccesses \in Nat /\ None \notin Contexts

VARIABLES
    budget,    \* cparams.expert_cache_sim_bytes of a context
    life,      \* a context's life: "none", "live" or "rejected"
    isOwner,   \* llama_context::expert_cache_sim_owner
    owned,     \* cache_sim_owned
    traceFile, \* whether the file of GGML_MOE_TRACE_FILE exists
    trace,     \* None, or the records written and dropped
    feeding,   \* slices the kernel holding cache_sim_mtx has still to feed
    feeder,    \* and its context
    observed   \* history: accesses a context has made since it was created

ctxVars    == <<budget, life, isOwner>>
ownVars    == <<owned, traceFile, trace>>
feedVars   == <<feeding, feeder, observed>>
shadowVars == <<lruVars, ctxVars, ownVars, feedVars>>

Unlocked == feeder = None

ShadowInit ==
    /\ LruInit
    /\ budget = [c \in Contexts |-> 0] /\ life = [c \in Contexts |-> "none"]
    /\ isOwner = [c \in Contexts |-> FALSE]
    /\ owned = FALSE /\ traceFile = FALSE /\ trace = None
    /\ feeding = <<>> /\ feeder = None /\ observed = [c \in Contexts |-> 0]

\* The trace is created exclusively: a path that exists gets no trace.
OpenTrace ==
    \/ traceFile' = TRUE /\ trace' = IF traceFile THEN None ELSE [written |-> 0, dropped |-> 0]
    \/ UNCHANGED traceFile /\ trace' = None  \* no path, or fopen fails

\* ggml_moe_cache_sim_try_acquire, for a budget above zero
MayAcquireAlways == TRUE  \* mutant: the owner is not looked at
MayAcquire == ~owned

TryAcquire(cap) ==
    /\ MayAcquire
    /\ Reset(cap)
    /\ owned' = TRUE
    /\ OpenTrace

\* The end of llama_new_context_with_model.
CreateWithout(c) ==
    /\ life[c] = "none"
    /\ budget' = [budget EXCEPT ![c] = 0]
    /\ life' = [life EXCEPT ![c] = "live"]
    /\ UNCHANGED <<lruVars, isOwner, ownVars, feedVars>>

CreateOwner(c, cap) ==
    /\ life[c] = "none" /\ cap > 0 /\ Unlocked
    /\ TryAcquire(cap)
    /\ budget' = [budget EXCEPT ![c] = cap]
    /\ life' = [life EXCEPT ![c] = "live"]
    /\ isOwner' = [isOwner EXCEPT ![c] = TRUE]
    /\ observed' = [observed EXCEPT ![c] = 0]
    /\ UNCHANGED <<feeding, feeder>>

CreateRejected(c, cap) ==
    /\ life[c] = "none" /\ cap > 0 /\ Unlocked
    /\ ~MayAcquire
    /\ budget' = [budget EXCEPT ![c] = cap]
    /\ life' = [life EXCEPT ![c] = "rejected"]
    /\ UNCHANGED <<lruVars, isOwner, ownVars, feedVars>>

\* ggml_moe_cache_sim_release
TraceKept == trace  \* mutant: the trace is not closed
TraceAfterRelease == None

Release ==
    IF owned
    THEN Reset(0) /\ owned' = FALSE /\ trace' = TraceAfterRelease /\ UNCHANGED traceFile
    ELSE UNCHANGED <<lruVars, ownVars>>

\* llama_free, also on the path of a rejected context
ReleasesAlways(c) == budget[c] > 0  \* mutant: a rejected context releases too
Releases(c) == isOwner[c]

LlamaFree(c) ==
    /\ life[c] # "none" /\ feeder # c
    /\ \/ Releases(c) /\ Unlocked /\ Release
       \/ ~Releases(c) /\ UNCHANGED <<lruVars, ownVars>>
    /\ isOwner' = [isOwner EXCEPT ![c] = FALSE]
    /\ life' = [life EXCEPT ![c] = "none"]
    /\ UNCHANGED <<budget, feedVars>>

\* ggml_moe_prefetch_set_cache_sim_capacity
SetCapacity(cap) ==
    /\ Unlocked
    /\ IF owned THEN UNCHANGED lruVars ELSE Reset(cap)
    /\ UNCHANGED <<ctxVars, ownVars, feedVars>>

\* ggml_moe_cache_sim_kernel_hook in a kernel of c, called when c has a budget
KernelHook(c, slices) ==
    /\ life[c] = "live" /\ budget[c] > 0 /\ Unlocked
    /\ stats.capacity > 0
    /\ stats.requests + Len(slices) <= MaxAccesses
    /\ feeder' = c /\ feeding' = slices
    /\ UNCHANGED <<lruVars, ctxVars, ownVars, observed>>

\* ggml_moe_trace::record
CanWriteOneMore == trace.written <= TraceLimit  \* mutant: off by one
CanWrite == trace.written < TraceLimit

Record ==
    trace' = IF trace = None THEN None
             ELSE IF CanWrite THEN [trace EXCEPT !.written = @ + 1]
             ELSE [trace EXCEPT !.dropped = @ + 1]

Feed ==
    /\ ~Unlocked
    /\ Access(Head(feeding).key, Head(feeding).bytes)
    /\ Record
    /\ feeding' = Tail(feeding)
    /\ feeder' = IF Len(feeding) = 1 THEN None ELSE feeder
    /\ observed' = [observed EXCEPT ![feeder] = @ + 1]
    /\ UNCHANGED <<ctxVars, owned, traceFile>>

ShadowNext ==
    \/ \E c \in Contexts :
          \/ CreateWithout(c)
          \/ \E cap \in Capacities : CreateOwner(c, cap) \/ CreateRejected(c, cap)
          \/ LlamaFree(c)
          \/ \E slices \in KernelEntries : KernelHook(c, slices)
    \/ \E cap \in Capacities : SetCapacity(cap)
    \/ Feed

ShadowSpec == ShadowInit /\ [][ShadowNext]_shadowVars
-----------------------------------------------------------------------------
(* The type of the shadow, its owner and its trace, from ggml-moe-prefetch.cpp *)
(* and ggml-moe-trace.h.                                                   *)
ShadowTypeOK ==
    /\ LruTypeOK
    /\ budget \in [Contexts -> Capacities \cup {0}]
    /\ life \in [Contexts -> {"none", "live", "rejected"}]
    /\ isOwner \in [Contexts -> BOOLEAN]
    /\ owned \in BOOLEAN /\ traceFile \in BOOLEAN
    /\ trace = None \/ trace \in [written : 0..TraceLimit, dropped : Nat]
    /\ feeding \in Seq([key : Keys, bytes : Sizes])
    /\ feeder \in Contexts \cup {None}
    /\ observed \in [Contexts -> Nat]

(* The counters of the shadow are those of its owner alone, under the budget *)
(* the owner asked for: "A second owner is rejected without modifying the  *)
(* active trace" (ggml-moe-prefetch.h:50), whatever other contexts are     *)
(* created, rejected and freed meanwhile.                                  *)
OwnerUndisturbed ==
    \A c \in Contexts : life[c] = "live" /\ budget[c] > 0 =>
        /\ stats.capacity = budget[c]
        /\ stats.requests = observed[c]
        /\ stats.hits + stats.misses = observed[c]

(* A trace accounts for each access of the owner, written or dropped, and  *)
(* ends with the owner: no row of one context lands in the trace of another. *)
TraceAccounts ==
    trace # None =>
        /\ owned
        /\ trace.written + trace.dropped = stats.requests

\* What the list keeps, and in which order it was used.
Kept == [k \in index |-> Entry(k).bytes]
Older == { q \in index \X index : Place(entries, q[2]) < Place(entries, q[1]) }

(* What kernel hooks and owners do to the list is a byte-bounded LRU: the  *)
(* slices kept by access() are the most recently used that fit the budget, *)
(* whatever the size classes and even where sizes add up past size_t.      *)
P == INSTANCE LruPolicy WITH
    Batches <- KernelEntries,
    budget  <- stats.capacity,
    asked   <- feeding,
    kept    <- Kept,
    older   <- Older
IsLruPolicy == P!PolicySpec
=============================================================================
