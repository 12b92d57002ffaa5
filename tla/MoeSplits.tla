------------------------------ MODULE MoeSplits ------------------------------
(***************************************************************************)
(* One context driving the read-ahead engine: llama_init_from_model starts *)
(* the workers and pins the manifest's expert slices, and every graph      *)
(* execution runs ggml_backend_sched_compute_splits, which streams the     *)
(* expert tensors of coming splits, waits for them before it copies them   *)
(* to a device, queues the selected slices of host-computed nodes, and     *)
(* hands one-shot pages back with MADV_COLD.  The engine is MoePrefetch,   *)
(* here with the one client Main.                                          *)
(*                                                                         *)
(* A split is described by the expert weights it needs from host memory    *)
(* and by where its expert matmuls run: "host" on the CPU backend, one     *)
(* node per weight; "active" on a device, with only_active_experts, so     *)
(* that copy_inputs waits for the streamer; "none" has no expert matmul.   *)
(***************************************************************************)
EXTENDS MoePrefetch

CONSTANTS
    Main,      \* the context's thread
    NSplits,   \* sched->n_splits
    Weights,   \* host_weights of each split, in order
    Kind,      \* of each split
    Ahead,     \* GGML_MOE_PREFETCH_AHEAD
    NThreads,  \* prefetch_experts_threads
    Manifest,  \* tensors the manifest selects experts of, in order
    Residents  \* the selected experts, by saliency

ASSUME MainAssumption == Clients = {Main}
ASSUME SplitsAssumption ==
    /\ NSplits \in Nat /\ Ahead \in Nat /\ NThreads \in 1..MaxThreads
    /\ Weights \in [1..NSplits -> Seq(Tensors)]
    /\ Kind \in [1..NSplits -> {"host", "active", "none"}]
    /\ \A i \in 1..NSplits : Kind[i] = "none" <=> Weights[i] = <<>>
    /\ Manifest \in Seq(Tensors) /\ Residents \in Seq(Chunks)
    /\ Manifest # <<>> => Residents # <<>>
    /\ \A i, k \in 1..Len(Residents) : Residents[i] = Residents[k] => i = k

VARIABLES
    at,     \* where the context is
    split,  \* i of compute_splits
    enq,    \* moe_enq: splits of moe_infos already streamed
    batch,  \* n_tokens >= 32
    ids,    \* experts the router selected for the split
    todo    \* tensors the current loop still has to visit

progVars == <<at, split, enq, batch, ids, todo>>
allVars  == <<vars, progVars>>

Elements(s) == { s[k] : k \in 1..Len(s) }

\* moe_infos lists these splits in order: moe_infos[k] is the split s of them
\* with MoeNext(s) = k, and moe_next is MoeNext(i) once split i began.
MoeInfos   == {s \in 1..NSplits : Weights[s] # <<>>}
MoeNext(i) == Cardinality({s \in MoeInfos : s < i})
WantEndBeyond(i) == IF MoeNext(i) + Ahead < Cardinality(MoeInfos)  \* mutant: inclusive bound
                    THEN MoeNext(i) + Ahead + 1 ELSE Cardinality(MoeInfos)
WantEnd(i) == IF MoeNext(i) + Ahead < Cardinality(MoeInfos)
              THEN MoeNext(i) + Ahead ELSE Cardinality(MoeInfos)

SplitsInit ==
    /\ Init
    /\ at = "init" /\ split = 0 /\ enq = 0 /\ batch = FALSE /\ ids = {} /\ todo = <<>>

Ready(place) == at = place /\ pc[Main] = "idle"

Goto(place, work) == at' = place /\ todo' = work

\* The client makes an engine call for Head(todo), which leaves the loop's work.
VisitFirst ==
    /\ todo # <<>>
    /\ todo' = Tail(todo)
    /\ UNCHANGED <<at, split, enq, batch, ids>>
-----------------------------------------------------------------------------
\* llama_init_from_model with prefetch_experts: start the workers, register
\* the mapping, populate the manifest's residents.
InitPool ==
    /\ Ready("init")
    /\ SetNThreads(Main, NThreads)
    /\ Goto("init_map", <<>>)
    /\ UNCHANGED <<split, enq, batch, ids>>

InitMapping ==
    /\ Ready("init_map")
    /\ RegisterMapping(Main)
    /\ Goto("init_residents", Manifest)
    /\ UNCHANGED <<split, enq, batch, ids>>

InitResidents ==
    /\ Ready("init_residents")
    /\ \/ VisitFirst /\ PrefetchExperts(Main, Head(todo), Residents)
       \/ /\ todo = <<>>
          /\ Goto("ready", <<>>)
          /\ UNCHANGED <<vars, split, enq, batch, ids>>
-----------------------------------------------------------------------------
\* compute_splits begins: a new epoch, and a scan that only reads the graph.
PassBegin ==
    /\ Ready("ready")
    /\ NewEpoch(Main)
    /\ split' = 1 /\ enq' = 0 /\ ids' = {}
    /\ batch' \in BOOLEAN
    /\ Goto("split", <<>>)

SplitBegin ==
    /\ Ready("split")
    /\ split <= NSplits
    /\ Goto("lookahead", <<>>)
    /\ UNCHANGED <<vars, split, enq, batch, ids>>

\* k of the lookahead loop, which starts from max(moe_enq, moe_next).
NextInfo == IF enq > MoeNext(split) THEN enq ELSE MoeNext(split)

\* Keep the next Ahead MoE splits streaming; only batches are worth it.
Lookahead ==
    /\ Ready("lookahead")
    /\ \/ VisitFirst /\ PrefetchTensor(Main, Head(todo))
       \/ /\ todo = <<>> /\ NextInfo < WantEnd(split)
          /\ enq' = NextInfo + 1
          /\ \E s \in MoeInfos :
                /\ MoeNext(s) = NextInfo
                /\ todo' = IF batch THEN Weights[s] ELSE <<>>
          /\ UNCHANGED <<vars, at, split, batch, ids>>
       \/ /\ todo = <<>> /\ NextInfo >= WantEnd(split)
          /\ Goto("copy", IF Kind[split] = "active" THEN Weights[split] ELSE <<>>)
          /\ UNCHANGED <<vars, split, enq, batch, ids>>

\* ggml_backend_sched_copy_inputs: wait for each weight before copying it.  The
\* router's ids are on the host afterwards.
CopyInputs ==
    /\ Ready("copy")
    /\ \/ VisitFirst /\ CallWait(Main, Head(todo))
       \/ /\ todo = <<>>
          /\ \E S \in SUBSET Chunks \ {{}} : ids' = S
          /\ Goto("nodes", IF Kind[split] = "host" THEN Weights[split] ELSE <<>>)
          /\ UNCHANGED <<vars, split, enq, batch>>

\* ggml_moe_prefetch_node for each host-computed node of the split.
Nodes ==
    /\ Ready("nodes")
    /\ \/ VisitFirst /\ PrefetchNode(Main, Head(todo), ids)
       \/ /\ todo = <<>>
          /\ Goto("eval", IF Kind[split] = "host" THEN Weights[split] ELSE <<>>)
          /\ UNCHANGED <<vars, split, enq, batch, ids>>

\* ggml_backend_sched_eval: each CPU kernel enters through the prefetch hook,
\* which queues the same slices again; a failure ends the pass.
Eval ==
    /\ Ready("eval")
    /\ \/ VisitFirst /\ PrefetchNode(Main, Head(todo), ids)
       \/ /\ todo = <<>>
          /\ Goto("cold", IF batch THEN Weights[split] ELSE <<>>)
          /\ UNCHANGED <<vars, split, enq, batch, ids>>

EvalFails ==
    /\ Ready("eval")
    /\ Goto("ready", <<>>)
    /\ split' = 0 /\ enq' = 0 /\ batch' = FALSE /\ ids' = {}
    /\ UNCHANGED vars

\* ggml_moe_prefetch_cold for the weights of a batch split, then the next split.
Cold ==
    /\ Ready("cold")
    /\ \/ VisitFirst /\ CallCold(Main, Head(todo))
       \/ /\ todo = <<>>
          /\ Goto("split", <<>>)
          /\ split' = split + 1 /\ ids' = {}
          /\ UNCHANGED <<vars, enq, batch>>

PassEnd ==
    /\ Ready("split")
    /\ split > NSplits
    /\ Goto("ready", <<>>)
    /\ split' = 0 /\ enq' = 0 /\ batch' = FALSE
    /\ UNCHANGED <<vars, ids>>

Program ==
    \/ InitPool \/ InitMapping \/ InitResidents
    \/ SplitBegin \/ Lookahead \/ CopyInputs \/ Nodes \/ Eval \/ Cold \/ PassEnd

SplitsNext ==
    \/ Program
    \/ PassBegin
    \/ EvalFails
    \/ Continue(Main) /\ UNCHANGED progVars
    \/ \E p \in Pools, i \in Workers : Worker(p, i) /\ UNCHANGED progVars

\* A context that began a pass goes on with it; none has to begin.
SplitsSpec ==
    /\ SplitsInit /\ [][SplitsNext]_allVars
    /\ Fairness /\ WF_allVars(Program)
-----------------------------------------------------------------------------
SplitPlaces == {"init", "init_map", "init_residents", "ready", "split", "lookahead",
                "copy", "nodes", "eval", "cold"}

\* The type of the engine and of compute_splits' own state: its place, the split,
\* moe_enq, the ids read back and the tensors the current loop has left.
SplitsTypeOK ==
    /\ TypeOK
    /\ at \in SplitPlaces
    /\ split \in 0..NSplits + 1 /\ enq \in 0..Cardinality(MoeInfos)
    /\ batch \in BOOLEAN /\ ids \subseteq Chunks /\ todo \in Seq(Tensors)

\* By the time a device split is evaluated, the streamer is done with every
\* weight copied for it: copy_inputs waited, so the copies read warm pages.
CopiedWeightsStreamed ==
    at = "eval" /\ Kind[split] = "active" =>
        \A w \in Elements(Weights[split]) : Outstanding(pool, w) = {}

\* Lookahead of this pass stays inside its window: only weights of a MoE split
\* less than Ahead of them after the current one are streamed, and none when
\* decoding.
InWindow(w) ==
    \E s \in MoeInfos : MoeNext(s) < MoeNext(split) + Ahead /\ w \in Elements(Weights[s])

LookaheadWindow ==
    at \in {"lookahead", "copy", "nodes", "eval", "cold"} =>
        \A w \in Tensors : \A j \in Outstanding(pool, w) :
            j.e = epoch /\ ~j.urgent => batch /\ InWindow(w)

\* One pass queues a tensor once: jobs made in the same pass for the same tensor
\* come from one enqueue, although lookahead, the scheduler's node hook and the
\* kernel hook all ask for it.
OncePerPass ==
    \A p \in Pools, w \in Tensors : \A j, k \in Outstanding(p, w) :
        j.e = k.e => j.g = k.g

\* A pass that was begun ends: no wait inside it blocks for ever.
PassEnds == at # "ready" ~> at = "ready"

\* Pinned slices are never demoted (ggml-moe-prefetch.h: "The slices remain
\* excluded from full-tensor lookahead/cold reclamation").
PinnedNeverCold ==
    \A c \in Clients : pc[c] = "cold_apply" =>
        call[c].taken \cap pinned[call[c].w] = {}

\* The slices of a split's nodes stream in the order the nodes run
\* (ggml-backend.cpp: "the down weights stream in during up/gate").
NodesStreamInOrder ==
    at = "eval" /\ Kind[split] = "host" =>
        \A i, k \in 1..Len(queue[pool]) :
            LET a == queue[pool][i]  b == queue[pool][k]
            IN  i < k /\ a.urgent /\ b.urgent /\ a.e = epoch /\ b.e = epoch =>
                    ~\E m, n \in 1..Len(Weights[split]) :
                        m < n /\ Weights[split][n] = a.w /\ Weights[split][m] = b.w
=============================================================================
