----------------------------- MODULE GraphAlloc -----------------------------
(***************************************************************************)
(* ggml_gallocr with one buffer.  Reserving plans a graph: in the order of *)
(* execution each tensor takes memory, in place of a parent it is the last *)
(* to read where the operation can, and gives it back after its last       *)
(* reader.  Allocating gives the planned addresses to the next graph, and  *)
(* reserves again when that graph does not fit the plan.                   *)
(*                                                                         *)
(* A graph is a sequence of tensors, leafs first, then nodes in order:     *)
(* "leaf" and "ext" (data elsewhere) tensors, "op" and "inplace" nodes,    *)
(* "view" nodes, and "dep" nodes, the views with GGML_OP_NONE by which the *)
(* scheduler keeps the source of a copy.  view_src is the root of a view;  *)
(* tensors of one size have one layout.                                    *)
(***************************************************************************)
EXTENDS DynAlloc

CONSTANTS
    MaxSrc,        \* GGML_MAX_SRC
    Leading,       \* the leafs of the graphs the program builds
    Following(_),  \* nodes that can come next in a graph
    Complete(_),   \* the graph can be executed
    Resized(_),    \* graphs that may be executed after that one
    Alignment

VARIABLES
    graph,
    stage,       \* build, reserve, leafs, parents, release, planned, allocated
    at,          \* tensor the plan has come to
    arg,         \* and its source, in the loops over src
    n_children, n_views, offset, allocated,  \* hash_values
    free_blocks, max_size,                   \* the buffer's ggml_dyn_tallocr
    plan,        \* node_allocs and leaf_allocs
    buffer,      \* size of the buffer
    addr         \* offset of each tensor's data in the buffer

hashVars == <<n_children, n_views, offset, allocated>>
talloc   == <<free_blocks, max_size>>
graphVars == <<graph, plan, buffer, addr>>
vars == <<graphVars, stage, at, arg, hashVars, talloc>>

-----------------------------------------------------------------------------
(* Graphs                                                                  *)

Tensor == [kind : {"leaf", "ext", "op", "inplace", "view", "dep"},
           src : Seq(Nat), view_src : Nat, size : Nat, out : BOOLEAN]

Before(g, t) == g[t].kind \in {"leaf", "ext"}
OwnsMemory(g, t) == g[t].kind \in {"leaf", "op", "inplace"}
Viewing(g, t) == g[t].kind \in {"view", "dep"}

Reads(g, i, t) == \E j \in 1..Len(g[i].src) : g[i].src[j] = t

\* Sources come earlier, views view a tensor that is none, and nobody reads a
\* dependency of the scheduler or a view that is an output.
WellFormed(g) ==
    /\ g \in Seq(Tensor)
    /\ \A t \in 1..Len(g) :
          /\ Len(g[t].src) <= MaxSrc
          /\ \A j \in 1..Len(g[t].src) : g[t].src[j] \in 1..t - 1 /\ g[g[t].src[j]].kind # "dep"
          /\ Before(g, t) => g[t].src = <<>> /\ \A u \in 1..t : Before(g, u)
          /\ OwnsMemory(g, t) => g[t].size > 0
          /\ Viewing(g, t) => g[t].view_src \in 1..t - 1 /\ ~Viewing(g, g[t].view_src)
          /\ Viewing(g, t) /\ g[t].out =>
                g[t].kind = "view" /\ \A i \in 1..Len(g) : ~Reads(g, i, t)

ASSUME GraphAssumption ==
    /\ MaxSrc \in Nat /\ Alignment \in Nat \ {0}
    /\ \A g \in Leading : WellFormed(g)

\* The same graph for another batch: sizes differ, and equal ones stay equal.
Resizes(g, h) ==
    /\ WellFormed(h) /\ Len(h) = Len(g)
    /\ \A t \in 1..Len(g) : h[t] = [g[t] EXCEPT !.size = h[t].size]
    /\ \A t, u \in 1..Len(g) : g[t].size = g[u].size => h[t].size = h[u].size

LeafsRead(g) ==
    \A t \in 1..Len(g) : g[t].kind = "leaf" => \E i \in 1..Len(g) : Reads(g, i, t)

Tensors == 1..Len(graph)
Nodes == {t \in Tensors : ~Before(graph, t)}
Leafs == {t \in Tensors : graph[t].kind = "leaf"}
IsView(t) == Viewing(graph, t)
HasMemory(t) == OwnsMemory(graph, t)
Root(t) == IF IsView(t) THEN graph[t].view_src ELSE t
Src(t) == graph[t].src
Aligned(size) == ((size + Alignment - 1) \div Alignment) * Alignment
Readers(t) ==
    {r \in Nodes \X (1..MaxSrc) : r[2] <= Len(Src(r[1])) /\ Src(r[1])[r[2]] = t}

NoPlan == [offset |-> -1, size_max |-> 0]

Init ==
    /\ graph \in Leading /\ stage = "build" /\ at = 1 /\ arg = 1
    /\ n_children = <<>> /\ n_views = <<>> /\ offset = <<>> /\ allocated = <<>>
    /\ free_blocks = Fresh /\ max_size = 0
    /\ plan = <<>> /\ buffer = 0 /\ addr = <<>>

\* ggml_build_forward_expand adds a node.
Build ==
    /\ stage = "build"
    /\ \E t \in Following(graph) :
          /\ graph' = Append(graph, t)
          /\ WellFormed(Append(graph, t))
    /\ UNCHANGED <<stage, at, arg, hashVars, talloc, plan, buffer, addr>>

-----------------------------------------------------------------------------
(* ggml_gallocr_allocate_node and ggml_gallocr_free_node                   *)

\* A parent with memory of its own that nobody else will read.
CanReuseShared(t, p) ==  \* mutant: other readers are not counted
    /\ allocated[p] /\ ~graph[p].out
    /\ graph[p].size = graph[t].size
    /\ n_views[p] = 0
CanReuse(t, p) ==
    /\ allocated[p] /\ ~graph[p].out
    /\ graph[p].size = graph[t].size
    /\ n_children[p] = 1 /\ n_views[p] = 0

Reusable(t) ==
    IF graph[t].kind # "inplace" THEN {}
    ELSE {j \in 1..Len(Src(t)) : CanReuse(t, Src(t)[j])}

InPlace(t, p) ==
    /\ allocated' = [allocated EXCEPT ![t] = TRUE, ![p] = FALSE]
    /\ offset' = [offset EXCEPT ![t] = offset[p]]
    /\ UNCHANGED talloc

FromBuffer(t) ==
    LET size == Aligned(graph[t].size)
        i == BestFit(free_blocks, size)
        end == free_blocks[i].offset + size
    IN  /\ HasRoom(free_blocks, size)
        /\ allocated' = [allocated EXCEPT ![t] = TRUE]
        /\ offset' = [offset EXCEPT ![t] = free_blocks[i].offset]
        /\ free_blocks' = Taken(free_blocks, i, size)
        /\ max_size' = IF end > max_size THEN end ELSE max_size

NeedsMemory(t) == HasMemory(t) /\ ~allocated[t]

AllocateNode(t) ==
    /\ UNCHANGED <<n_children, n_views>>
    /\ \/ ~NeedsMemory(t) /\ UNCHANGED <<allocated, offset, talloc>>
       \/ /\ NeedsMemory(t) /\ Reusable(t) # {}
          /\ InPlace(t, Src(t)[First(Reusable(t))])
       \/ NeedsMemory(t) /\ Reusable(t) = {} /\ FromBuffer(t)

FreeNode(t) ==
    IF graph[t].out THEN UNCHANGED <<allocated, free_blocks>>
    ELSE /\ allocated' = [allocated EXCEPT ![t] = FALSE]
         /\ free_blocks' = Returned(free_blocks, offset[t], Aligned(graph[t].size))

\* A parent after one of its readers; a view passes the end on to its root.
Unread(p) == n_children[p] = 1 /\ n_views[p] = 0
EndsWith(p) ==
    IF IsView(p) THEN n_views[Root(p)] = 1 /\ n_children[Root(p)] = 0 ELSE TRUE

ReleaseParent(p) ==
    /\ n_children' = [n_children EXCEPT ![p] = @ - 1]
    /\ n_views' = IF Unread(p) /\ IsView(p) THEN [n_views EXCEPT ![Root(p)] = @ - 1]
                  ELSE n_views
    /\ IF Unread(p) /\ EndsWith(p) /\ allocated[Root(p)] THEN FreeNode(Root(p))
       ELSE UNCHANGED <<allocated, free_blocks>>
    /\ UNCHANGED <<offset, max_size>>

-----------------------------------------------------------------------------
(* ggml_gallocr_reserve                                                    *)

\* Views with an operation count for their root, the scheduler's do not.
CountsAsViewAlways(t) == IsView(t)  \* mutant: dependencies hold their source
CountsAsView(t) == graph[t].kind = "view"
ViewsOf(r) == {v \in Nodes : CountsAsView(v) /\ graph[v].view_src = r}

\* The hash table is cleared and the nodes' sources and views are counted.
ReserveBegin ==
    /\ stage \in {"build", "reserve"} /\ Complete(graph) /\ LeafsRead(graph)
    /\ stage' = "leafs" /\ at' = 1 /\ arg' = 1
    /\ n_children' = [t \in Tensors |-> Cardinality(Readers(t))]
    /\ n_views' = [t \in Tensors |-> Cardinality(ViewsOf(t))]
    /\ offset' = [t \in Tensors |-> 0]
    /\ allocated' = [t \in Tensors |-> FALSE]
    /\ free_blocks' = Fresh /\ max_size' = 0
    /\ UNCHANGED graphVars

\* The loops of ggml_gallocr_alloc_graph_impl: the leafs, then for each node
\* its parents, itself, and its parents again.
PlanLeaf ==
    /\ stage = "leafs"
    /\ IF at \in Tensors \ Nodes
       THEN AllocateNode(at) /\ at' = at + 1 /\ UNCHANGED stage
       ELSE stage' = "parents" /\ UNCHANGED <<at, hashVars, talloc>>
    /\ UNCHANGED <<graphVars, arg>>

PlanParent ==
    /\ stage = "parents" /\ at \in Tensors /\ arg <= Len(Src(at))
    /\ AllocateNode(Src(at)[arg])
    /\ arg' = arg + 1
    /\ UNCHANGED <<graphVars, stage, at>>

PlanNode ==
    /\ stage = "parents" /\ at \in Tensors /\ arg > Len(Src(at))
    /\ AllocateNode(at)
    /\ stage' = "release" /\ arg' = 1
    /\ UNCHANGED <<graphVars, at>>

NextSource ==
    IF arg < Len(Src(at)) THEN arg' = arg + 1 /\ UNCHANGED <<stage, at>>
    ELSE stage' = "parents" /\ at' = at + 1 /\ arg' = 1

PlanRelease ==
    /\ stage = "release"
    /\ IF Src(at) = <<>> THEN UNCHANGED <<hashVars, talloc>>
       ELSE ReleaseParent(Src(at)[arg])
    /\ NextSource
    /\ UNCHANGED graphVars

Recorded(t) ==
    IF HasMemory(t) THEN [offset |-> offset[t], size_max |-> graph[t].size]
    ELSE NoPlan

\* The buffer only grows.
BufferFirst(size) == IF buffer = 0 THEN size ELSE buffer  \* mutant: kept as it is
BufferFor(size) == IF size > buffer THEN size ELSE buffer

ReserveEnd ==
    /\ stage = "parents" /\ at \notin Tensors
    /\ stage' = "planned"
    /\ plan' = [t \in Tensors |->
                  [dst |-> Recorded(t),
                   src |-> [j \in 1..Len(Src(t)) |-> Recorded(Src(t)[j])]]]
    /\ buffer' = BufferFor(max_size)
    /\ UNCHANGED <<graph, addr, at, arg, hashVars, talloc>>

-----------------------------------------------------------------------------
(* ggml_gallocr_alloc_graph                                                *)

\* ggml_gallocr_node_needs_realloc, which says TRUE when it does not.
Fits(g, t, recorded) ==
    \/ g[t].kind \in {"ext", "view", "dep"}
    \/ recorded # NoPlan /\ recorded.size_max >= g[t].size

NeedsRealloc(g) ==
    \/ Len(g) # Len(plan)
    \/ \E t \in 1..Len(g) :
          ~Before(g, t) /\
            \/ ~Fits(g, t, plan[t].dst)
            \/ \E j \in 1..Len(g[t].src) : ~Fits(g, g[t].src[j], plan[t].src[j])

\* The graph of the next batch, the same one or another, with a plan that
\* serves it.
AllocGraph ==
    /\ stage \in {"planned", "allocated"}
    /\ \E g \in Resized(graph) :
          /\ graph' = g /\ Resizes(graph, g)
          /\ IF NeedsRealloc(g)
             THEN stage' = "reserve" /\ UNCHANGED addr
             ELSE stage' = "allocated" /\ addr' = [t \in 1..Len(g) |-> plan[t].dst.offset]
    /\ UNCHANGED <<at, arg, hashVars, talloc, plan, buffer>>

Next ==
    \/ Build \/ ReserveBegin \/ PlanLeaf \/ PlanParent \/ PlanNode \/ PlanRelease
    \/ ReserveEnd \/ AllocGraph

Spec == Init /\ [][Next]_vars

-----------------------------------------------------------------------------
(* Properties                                                              *)

Planning == stage \in {"leafs", "parents", "release"}

InUse(t, x) ==
    /\ allocated[t]
    /\ offset[t] <= x /\ x < offset[t] + Aligned(graph[t].size)

\* Free blocks and the memory of allocated tensors tile the buffer: nothing
\* is lost, nothing is handed out twice, and the blocks stay sorted and
\* merged, "to make merging blocks faster" (ggml-alloc.c:290).
MemoryTiled ==
    Planning =>
        /\ Coalesced(free_blocks)
        /\ \A x \in 0..Huge - 1 :
              Cardinality({t \in Tensors : InUse(t, x)})
                  = IF IsFree(free_blocks, x) THEN 0 ELSE 1

\* What a view reads is its root.
ReadsOf(r) == {i \in Nodes : \E j \in 1..Len(Src(i)) : Root(Src(i)[j]) = r}
UnreadView(r) == \E v \in Nodes : graph[v].kind = "view" /\ Root(v) = r /\ Readers(v) = {}

\* After its last reader a tensor has no memory any more, unless the graph
\* ends with it, and before it has.
MemoryGivenBack ==
    stage = "parents" =>
        \A t \in {u \in Leafs \cup Nodes : HasMemory(u)} :
            ~graph[t].out /\ ReadsOf(t) # {} /\ ~UnreadView(t) /\ (\A i \in ReadsOf(t) : i < at)
                => ~allocated[t]

Overlap(t, u) ==
    /\ addr[t] < addr[u] + graph[u].size
    /\ addr[u] < addr[t] + graph[t].size

\* When node t writes, the data of r that node i is still to read is gone.
Destroys(t, r, i) ==
    /\ r < t /\ t <= i /\ HasMemory(t) /\ t \in Nodes /\ Overlap(t, r)
    /\ ~(t = i /\ graph[i].kind = "inplace" /\ addr[i] = addr[r] /\ graph[i].size = graph[r].size)

\* Executing the graph at the addresses given: every node reads what its
\* sources wrote, inputs are "in non-overlapping addresses" and outputs
\* "never overwritten" (ggml-alloc.h:39-40).
DataIntact ==
    stage = "allocated" =>
        /\ \A t, u \in Leafs : t # u => ~Overlap(t, u)
        /\ \A i \in Nodes, r \in {u \in Tensors : HasMemory(u)} :
              i \in ReadsOf(r) => \A t \in Tensors : ~Destroys(t, r, i)
        /\ \A v \in Tensors : graph[v].out /\ HasMemory(Root(v)) =>
              \A t \in Tensors : ~Destroys(t, Root(v), Len(graph) + 1)

\* Every address lies in the buffer, whatever was reserved before.
InBuffer ==
    stage = "allocated" =>
        \A t \in Tensors : HasMemory(t) => addr[t] >= 0 /\ addr[t] + graph[t].size <= buffer
=============================================================================
