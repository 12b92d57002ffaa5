-------------------------- MODULE GraphAllocProofs --------------------------
(***************************************************************************)
(* The graph allocator, for every graph: free blocks and tensors tile the  *)
(* buffer, memory comes back, every address lies in the buffer, and no     *)
(* node overwrites what a later one reads.                                 *)
(*                                                                         *)
(* While a graph is planned, the counts of a tensor are its reads that are *)
(* still to come (Counts), so that a tensor somebody reads later has       *)
(* memory (Held), all memory is in one place (Tiled), and what is placed   *)
(* is apart from all that is still needed (Placed).                        *)
(***************************************************************************)
EXTENDS GraphAlloc, FiniteSetTheorems, SequenceTheorems, WellFoundedInduction, NaturalsInduction, TLAPS

Stages == {"build", "reserve", "leafs", "parents", "release", "planned", "allocated"}

\* Where the loops of ggml_gallocr_alloc_graph_impl are.
Cursor ==
    /\ at \in 1..Len(graph) + 1 /\ arg \in Nat \ {0}
    /\ stage = "leafs" => arg = 1 /\ \A t \in 1..at - 1 : Before(graph, t)
    /\ stage # "leafs" => \A t \in Tensors : Before(graph, t) => t < at
    /\ stage = "parents" /\ at \in Tensors => arg <= Len(Src(at)) + 1
    /\ stage = "parents" /\ at \notin Tensors => arg = 1
    /\ stage = "release" => /\ at \in Tensors
                            /\ arg <= Len(Src(at)) \/ (arg = 1 /\ Src(at) = <<>>)
    /\ LeafsRead(graph)

HashType ==
    /\ n_children \in [Tensors -> Nat] /\ n_views \in [Tensors -> Nat]
    /\ offset \in [Tensors -> Nat] /\ allocated \in [Tensors -> BOOLEAN]
    /\ max_size \in Nat

\* Reads of p, and views of r, that are still to be released.
Pending(p) ==
    {r \in Readers(p) : r[1] > at \/ (r[1] = at /\ (stage = "release" => r[2] >= arg))}
Live(r) == {v \in ViewsOf(r) : Readers(v) = {} \/ Pending(v) # {}}

Counts ==
    \A t \in Tensors : /\ n_children[t] = Cardinality(Pending(t))
                       /\ n_views[t] = Cardinality(Live(t))

\* The tensors the loop has been at.
Visited(t) == HasMemory(t) /\ (t < at \/ (t = at /\ stage = "release"))

Needed(t) == graph[t].out \/ n_children[t] > 0 \/ n_views[t] > 0

\* The node in progress works in t's memory and is its last reader.
TakenOver(t) ==
    /\ stage = "release" /\ ~graph[t].out /\ n_children[t] = 1 /\ n_views[t] = 0
    /\ \E j \in arg..Len(Src(at)) : Src(at)[j] = t

Held == \A t \in Tensors : Visited(t) /\ Needed(t) => allocated[t] \/ TakenOver(t)

GivenBack ==
    \A t \in Tensors : allocated[t] => Visited(t) /\ (Needed(t) \/ ReadsOf(t) = {})

Size(t) == Aligned(graph[t].size)

BlocksOK(blocks) ==
    /\ blocks \in Seq([offset : Nat, size : Nat]) /\ Coalesced(blocks)
    /\ \A i \in 1..Len(blocks) : EndOf(blocks[i]) <= Huge

Tiled ==
    /\ BlocksOK(free_blocks)
    /\ \A t \in Tensors : allocated[t] => offset[t] + Size(t) <= Huge
    /\ \A x \in 0..Huge - 1 : IsFree(free_blocks, x) \/ \E t \in Tensors : InUse(t, x)
    /\ \A x \in 0..Huge - 1, t \in Tensors : InUse(t, x) => ~IsFree(free_blocks, x)
    /\ \A x \in 0..Huge - 1, t, u \in Tensors : InUse(t, x) /\ InUse(u, x) => t = u

\* Two places of a buffer that do not overlap.
Separate(o1, s1, o2, s2) == o1 + s1 <= o2 \/ o2 + s2 <= o1

\* What the graph leaves behind: outputs, and the roots of output views.
Kept(r) == graph[r].out \/ \E v \in Nodes : IsView(v) /\ graph[v].out /\ Root(v) = r

\* t may write where it lies: r is elsewhere, or t is the last to read it.
Apart(t, r, o, s) ==
    \/ Separate(o[t], Aligned(s[t]), o[r], Aligned(s[r]))
    \/ /\ graph[t].kind = "inplace" /\ o[t] = o[r] /\ s[t] = s[r]
       /\ ~Kept(r) /\ \A i \in ReadsOf(r) : i <= t
WrittenWhile(t, r) ==
    IF Before(graph, t) THEN TRUE ELSE Kept(r) \/ \E i \in ReadsOf(r) : i >= t

Sizes_ == [t \in Tensors |-> graph[t].size]

Placed ==
    /\ \A t \in Tensors : Visited(t) => offset[t] + Size(t) <= max_size
    /\ \A t, r \in Tensors :
          Visited(t) /\ Visited(r) /\ r < t /\ WrittenWhile(t, r) =>
              Apart(t, r, offset, Sizes_)

PlanOffset == [t \in Tensors |-> plan[t].dst.offset]
PlanSize == [t \in Tensors |-> plan[t].dst.size_max]

\* The plan serves every graph of its shape whose sizes it covers.
PlanOK ==
    /\ Len(graph) = Len(plan)
    /\ \A t \in Tensors : HasMemory(t) =>
          /\ plan[t].dst.offset \in Nat /\ plan[t].dst.size_max \in Nat
          /\ plan[t].dst.offset + Aligned(plan[t].dst.size_max) <= buffer
    /\ \A t \in Tensors : \A j \in 1..Len(Src(t)) : plan[t].src[j] = plan[Src(t)[j]].dst
    /\ \A t, r \in Tensors :
          HasMemory(t) /\ HasMemory(r) /\ r < t /\ WrittenWhile(t, r) =>
              Apart(t, r, PlanOffset, PlanSize)
    /\ \A t, r \in Tensors : HasMemory(t) /\ HasMemory(r) /\ plan[t].dst.size_max = plan[r].dst.size_max
          => graph[t].size = graph[r].size
    /\ LeafsRead(graph)

Served ==
    \A t \in Tensors : HasMemory(t) =>
        addr[t] = plan[t].dst.offset /\ graph[t].size <= plan[t].dst.size_max

Planned == Cursor /\ HashType /\ Counts /\ Held /\ GivenBack /\ Tiled /\ Placed

Inv ==
    /\ WellFormed(graph) /\ stage \in Stages /\ buffer \in Nat
    /\ Planning => Planned
    /\ stage \in {"planned", "allocated"} => PlanOK
    /\ stage = "allocated" => Served

-----------------------------------------------------------------------------
(* Sets of numbers and sequences                                           *)

\* A set of numbers has a least one, the one First chooses.
LEMMA FirstIsLeast ==
    ASSUME NEW S, S \subseteq Nat, S # {}
    PROVE  First(S) \in S /\ \A j \in S : First(S) <= j
<1> DEFINE Less == {p \in Nat \X Nat : p[1] < p[2]}
<1>1. IsWellFoundedOn(Less, Nat)
  BY NatLessThanWellFounded DEF IsWellFoundedOn, OpToRel
<1>2. \E x \in S : \A y \in S : <<y, x>> \notin Less
  <2> HIDE DEF Less
  <2> QED BY <1>1, WFMin
<1>3. \A x, y \in S : <<y, x>> \notin Less => x <= y BY DEF Less
<1>4. \E x \in S : \A y \in S : x <= y BY <1>2, <1>3
<1> QED BY <1>4 DEF First

LEMMA RemovedAt ==
    ASSUME NEW S, NEW s \in Seq(S), NEW i \in 1..Len(s)
    PROVE  /\ RemoveAt(s, i) \in Seq(S) /\ Len(RemoveAt(s, i)) = Len(s) - 1
           /\ \A k \in 1..Len(s) - 1 : RemoveAt(s, i)[k] = IF k < i THEN s[k] ELSE s[k + 1]
<1>0. Len(s) \in Nat /\ i \in Int OBVIOUS
<1> DEFINE a == SubSeq(s, 1, i - 1)  b == SubSeq(s, i + 1, Len(s))
<1>1. /\ a \in Seq(S) /\ Len(a) = i - 1 /\ \A k \in 1..i - 1 : a[k] = s[k]
      /\ b \in Seq(S) /\ Len(b) = Len(s) - i /\ \A k \in 1..Len(s) - i : b[k] = s[k + i]
  OBVIOUS
<1> HIDE DEF a, b
<1>2. /\ a \o b \in Seq(S) /\ Len(a \o b) = Len(s) - 1
      /\ \A k \in 1..Len(s) - 1 : (a \o b)[k] = IF k <= i - 1 THEN a[k] ELSE b[k - (i - 1)]
  <2>1. Len(a) + Len(b) = Len(s) - 1 BY <1>1
  <2>2. /\ a \o b \in Seq(S) /\ Len(a \o b) = Len(a) + Len(b)
        /\ \A k \in 1..Len(a) + Len(b) :
              (a \o b)[k] = IF k <= Len(a) THEN a[k] ELSE b[k - Len(a)]
    BY <1>1, ConcatProperties, Zenon
  <2> QED BY <1>0, <1>1, <2>1, <2>2
<1>3. \A k \in 1..Len(s) - 1 : (a \o b)[k] = IF k < i THEN s[k] ELSE s[k + 1]
  <2> TAKE k \in 1..Len(s) - 1
  <2>1. CASE k < i BY <2>1, <1>1, <1>2
  <2>2. CASE k >= i
    <3> DEFINE m == k - (i - 1)
    <3>1. m \in 1..Len(s) - i /\ m + i = k + 1 BY <2>2
    <3>2. b[m] = s[m + i] BY <3>1, <1>1
    <3> QED BY <2>2, <3>1, <3>2, <1>2
  <2>3. k < i \/ k >= i BY <1>0
  <2> QED BY <2>1, <2>2, <2>3, Zenon
<1> QED BY <1>2, <1>3 DEF RemoveAt, a, b

LEMMA InsertedAt ==
    ASSUME NEW S, NEW s \in Seq(S), NEW i \in 1..Len(s) + 1, NEW e \in S
    PROVE  /\ InsertAt(s, i, e) \in Seq(S) /\ Len(InsertAt(s, i, e)) = Len(s) + 1
           /\ \A k \in 1..Len(s) + 1 :
                 InsertAt(s, i, e)[k] = IF k < i THEN s[k] ELSE IF k = i THEN e ELSE s[k - 1]
<1>0. Len(s) \in Nat /\ i \in Int OBVIOUS
<1> DEFINE a == SubSeq(s, 1, i - 1)  b == SubSeq(s, i, Len(s))
<1>1. /\ a \in Seq(S) /\ Len(a) = i - 1 /\ \A k \in 1..i - 1 : a[k] = s[k]
      /\ b \in Seq(S) /\ Len(b) = Len(s) - i + 1
      /\ \A k \in 1..Len(s) - i + 1 : b[k] = s[k + i - 1]
  OBVIOUS
<1> HIDE DEF a, b
<1>2. /\ a \o <<e>> \in Seq(S) /\ Len(a \o <<e>>) = i
      /\ \A k \in 1..i : (a \o <<e>>)[k] = IF k < i THEN a[k] ELSE e
  BY <1>1
<1> DEFINE c == a \o <<e>>
<1> HIDE DEF c
<1>3. c \in Seq(S) /\ Len(c) = i /\ \A k \in 1..i : c[k] = IF k < i THEN a[k] ELSE e
  BY <1>2 DEF c
<1>4. /\ c \o b \in Seq(S) /\ Len(c \o b) = Len(s) + 1
      /\ \A k \in 1..Len(s) + 1 : (c \o b)[k] = IF k <= i THEN c[k] ELSE b[k - i]
  <2>1. Len(c) + Len(b) = Len(s) + 1 BY <1>1, <1>3
  <2>2. /\ c \o b \in Seq(S) /\ Len(c \o b) = Len(c) + Len(b)
        /\ \A k \in 1..Len(c) + Len(b) :
              (c \o b)[k] = IF k <= Len(c) THEN c[k] ELSE b[k - Len(c)]
    <3>1. b \in Seq(S) /\ c \in Seq(S) BY <1>1, <1>3
    <3> QED BY <3>1, ConcatProperties, Zenon
  <2> QED BY <1>0, <1>3, <2>1, <2>2
<1>5. \A k \in 1..Len(s) + 1 :
         (c \o b)[k] = IF k < i THEN s[k] ELSE IF k = i THEN e ELSE s[k - 1]
  <2> TAKE k \in 1..Len(s) + 1
  <2>1. CASE k <= i BY <2>1, <1>1, <1>3, <1>4
  <2>2. CASE k > i
    <3> DEFINE m == k - i
    <3>1. m \in 1..Len(s) - i + 1 /\ m + i - 1 = k - 1 BY <2>2
    <3>2. b[m] = s[m + i - 1] BY <3>1, <1>1
    <3> QED BY <2>2, <3>1, <3>2, <1>4
  <2>3. k <= i \/ k > i BY <1>0
  <2> QED BY <2>1, <2>2, <2>3, Zenon
<1> QED BY <1>4, <1>5 DEF InsertAt, a, b, c

-----------------------------------------------------------------------------
(* Blocks                                                                  *)

BlockType == [offset : Nat, size : Nat]

LEMMA BlockFacts ==
    ASSUME NEW o \in Nat, NEW s \in Nat
    PROVE  /\ Block(o, s) \in BlockType /\ Block(o, s).offset = o /\ Block(o, s).size = s
           /\ EndOf(Block(o, s)) = o + s
BY DEF Block, BlockType, EndOf

\* What a block is, without the sequence.
LEMMA BlocksRead ==
    ASSUME NEW blocks, BlocksOK(blocks)
    PROVE  /\ blocks \in Seq(BlockType) /\ Len(blocks) \in Nat
           /\ \A i \in 1..Len(blocks) :
                 /\ blocks[i] \in BlockType
                 /\ blocks[i].offset \in Nat /\ blocks[i].size \in Nat /\ blocks[i].size > 0
                 /\ EndOf(blocks[i]) = blocks[i].offset + blocks[i].size
                 /\ EndOf(blocks[i]) <= Huge
           /\ \A i, j \in 1..Len(blocks) : i < j => EndOf(blocks[i]) < blocks[j].offset
<1>1. blocks \in Seq(BlockType) /\ Len(blocks) \in Nat BY DEF BlocksOK, BlockType
<1>2. \A i \in 1..Len(blocks) : blocks[i] \in BlockType BY <1>1
<1> QED BY <1>1, <1>2 DEF BlocksOK, Coalesced, BlockType, EndOf

LEMMA FreshBlocks ==
    BlocksOK(Fresh) /\ \A x \in 0..Huge - 1 : IsFree(Fresh, x)
<1> USE HugeAssumption
<1> DEFINE b == Block(0, Huge)
<1>1. /\ b \in BlockType /\ b.offset = 0 /\ b.size = Huge /\ EndOf(b) = Huge BY BlockFacts
<1> HIDE DEF b
<1>2. Fresh = <<b>> /\ Len(Fresh) = 1 /\ Fresh[1] = b /\ Fresh \in Seq(BlockType)
  BY <1>1 DEF Fresh, b
<1>3. BlocksOK(Fresh)
  <2>1. Fresh \in Seq([offset : Nat, size : Nat]) BY <1>2 DEF BlockType
  <2>2. Coalesced(Fresh) BY <1>1, <1>2 DEF Coalesced
  <2>3. \A i \in 1..Len(Fresh) : EndOf(Fresh[i]) <= Huge BY <1>1, <1>2
  <2> QED BY <2>1, <2>2, <2>3 DEF BlocksOK
<1>4. \A x \in 0..Huge - 1 : IsFree(Fresh, x) BY <1>1, <1>2 DEF IsFree
<1> QED BY <1>3, <1>4

\* Sorted blocks, stated without their fields.
LEMMA BlocksBuilt ==
    ASSUME NEW blocks \in Seq(BlockType),
           \A i \in 1..Len(blocks) :
              blocks[i].size > 0 /\ blocks[i].offset + blocks[i].size <= Huge,
           \A i, j \in 1..Len(blocks) :
              i < j => blocks[i].offset + blocks[i].size < blocks[j].offset
    PROVE  BlocksOK(blocks)
<1>1. \A i \in 1..Len(blocks) : blocks[i] \in BlockType OBVIOUS
<1>2. Coalesced(blocks) BY <1>1 DEF Coalesced, EndOf, BlockType
<1> QED BY <1>1, <1>2 DEF BlocksOK, EndOf, BlockType

LEMMA FreeIn ==
    ASSUME NEW blocks, BlocksOK(blocks), NEW x \in Nat
    PROVE  IsFree(blocks, x) <=>
              \E i \in 1..Len(blocks) :
                 blocks[i].offset <= x /\ x < blocks[i].offset + blocks[i].size
BY DEF IsFree, EndOf

LEMMA ReplacedAt ==
    ASSUME NEW S, NEW s \in Seq(S), NEW i \in 1..Len(s), NEW e \in S
    PROVE  /\ ReplaceAt(s, i, e) \in Seq(S) /\ Len(ReplaceAt(s, i, e)) = Len(s)
           /\ \A k \in 1..Len(s) : ReplaceAt(s, i, e)[k] = IF k = i THEN e ELSE s[k]
BY DEF ReplaceAt

\* A block that changes in place, between its neighbours.
LEMMA ReplacedBlock ==
    ASSUME NEW blocks, BlocksOK(blocks), NEW i \in 1..Len(blocks),
           NEW o \in Nat, NEW s \in Nat, s > 0, o + s <= Huge,
           \A j \in 1..Len(blocks) : j < i => EndOf(blocks[j]) < o,
           \A j \in 1..Len(blocks) : j > i => o + s < blocks[j].offset
    PROVE  /\ BlocksOK(ReplaceAt(blocks, i, Block(o, s)))
           /\ Len(ReplaceAt(blocks, i, Block(o, s))) = Len(blocks)
           /\ \A j \in 1..Len(blocks) :
                 ReplaceAt(blocks, i, Block(o, s))[j] = IF j = i THEN Block(o, s) ELSE blocks[j]
<1> DEFINE r == ReplaceAt(blocks, i, Block(o, s))
<1>1. /\ blocks \in Seq(BlockType) /\ Len(blocks) \in Nat
      /\ \A j \in 1..Len(blocks) :
            /\ blocks[j] \in BlockType /\ blocks[j].offset \in Nat /\ blocks[j].size \in Nat
            /\ blocks[j].size > 0 /\ EndOf(blocks[j]) = blocks[j].offset + blocks[j].size
            /\ EndOf(blocks[j]) <= Huge
      /\ \A j, k \in 1..Len(blocks) : j < k => EndOf(blocks[j]) < blocks[k].offset
  BY BlocksRead
<1>2. /\ Block(o, s) \in BlockType /\ Block(o, s).offset = o /\ Block(o, s).size = s
  BY BlockFacts
<1> DEFINE e == Block(o, s)
<1> HIDE DEF e
<1>3. /\ [blocks EXCEPT ![i] = e] \in Seq(BlockType) /\ Len([blocks EXCEPT ![i] = e]) = Len(blocks)
      /\ \A j \in 1..Len(blocks) : [blocks EXCEPT ![i] = e][j] = IF j = i THEN e ELSE blocks[j]
  BY <1>1, <1>2 DEF e
<1>4. r = [blocks EXCEPT ![i] = e] BY DEF ReplaceAt, e
<1> HIDE DEF r
<1>5. /\ r \in Seq(BlockType) /\ Len(r) = Len(blocks)
      /\ \A j \in 1..Len(blocks) : r[j] = IF j = i THEN e ELSE blocks[j]
  BY <1>3, <1>4
<1>6. \A j \in 1..Len(r) : r[j].size > 0 /\ r[j].offset + r[j].size <= Huge
  BY <1>1, <1>2, <1>5 DEF e
<1>7. \A j, k \in 1..Len(r) : j < k => r[j].offset + r[j].size < r[k].offset
  <2> TAKE j, k \in 1..Len(r)
  <2>1. CASE j = i BY <2>1, <1>1, <1>2, <1>5 DEF e
  <2>2. CASE k = i BY <2>2, <1>1, <1>2, <1>5 DEF e
  <2>3. CASE j # i /\ k # i BY <2>3, <1>1, <1>5
  <2> QED BY <2>1, <2>2, <2>3
<1>8. BlocksOK(r) BY <1>5, <1>6, <1>7, BlocksBuilt
<1> QED BY <1>5, <1>8 DEF r, e

\* A block that is gone.
LEMMA RemovedBlock ==
    ASSUME NEW blocks, BlocksOK(blocks), NEW i \in 1..Len(blocks)
    PROVE  LET r == RemoveAt(blocks, i)
           IN  /\ BlocksOK(r) /\ Len(r) = Len(blocks) - 1
               /\ \A x \in Nat : IsFree(r, x) <=> \E j \in 1..Len(blocks) :
                     j # i /\ blocks[j].offset <= x /\ x < EndOf(blocks[j])
<1> DEFINE r == RemoveAt(blocks, i)
<1>1. /\ blocks \in Seq(BlockType) /\ Len(blocks) \in Nat
      /\ \A j \in 1..Len(blocks) :
            /\ blocks[j] \in BlockType /\ blocks[j].offset \in Nat /\ blocks[j].size \in Nat
            /\ blocks[j].size > 0 /\ EndOf(blocks[j]) = blocks[j].offset + blocks[j].size
            /\ EndOf(blocks[j]) <= Huge
      /\ \A j, k \in 1..Len(blocks) : j < k => EndOf(blocks[j]) < blocks[k].offset
  BY BlocksRead
<1>2. /\ r \in Seq(BlockType) /\ Len(r) = Len(blocks) - 1
      /\ \A k \in 1..Len(blocks) - 1 : r[k] = IF k < i THEN blocks[k] ELSE blocks[k + 1]
  BY <1>1, RemovedAt
<1> HIDE DEF r
<1> DEFINE Old(k) == IF k < i THEN k ELSE k + 1
<1>3. \A k \in 1..Len(r) : Old(k) \in 1..Len(blocks) /\ Old(k) # i /\ r[k] = blocks[Old(k)]
  BY <1>1, <1>2
<1>4. \A j, k \in 1..Len(r) : j < k => Old(j) < Old(k) BY <1>1, <1>2
<1>5. \A j \in 1..Len(blocks) : j # i => \E k \in 1..Len(r) : Old(k) = j
  <2> TAKE j \in 1..Len(blocks)
  <2>1. CASE j < i
    <3>1. j \in 1..Len(r) /\ Old(j) = j BY <2>1, <1>1, <1>2
    <3> QED BY <3>1
  <2>2. CASE j > i
    <3>1. j - 1 \in 1..Len(r) /\ Old(j - 1) = j BY <2>2, <1>1, <1>2
    <3> QED BY <3>1
  <2> QED BY <2>1, <2>2
<1> HIDE DEF Old
<1>6. BlocksOK(r)
  <2>1. \A k \in 1..Len(r) : r[k].size > 0 /\ r[k].offset + r[k].size <= Huge BY <1>1, <1>3
  <2>2. \A j, k \in 1..Len(r) : j < k => r[j].offset + r[j].size < r[k].offset
    BY <1>1, <1>3, <1>4
  <2> QED BY <1>2, <2>1, <2>2, BlocksBuilt
<1>7. \A x \in Nat : IsFree(r, x) <=> \E j \in 1..Len(blocks) :
         j # i /\ blocks[j].offset <= x /\ x < EndOf(blocks[j])
  <2> TAKE x \in Nat
  <2>1. ASSUME NEW k \in 1..Len(r), r[k].offset <= x, x < EndOf(r[k])
        PROVE  \E j \in 1..Len(blocks) : j # i /\ blocks[j].offset <= x /\ x < EndOf(blocks[j])
    BY <2>1, <1>3
  <2>2. ASSUME NEW j \in 1..Len(blocks), j # i, blocks[j].offset <= x, x < EndOf(blocks[j])
        PROVE  \E k \in 1..Len(r) : r[k].offset <= x /\ x < EndOf(r[k])
    BY <2>2, <1>3, <1>5
  <2> QED BY <2>1, <2>2 DEF IsFree
<1> QED BY <1>2, <1>6, <1>7 DEF r

\* ggml_dyn_tallocr_alloc takes the start of a block: the memory taken, and no
\* other, is not free any more.
LEMMA TakenBlocks ==
    ASSUME NEW blocks, BlocksOK(blocks), NEW i \in 1..Len(blocks),
           NEW size \in Nat, size > 0, blocks[i].size >= size
    PROVE  /\ BlocksOK(Taken(blocks, i, size))
           /\ \A x \in Nat : IsFree(Taken(blocks, i, size), x) <=>
                 IsFree(blocks, x) /\ ~(blocks[i].offset <= x /\ x < blocks[i].offset + size)
<1>1. /\ Len(blocks) \in Nat
      /\ \A j \in 1..Len(blocks) :
            /\ blocks[j].offset \in Nat /\ blocks[j].size \in Nat
            /\ blocks[j].size > 0 /\ EndOf(blocks[j]) = blocks[j].offset + blocks[j].size
            /\ EndOf(blocks[j]) <= Huge
      /\ \A j, k \in 1..Len(blocks) : j < k => EndOf(blocks[j]) < blocks[k].offset
  BY BlocksRead
<1> DEFINE o == blocks[i].offset  left == blocks[i].size - size
<1>2. CASE blocks[i].size = size
  <2>1. Taken(blocks, i, size) = RemoveAt(blocks, i) BY <1>2 DEF Taken
  <2>2. ASSUME NEW x \in Nat
        PROVE  (\E j \in 1..Len(blocks) : j # i /\ blocks[j].offset <= x /\ x < EndOf(blocks[j]))
                  <=> IsFree(blocks, x) /\ ~(o <= x /\ x < o + size)
    <3>1. ASSUME NEW j \in 1..Len(blocks), j # i, blocks[j].offset <= x, x < EndOf(blocks[j])
          PROVE  ~(o <= x /\ x < o + size)
      <4>1. CASE j < i BY <4>1, <3>1, <1>1, <1>2
      <4>2. CASE j > i BY <4>2, <3>1, <1>1, <1>2
      <4> QED BY <3>1, <4>1, <4>2
    <3> QED BY <3>1, <1>1, <1>2 DEF IsFree
  <2> QED BY <2>1, <2>2, RemovedBlock
<1>3. CASE blocks[i].size > size
  <2> DEFINE r == Taken(blocks, i, size)  p == o + size
  <2>a. /\ blocks[i].offset \in Nat /\ blocks[i].size \in Nat
        /\ EndOf(blocks[i]) = blocks[i].offset + blocks[i].size /\ EndOf(blocks[i]) <= Huge
    BY <1>1
  <2>0. /\ p \in Nat /\ left \in Nat /\ left > 0 /\ p + left = EndOf(blocks[i])
        /\ p + left <= Huge /\ o < p
    BY <2>a, <1>3
  <2>1. r = ReplaceAt(blocks, i, Block(p, left)) BY <1>1, <1>3 DEF Taken
  <2>2. /\ \A j \in 1..Len(blocks) : j < i => EndOf(blocks[j]) < p
        /\ \A j \in 1..Len(blocks) : j > i => p + left < blocks[j].offset
    <3>1. \A j \in 1..Len(blocks) : j < i => EndOf(blocks[j]) < p
      <4> HIDE DEF left
      <4> QED BY <1>1, <2>a
    <3>2. \A j \in 1..Len(blocks) : j > i => p + left < blocks[j].offset
      <4> HIDE DEF p, left
      <4> QED BY <1>1, <2>0
    <3> QED BY <3>1, <3>2
  <2> HIDE DEF left, p
  <2>3. /\ BlocksOK(r) /\ Len(r) = Len(blocks)
        /\ \A j \in 1..Len(blocks) : r[j] = IF j = i THEN Block(p, left) ELSE blocks[j]
    <3> HIDE DEF r
    <3> DEFINE q == ReplaceAt(blocks, i, Block(p, left))
    <3>1. /\ BlocksOK(q) /\ Len(q) = Len(blocks)
          /\ \A j \in 1..Len(blocks) : q[j] = IF j = i THEN Block(p, left) ELSE blocks[j]
      <4>1. p \in Nat /\ left \in Nat /\ left > 0 /\ p + left <= Huge BY <2>0
      <4>2. /\ \A j \in 1..Len(blocks) : j < i => EndOf(blocks[j]) < p
            /\ \A j \in 1..Len(blocks) : j > i => p + left < blocks[j].offset
        BY <2>2
      <4>3. BlocksOK(ReplaceAt(blocks, i, Block(p, left))) BY <4>1, <4>2, ReplacedBlock
      <4>4. Block(p, left) \in BlockType BY <4>1, BlockFacts
      <4>5. blocks \in Seq(BlockType) BY BlocksRead
      <4> DEFINE e == Block(p, left)
      <4> HIDE DEF e
      <4>6. e \in BlockType BY <4>4 DEF e
      <4>7. /\ ReplaceAt(blocks, i, e) \in Seq(BlockType) /\ Len(ReplaceAt(blocks, i, e)) = Len(blocks)
            /\ \A k \in 1..Len(blocks) : ReplaceAt(blocks, i, e)[k] = IF k = i THEN e ELSE blocks[k]
        BY <4>5, <4>6, ReplacedAt
      <4> QED BY <4>3, <4>7 DEF e
    <3> QED BY <3>1, <2>1
  <2>4. /\ Block(p, left).offset = p
        /\ EndOf(Block(p, left)) = EndOf(blocks[i])
    BY <2>0, BlockFacts
  <2>6. o = blocks[i].offset /\ o \in Nat BY <1>1
  <2> HIDE DEF r, o
  <2>5. ASSUME NEW x \in Nat
        PROVE  IsFree(r, x) <=> IsFree(blocks, x) /\ ~(o <= x /\ x < p)
    <3>1. ASSUME NEW j \in 1..Len(blocks), r[j].offset <= x, x < EndOf(r[j])
          PROVE  IsFree(blocks, x) /\ ~(o <= x /\ x < p)
      <4>1. CASE j = i
        <5>1. p <= x /\ x < EndOf(blocks[i]) BY <4>1, <3>1, <2>3, <2>4
        <5> QED BY <5>1, <2>0, <2>6 DEF IsFree
      <4>2. CASE j < i BY <4>2, <3>1, <2>0, <2>3, <2>6, <1>1 DEF IsFree
      <4>3. CASE j > i BY <4>3, <3>1, <2>0, <2>3, <2>6, <1>1, <1>3 DEF IsFree
      <4> QED BY <4>1, <4>2, <4>3
    <3>2. ASSUME NEW j \in 1..Len(blocks), blocks[j].offset <= x, x < EndOf(blocks[j]),
                 ~(o <= x /\ x < p)
          PROVE  r[j].offset <= x /\ x < EndOf(r[j])
      BY <3>2, <2>0, <2>3, <2>4, <2>6, <1>1
    <3> QED BY <3>1, <3>2, <2>3 DEF IsFree
  <2> QED BY <2>3, <2>5 DEF r, p, o
<1> QED BY <1>1, <1>2, <1>3

\* Sorted blocks, of which k and the next may touch.
Touching(m, k) ==
    /\ m \in Seq(BlockType)
    /\ \A i \in 1..Len(m) : m[i].size > 0 /\ EndOf(m[i]) <= Huge
    /\ \A i, j \in 1..Len(m) : i < j =>
          EndOf(m[i]) < m[j].offset \/ (i = k /\ j = k + 1 /\ EndOf(m[i]) = m[j].offset)

\* Merging them loses and adds nothing.
LEMMA MergedBlocks ==
    ASSUME NEW m, NEW k \in 1..Len(m), Touching(m, k)
    PROVE  /\ BlocksOK(MergedWithNext(m, k))
           /\ \A x \in Nat : IsFree(MergedWithNext(m, k), x) <=> IsFree(m, x)
<1>1. /\ m \in Seq(BlockType) /\ Len(m) \in Nat
      /\ \A i \in 1..Len(m) :
            /\ m[i] \in BlockType /\ m[i].offset \in Nat /\ m[i].size \in Nat
            /\ m[i].size > 0 /\ EndOf(m[i]) = m[i].offset + m[i].size /\ EndOf(m[i]) <= Huge
  <2>1. /\ m \in Seq(BlockType) /\ Len(m) \in Nat
        /\ \A i \in 1..Len(m) : m[i].size > 0 /\ EndOf(m[i]) <= Huge
    BY DEF Touching
  <2>2. \A i \in 1..Len(m) : m[i] \in BlockType BY <2>1
  <2> QED BY <2>1, <2>2 DEF BlockType, EndOf
<1>2. \A i, j \in 1..Len(m) : i < j =>
         EndOf(m[i]) < m[j].offset \/ (i = k /\ j = k + 1 /\ EndOf(m[i]) = m[j].offset)
  BY DEF Touching
<1>3. CASE ~(k < Len(m) /\ EndOf(m[k]) = m[k + 1].offset)
  <2>1. MergedWithNext(m, k) = m BY <1>3 DEF MergedWithNext
  <2>2. \A i, j \in 1..Len(m) : i < j => m[i].offset + m[i].size < m[j].offset
    BY <1>1, <1>2, <1>3
  <2>3. BlocksOK(m) BY <1>1, <2>2, BlocksBuilt
  <2> QED BY <2>1, <2>3
<1>4. CASE k < Len(m) /\ EndOf(m[k]) = m[k + 1].offset
  <2> DEFINE b == Block(m[k].offset, m[k].size + m[k + 1].size)  rep == ReplaceAt(m, k, b)
             r == RemoveAt(rep, k + 1)
  <2>a. k \in 1..Len(m) /\ k + 1 \in 1..Len(m) BY <1>1, <1>4
  <2>1. /\ b \in BlockType /\ b.offset = m[k].offset /\ b.size = m[k].size + m[k + 1].size
        /\ EndOf(b) = EndOf(m[k + 1])
    <3> DEFINE o == m[k].offset  s == m[k].size + m[k + 1].size
    <3>1. o \in Nat /\ s \in Nat /\ EndOf(m[k + 1]) = o + s BY <2>a, <1>1, <1>4
    <3> HIDE DEF o, s
    <3>2. /\ Block(o, s) \in BlockType /\ Block(o, s).offset = o /\ Block(o, s).size = s
          /\ EndOf(Block(o, s)) = o + s
      BY <3>1, BlockFacts
    <3> QED BY <3>1, <3>2 DEF o, s
  <2> HIDE DEF b
  <2>2. /\ rep \in Seq(BlockType) /\ Len(rep) = Len(m)
        /\ \A i \in 1..Len(m) : rep[i] = IF i = k THEN b ELSE m[i]
    BY <1>1, <2>1, ReplacedAt
  <2> HIDE DEF rep
  <2>3. /\ r \in Seq(BlockType) /\ Len(r) = Len(m) - 1
        /\ \A i \in 1..Len(m) - 1 : r[i] = IF i < k + 1 THEN rep[i] ELSE rep[i + 1]
    BY <2>a, <2>2, RemovedAt
  <2>4. MergedWithNext(m, k) = r BY <1>4 DEF MergedWithNext, r, rep, b
  <2> HIDE DEF r
  <2>5. /\ \A i \in 1..Len(r) : i < k => i \in 1..Len(m) /\ r[i] = m[i]
        /\ k \in 1..Len(r) /\ r[k] = b
        /\ \A i \in 1..Len(r) : i > k => i + 1 \in 1..Len(m) /\ r[i] = m[i + 1]
    BY <2>a, <2>2, <2>3, <1>1
  <2>6. \A i \in 1..Len(r) : r[i].size > 0 /\ r[i].offset + r[i].size <= Huge
    <3> TAKE i \in 1..Len(r)
    <3>1. CASE i < k BY <3>1, <2>5, <1>1
    <3>2. CASE i = k BY <3>2, <2>5, <2>1, <2>a, <1>1, <1>4
    <3>3. CASE i > k BY <3>3, <2>5, <1>1
    <3> QED BY <3>1, <3>2, <3>3, <2>a
  <2>7. \A i, j \in 1..Len(r) : i < j => r[i].offset + r[i].size < r[j].offset
    <3> SUFFICES ASSUME NEW i \in 1..Len(r), NEW j \in 1..Len(r), i < j
                 PROVE  r[i].offset + r[i].size < r[j].offset
      OBVIOUS
    <3>a. i \in Int /\ j \in Int BY <2>a
    <3>1. CASE j < k BY <3>1, <3>a, <2>5, <1>1, <1>2
    <3>2. CASE j = k BY <3>2, <3>a, <2>5, <2>1, <2>a, <1>1, <1>2
    <3>3. CASE i = k
      <4>1. j + 1 \in 1..Len(m) /\ r[j] = m[j + 1] BY <3>3, <2>5
      <4>2. EndOf(m[k + 1]) < m[j + 1].offset BY <4>1, <3>3, <3>a, <2>a, <1>1, <1>2
      <4>3. r[i].offset + r[i].size = EndOf(m[k + 1]) BY <3>3, <2>5, <2>1, <2>a, <1>1, <1>4
      <4> QED BY <4>1, <4>2, <4>3
    <3>4. CASE i < k /\ j > k
      <4>1. j + 1 \in 1..Len(m) /\ r[j] = m[j + 1] /\ r[i] = m[i] /\ i \in 1..Len(m)
        BY <3>4, <2>5
      <4> DEFINE h == j + 1
      <4>2. h \in 1..Len(m) /\ r[j] = m[h] /\ i < h /\ h # k + 1 BY <4>1, <3>4, <3>a, <2>a
      <4> HIDE DEF h
      <4>3. EndOf(m[i]) < m[h].offset BY <4>1, <4>2, <1>2
      <4> QED BY <4>1, <4>2, <4>3, <1>1
    <3>5. CASE i > k
      <4>1. /\ j + 1 \in 1..Len(m) /\ r[j] = m[j + 1]
            /\ i + 1 \in 1..Len(m) /\ r[i] = m[i + 1]
        BY <3>5, <3>a, <2>a, <2>5
      <4> QED BY <4>1, <3>5, <3>a, <2>a, <1>1, <1>2
    <3> QED BY <3>1, <3>2, <3>3, <3>4, <3>5, <3>a, <2>a
  <2>8. BlocksOK(r) BY <2>3, <2>6, <2>7, BlocksBuilt
  <2>9. ASSUME NEW x \in Nat PROVE IsFree(r, x) <=> IsFree(m, x)
    <3>1. ASSUME NEW i \in 1..Len(r), r[i].offset <= x, x < EndOf(r[i]) PROVE IsFree(m, x)
      <4>1. CASE i < k BY <4>1, <3>1, <2>5 DEF IsFree
      <4>2. CASE i > k BY <4>2, <3>1, <2>5 DEF IsFree
      <4>3. CASE i = k
        <5>1. m[k].offset <= x /\ x < EndOf(m[k + 1]) BY <4>3, <3>1, <2>5, <2>1
        <5>2. CASE x < EndOf(m[k]) BY <5>1, <5>2, <2>a DEF IsFree
        <5>3. CASE x >= m[k + 1].offset BY <5>1, <5>3, <2>a DEF IsFree
        <5> QED BY <5>2, <5>3, <2>a, <1>1, <1>4
      <4> QED BY <4>1, <4>2, <4>3, <2>a
    <3>2. ASSUME NEW i \in 1..Len(m), m[i].offset <= x, x < EndOf(m[i]) PROVE IsFree(r, x)
      <4>a. i \in Int /\ Len(r) = Len(m) - 1 BY <2>3
      <4>1. CASE i < k
        <5>1. i \in 1..Len(r) /\ r[i] = m[i] BY <4>1, <4>a, <2>a, <2>5, <1>1
        <5> QED BY <5>1, <3>2 DEF IsFree
      <4>2. CASE i > k + 1
        <5> DEFINE h == i - 1
        <5>1. h \in 1..Len(r) /\ h > k /\ h + 1 = i BY <4>2, <4>a, <2>a, <1>1
        <5>2. r[h] = m[i] BY <5>1, <2>5
        <5> QED BY <5>1, <5>2, <3>2 DEF IsFree
      <4>3. CASE i = k \/ i = k + 1
        <5>1. m[k].offset <= x /\ x < EndOf(m[k + 1]) BY <4>3, <3>2, <2>a, <1>1, <1>4
        <5> QED BY <5>1, <2>5, <2>1 DEF IsFree
      <4> QED BY <4>1, <4>2, <4>3, <4>a, <2>a
    <3> QED BY <3>1, <3>2 DEF IsFree
  <2> QED BY <2>4, <2>8, <2>9
<1> QED BY <1>3, <1>4

\* Blocks around memory that is not free: each lies below it or above it.
LEMMA AroundBlocks ==
    ASSUME NEW blocks, BlocksOK(blocks), NEW o \in Nat, NEW size \in Nat, size > 0,
           \A x \in Nat : o <= x /\ x < o + size => ~IsFree(blocks, x),
           NEW j \in 1..Len(blocks)
    PROVE  EndOf(blocks[j]) <= o \/ o + size <= blocks[j].offset
<1>1. /\ blocks[j].offset \in Nat /\ blocks[j].size \in Nat /\ blocks[j].size > 0
      /\ EndOf(blocks[j]) = blocks[j].offset + blocks[j].size
  BY BlocksRead
<1>2. SUFFICES ASSUME EndOf(blocks[j]) > o, o + size > blocks[j].offset PROVE FALSE BY <1>1
<1> DEFINE x == IF o >= blocks[j].offset THEN o ELSE blocks[j].offset
<1>3. /\ x \in Nat /\ o <= x /\ x < o + size
      /\ blocks[j].offset <= x /\ x < EndOf(blocks[j])
  BY <1>1, <1>2
<1> HIDE DEF x
<1> QED BY <1>3 DEF IsFree

\* Memory given back becomes a block of its own, between those around it.
LEMMA InsertedBlocks ==
    ASSUME NEW blocks, BlocksOK(blocks), NEW o \in Nat, NEW size \in Nat, size > 0,
           o + size <= Huge,
           \A j \in 1..Len(blocks) : EndOf(blocks[j]) < o \/ o + size < blocks[j].offset
    PROVE  /\ BlocksOK(Inserted(blocks, o, size))
           /\ \A x \in Nat : IsFree(Inserted(blocks, o, size), x) <=>
                 IsFree(blocks, x) \/ (o <= x /\ x < o + size)
<1>1. /\ blocks \in Seq(BlockType) /\ Len(blocks) \in Nat
      /\ \A j \in 1..Len(blocks) :
            /\ blocks[j] \in BlockType /\ blocks[j].offset \in Nat /\ blocks[j].size \in Nat
            /\ blocks[j].size > 0 /\ EndOf(blocks[j]) = blocks[j].offset + blocks[j].size
            /\ EndOf(blocks[j]) <= Huge
      /\ \A j, k \in 1..Len(blocks) : j < k => EndOf(blocks[j]) < blocks[k].offset
  BY BlocksRead
<1> DEFINE places == {k \in 1..Len(blocks) + 1 : k <= Len(blocks) => blocks[k].offset >= o}
           p == First(places)  b == Block(o, size)  r == InsertAt(blocks, p, b)
<1>2. Len(blocks) + 1 \in places /\ places \subseteq Nat BY <1>1
<1>3. p \in places /\ \A k \in places : p <= k BY <1>2, FirstIsLeast
<1>4. /\ p \in 1..Len(blocks) + 1
      /\ \A j \in 1..Len(blocks) : j < p => blocks[j].offset < o
      /\ p <= Len(blocks) => blocks[p].offset >= o
  <2>1. p \in 1..Len(blocks) + 1 /\ (p <= Len(blocks) => blocks[p].offset >= o) BY <1>3
  <2>2. ASSUME NEW j \in 1..Len(blocks), j < p PROVE blocks[j].offset < o
    <3>1. j \notin places BY <2>1, <2>2, <1>1, <1>3
    <3> HIDE DEF p
    <3>2. j \in 1..Len(blocks) + 1 /\ ~(blocks[j].offset >= o) BY <3>1, <1>1
    <3> QED BY <3>2, <1>1
  <2> QED BY <2>1, <2>2
<1>5. b \in BlockType /\ b.offset = o /\ b.size = size /\ EndOf(b) = o + size BY BlockFacts
<1>6. Inserted(blocks, o, size) = r BY DEF Inserted
<1> HIDE DEF places, p, b
<1>7. /\ r \in Seq(BlockType) /\ Len(r) = Len(blocks) + 1
      /\ \A k \in 1..Len(blocks) + 1 :
            r[k] = IF k < p THEN blocks[k] ELSE IF k = p THEN b ELSE blocks[k - 1]
  BY <1>1, <1>4, <1>5, InsertedAt
<1> HIDE DEF r
<1>8. \A j \in 1..Len(blocks) : j < p => EndOf(blocks[j]) < o
  <2> SUFFICES ASSUME NEW j \in 1..Len(blocks), j < p PROVE EndOf(blocks[j]) < o OBVIOUS
  <2>1. blocks[j].offset < o BY <1>4
  <2>2. EndOf(blocks[j]) < o \/ o + size < blocks[j].offset OBVIOUS
  <2>3. blocks[j].offset \in Nat BY <1>1
  <2> QED BY <2>1, <2>2, <2>3
<1>9. \A j \in 1..Len(blocks) : j >= p => o + size < blocks[j].offset
  <2> SUFFICES ASSUME NEW j \in 1..Len(blocks), j >= p PROVE o + size < blocks[j].offset OBVIOUS
  <2>1. p \in 1..Len(blocks) /\ blocks[p].offset >= o BY <1>1, <1>4
  <2>5. EndOf(blocks[p]) > blocks[p].offset BY <2>1, <1>1
  <2>6. EndOf(blocks[p]) \in Nat /\ blocks[p].offset \in Nat BY <2>1, <1>1
  <2>2. EndOf(blocks[p]) > o BY <2>1, <2>5, <2>6
  <2>3. o + size < blocks[p].offset BY <2>1, <2>2, <1>1
  <2>4. blocks[p].offset <= blocks[j].offset
    <3>1. CASE j = p BY <3>1, <2>1, <1>1
    <3>2. CASE p < j BY <3>2, <2>1, <1>1
    <3> QED BY <3>1, <3>2, <2>1
  <2> QED BY <2>1, <2>3, <2>4, <1>1
<1>10. /\ \A k \in 1..Len(r) : k < p => k \in 1..Len(blocks) /\ r[k] = blocks[k]
       /\ p \in 1..Len(r) /\ r[p] = b
       /\ \A k \in 1..Len(r) : k > p => k - 1 \in 1..Len(blocks) /\ k - 1 >= p /\ r[k] = blocks[k - 1]
  BY <1>1, <1>4, <1>7
<1>11. \A k \in 1..Len(r) : r[k].size > 0 /\ r[k].offset + r[k].size <= Huge
  <2> TAKE k \in 1..Len(r)
  <2>1. CASE k < p BY <2>1, <1>10, <1>1
  <2>2. CASE k = p BY <2>2, <1>10, <1>5
  <2>3. CASE k > p BY <2>3, <1>10, <1>1
  <2> QED BY <2>1, <2>2, <2>3, <1>4
<1>12. \A i, k \in 1..Len(r) : i < k => r[i].offset + r[i].size < r[k].offset
  <2> SUFFICES ASSUME NEW i \in 1..Len(r), NEW k \in 1..Len(r), i < k
               PROVE  r[i].offset + r[i].size < r[k].offset
    OBVIOUS
  <2>a. i \in Int /\ k \in Int /\ p \in Int BY <1>4
  <2>1. CASE k < p BY <2>1, <2>a, <1>10, <1>1
  <2>2. CASE k = p BY <2>2, <2>a, <1>10, <1>8, <1>5, <1>1
  <2>3. CASE i = p BY <2>3, <2>a, <1>10, <1>9, <1>5, <1>1
  <2>4. CASE i < p /\ k > p
    <3> DEFINE h == k - 1
    <3>1. h \in 1..Len(blocks) /\ i < h /\ r[k] = blocks[h] /\ r[i] = blocks[i] /\ i \in 1..Len(blocks)
      BY <2>4, <2>a, <1>10
    <3> HIDE DEF h
    <3> QED BY <3>1, <1>1
  <2>5. CASE i > p
    <3> DEFINE h == k - 1  g == i - 1
    <3>1. h \in 1..Len(blocks) /\ g < h /\ r[k] = blocks[h] /\ r[i] = blocks[g] /\ g \in 1..Len(blocks)
      BY <2>5, <2>a, <1>10
    <3> HIDE DEF h, g
    <3> QED BY <3>1, <1>1
  <2> QED BY <2>1, <2>2, <2>3, <2>4, <2>5, <2>a
<1>13. BlocksOK(r) BY <1>7, <1>11, <1>12, BlocksBuilt
<1>14. ASSUME NEW x \in Nat
       PROVE  IsFree(r, x) <=> IsFree(blocks, x) \/ (o <= x /\ x < o + size)
  <2>1. ASSUME NEW k \in 1..Len(r), r[k].offset <= x, x < EndOf(r[k])
        PROVE  IsFree(blocks, x) \/ (o <= x /\ x < o + size)
    <3>1. CASE k < p BY <3>1, <2>1, <1>10 DEF IsFree
    <3>2. CASE k = p BY <3>2, <2>1, <1>10, <1>5
    <3>3. CASE k > p BY <3>3, <2>1, <1>10 DEF IsFree
    <3> QED BY <3>1, <3>2, <3>3, <1>4
  <2>2. ASSUME NEW j \in 1..Len(blocks), blocks[j].offset <= x, x < EndOf(blocks[j])
        PROVE  IsFree(r, x)
    <3>1. CASE j < p
      <4>1. j \in 1..Len(r) /\ r[j] = blocks[j] BY <3>1, <1>4, <1>7, <1>10, <1>1
      <4> QED BY <4>1, <2>2 DEF IsFree
    <3>2. CASE j >= p
      <4> DEFINE h == j + 1
      <4>1. h \in 1..Len(r) /\ h > p /\ h - 1 = j BY <3>2, <1>4, <1>7, <1>1
      <4>2. r[h] = blocks[j] BY <4>1, <1>10
      <4> QED BY <4>1, <4>2, <2>2 DEF IsFree
    <3> QED BY <3>1, <3>2, <1>4
  <2>3. o <= x /\ x < o + size => IsFree(r, x) BY <1>5, <1>10 DEF IsFree
  <2> QED BY <2>1, <2>2, <2>3 DEF IsFree
<1> QED BY <1>6, <1>13, <1>14

\* A block that grows over memory that was not free.
LEMMA GrownBlock ==
    ASSUME NEW blocks, BlocksOK(blocks), NEW i \in 1..Len(blocks),
           NEW o \in Nat, NEW size \in Nat, NEW e \in BlockType,
           \A x \in Nat : e.offset <= x /\ x < EndOf(e) <=>
              (blocks[i].offset <= x /\ x < EndOf(blocks[i])) \/ (o <= x /\ x < o + size)
    PROVE  \A x \in Nat : IsFree(ReplaceAt(blocks, i, e), x) <=>
              IsFree(blocks, x) \/ (o <= x /\ x < o + size)
<1> DEFINE r == ReplaceAt(blocks, i, e)
<1>1. blocks \in Seq(BlockType) BY BlocksRead
<1>2. Len(r) = Len(blocks) /\ \A j \in 1..Len(blocks) : r[j] = IF j = i THEN e ELSE blocks[j]
  BY <1>1, ReplacedAt
<1> HIDE DEF r
<1>3. ASSUME NEW x \in Nat
      PROVE  IsFree(r, x) <=> IsFree(blocks, x) \/ (o <= x /\ x < o + size)
  <2>1. ASSUME NEW j \in 1..Len(r), r[j].offset <= x, x < EndOf(r[j])
        PROVE  IsFree(blocks, x) \/ (o <= x /\ x < o + size)
    <3>1. CASE j = i BY <3>1, <2>1, <1>2 DEF IsFree
    <3>2. CASE j # i BY <3>2, <2>1, <1>2 DEF IsFree
    <3> QED BY <3>1, <3>2
  <2>2. ASSUME NEW j \in 1..Len(blocks), blocks[j].offset <= x, x < EndOf(blocks[j])
        PROVE  IsFree(r, x)
    <3>1. CASE j = i BY <3>1, <2>2, <1>2 DEF IsFree
    <3>2. CASE j # i BY <3>2, <2>2, <1>2 DEF IsFree
    <3> QED BY <3>1, <3>2
  <2>3. o <= x /\ x < o + size => IsFree(r, x) BY <1>2 DEF IsFree
  <2> QED BY <2>1, <2>2, <2>3 DEF IsFree
<1> QED BY <1>3 DEF r

\* The memory after a block becomes the end of it.
LEMMA ExtendedAbove ==
    ASSUME NEW blocks, BlocksOK(blocks), NEW o \in Nat, NEW size \in Nat, size > 0,
           o + size <= Huge,
           \A x \in Nat : o <= x /\ x < o + size => ~IsFree(blocks, x),
           NEW i \in 1..Len(blocks), EndOf(blocks[i]) = o
    PROVE  /\ BlocksOK(Extended(blocks, i, o, size))
           /\ \A x \in Nat : IsFree(Extended(blocks, i, o, size), x) <=>
                 IsFree(blocks, x) \/ (o <= x /\ x < o + size)
<1>1. /\ blocks \in Seq(BlockType) /\ Len(blocks) \in Nat
      /\ \A j \in 1..Len(blocks) :
            /\ blocks[j] \in BlockType /\ blocks[j].offset \in Nat /\ blocks[j].size \in Nat
            /\ blocks[j].size > 0 /\ EndOf(blocks[j]) = blocks[j].offset + blocks[j].size
            /\ EndOf(blocks[j]) <= Huge
      /\ \A j, k \in 1..Len(blocks) : j < k => EndOf(blocks[j]) < blocks[k].offset
  BY BlocksRead
<1> DEFINE a == blocks[i].offset  s == blocks[i].size + size  e == Block(a, s)
           m == ReplaceAt(blocks, i, e)
<1>2. /\ a \in Nat /\ s \in Nat /\ a = blocks[i].offset /\ a + s = o + size /\ a < o
      /\ s = blocks[i].size + size
  BY <1>1
<1> HIDE DEF a, s
<1>3. e \in BlockType /\ e.offset = a /\ e.size = s /\ EndOf(e) = o + size
  BY <1>2, BlockFacts
<1>4. Extended(blocks, i, o, size) = MergedWithNext(m, i) BY DEF Extended, a, s
<1> HIDE DEF e
<1>5. /\ m \in Seq(BlockType) /\ Len(m) = Len(blocks)
      /\ \A j \in 1..Len(blocks) : m[j] = IF j = i THEN e ELSE blocks[j]
  BY <1>1, <1>3, ReplacedAt
<1>6. \A x \in Nat : IsFree(m, x) <=> IsFree(blocks, x) \/ (o <= x /\ x < o + size)
  <2>1. \A x \in Nat : e.offset <= x /\ x < EndOf(e) <=>
           (blocks[i].offset <= x /\ x < EndOf(blocks[i])) \/ (o <= x /\ x < o + size)
    BY <1>1, <1>2, <1>3
  <2> QED BY <2>1, <1>3, GrownBlock
<1> HIDE DEF m
<1>7. \A j \in 1..Len(blocks) : j > i => o + size <= blocks[j].offset
  <2> SUFFICES ASSUME NEW j \in 1..Len(blocks), j > i PROVE o + size <= blocks[j].offset OBVIOUS
  <2>1. o < blocks[j].offset BY <1>1
  <2>2. EndOf(blocks[j]) <= o \/ o + size <= blocks[j].offset BY AroundBlocks
  <2>3. /\ EndOf(blocks[j]) > blocks[j].offset /\ blocks[j].offset \in Nat
        /\ EndOf(blocks[j]) \in Nat
    BY <1>1
  <2> QED BY <2>1, <2>2, <2>3
<1>8. \A j \in 1..Len(blocks) : j > i + 1 => o + size < blocks[j].offset
  <2> SUFFICES ASSUME NEW j \in 1..Len(blocks), j > i + 1 PROVE o + size < blocks[j].offset
    OBVIOUS
  <2> DEFINE h == i + 1
  <2>1. h \in 1..Len(blocks) /\ h > i /\ h < j BY <1>1
  <2> HIDE DEF h
  <2>2. o + size <= blocks[h].offset BY <2>1, <1>7
  <2>3. /\ EndOf(blocks[h]) < blocks[j].offset /\ EndOf(blocks[h]) > blocks[h].offset
        /\ blocks[h].offset \in Nat /\ blocks[j].offset \in Nat /\ EndOf(blocks[h]) \in Nat
    BY <2>1, <1>1
  <2> QED BY <2>2, <2>3
<1>9. Touching(m, i)
  <2>1. ASSUME NEW j \in 1..Len(m) PROVE m[j].size > 0 /\ EndOf(m[j]) <= Huge
    <3>a. j \in 1..Len(blocks) BY <1>5
    <3>1. CASE j = i
      <4>1. m[j] = e BY <3>1, <3>a, <1>5
      <4>2. blocks[i].size \in Nat BY <1>1
      <4> QED BY <4>1, <4>2, <1>2, <1>3
    <3>2. CASE j # i BY <3>2, <3>a, <1>1, <1>5
    <3> QED BY <3>1, <3>2
  <2>2. ASSUME NEW j \in 1..Len(m), NEW k \in 1..Len(m), j < k
        PROVE  EndOf(m[j]) < m[k].offset \/ (j = i /\ k = i + 1 /\ EndOf(m[j]) = m[k].offset)
    <3>a. j \in 1..Len(blocks) /\ k \in 1..Len(blocks) BY <1>5
    <3>1. CASE j = i
      <4>1. EndOf(m[j]) = o + size /\ m[k] = blocks[k] BY <3>1, <3>a, <2>2, <1>3, <1>5
      <4>a. k > i /\ i \in Int /\ k \in Int /\ blocks[k].offset \in Nat BY <3>1, <3>a, <2>2, <1>1
      <4>2. CASE k = i + 1
        <5>1. o + size <= blocks[k].offset BY <4>a, <3>a, <1>7
        <5> QED BY <5>1, <4>1, <4>2, <4>a, <3>1
      <4>3. CASE k > i + 1 BY <4>1, <4>3, <3>1, <3>a, <1>8
      <4> QED BY <4>2, <4>3, <3>1, <3>a, <2>2
    <3>2. CASE k = i BY <3>2, <3>a, <2>2, <1>1, <1>2, <1>3, <1>5
    <3>3. CASE j # i /\ k # i BY <3>3, <3>a, <2>2, <1>1, <1>5
    <3> QED BY <3>1, <3>2, <3>3
  <2> QED BY <2>1, <2>2, <1>5 DEF Touching
<1>10. /\ BlocksOK(MergedWithNext(m, i))
       /\ \A x \in Nat : IsFree(MergedWithNext(m, i), x) <=> IsFree(m, x)
  BY <1>5, <1>9, MergedBlocks
<1> QED BY <1>4, <1>6, <1>10

\* And the memory before a block the start of it.
LEMMA ExtendedBelow ==
    ASSUME NEW blocks, BlocksOK(blocks), NEW o \in Nat, NEW size \in Nat, size > 0,
           o + size <= Huge,
           \A x \in Nat : o <= x /\ x < o + size => ~IsFree(blocks, x),
           NEW i \in 1..Len(blocks), EndOf(blocks[i]) # o, o + size = blocks[i].offset
    PROVE  /\ BlocksOK(Extended(blocks, i, o, size))
           /\ \A x \in Nat : IsFree(Extended(blocks, i, o, size), x) <=>
                 IsFree(blocks, x) \/ (o <= x /\ x < o + size)
<1>1. /\ blocks \in Seq(BlockType) /\ Len(blocks) \in Nat
      /\ \A j \in 1..Len(blocks) :
            /\ blocks[j] \in BlockType /\ blocks[j].offset \in Nat /\ blocks[j].size \in Nat
            /\ blocks[j].size > 0 /\ EndOf(blocks[j]) = blocks[j].offset + blocks[j].size
            /\ EndOf(blocks[j]) <= Huge
      /\ \A j, k \in 1..Len(blocks) : j < k => EndOf(blocks[j]) < blocks[k].offset
  BY BlocksRead
<1> DEFINE s == blocks[i].size + size  e == Block(o, s)  m == ReplaceAt(blocks, i, e)  h == i - 1
<1>2. s \in Nat /\ s > 0 /\ o + s = EndOf(blocks[i]) /\ o + s <= Huge
  <2>1. /\ blocks[i].size \in Nat /\ EndOf(blocks[i]) = blocks[i].offset + blocks[i].size
        /\ EndOf(blocks[i]) <= Huge
    BY <1>1
  <2> QED BY <2>1
<1>4. Extended(blocks, i, o, size) = IF i > 1 THEN MergedWithNext(m, h) ELSE m
  BY DEF Extended
<1> HIDE DEF s
<1>3. e \in BlockType /\ e.offset = o /\ e.size = s /\ EndOf(e) = EndOf(blocks[i])
  BY <1>2, BlockFacts
<1> HIDE DEF e
<1>5. /\ m \in Seq(BlockType) /\ Len(m) = Len(blocks)
      /\ \A j \in 1..Len(blocks) : m[j] = IF j = i THEN e ELSE blocks[j]
  BY <1>1, <1>3, ReplacedAt
<1>6. \A x \in Nat : IsFree(m, x) <=> IsFree(blocks, x) \/ (o <= x /\ x < o + size)
  <2>1. \A x \in Nat : e.offset <= x /\ x < EndOf(e) <=>
           (blocks[i].offset <= x /\ x < EndOf(blocks[i])) \/ (o <= x /\ x < o + size)
    BY <1>1, <1>2, <1>3
  <2> QED BY <2>1, <1>3, GrownBlock
<1> HIDE DEF m
<1>7. \A j \in 1..Len(blocks) : j < i => EndOf(blocks[j]) <= o
  <2> SUFFICES ASSUME NEW j \in 1..Len(blocks), j < i PROVE EndOf(blocks[j]) <= o OBVIOUS
  <2>1. EndOf(blocks[j]) < o + size BY <1>1
  <2>2. EndOf(blocks[j]) <= o \/ o + size <= blocks[j].offset BY AroundBlocks
  <2>3. /\ EndOf(blocks[j]) > blocks[j].offset /\ blocks[j].offset \in Nat
        /\ EndOf(blocks[j]) \in Nat
    BY <1>1
  <2> QED BY <2>1, <2>2, <2>3
<1>8. \A j \in 1..Len(blocks) : j < h => EndOf(blocks[j]) < o
  <2> SUFFICES ASSUME NEW j \in 1..Len(blocks), j < h PROVE EndOf(blocks[j]) < o OBVIOUS
  <2>1. h \in 1..Len(blocks) /\ h < i BY <1>1
  <2> HIDE DEF h
  <2>2. EndOf(blocks[h]) <= o BY <2>1, <1>7
  <2>3. EndOf(blocks[j]) < blocks[h].offset BY ONLY <2>1, <1>1, j \in 1..Len(blocks), j < h
  <2>4. EndOf(blocks[h]) > blocks[h].offset BY ONLY <2>1, <1>1
  <2>5. blocks[h].offset \in Nat /\ EndOf(blocks[h]) \in Nat BY ONLY <2>1, <1>1
  <2>6. EndOf(blocks[j]) \in Nat BY ONLY <1>1, j \in 1..Len(blocks)
  <2> QED BY <2>2, <2>3, <2>4, <2>5, <2>6
<1>9. Touching(m, h)
  <2>1. ASSUME NEW j \in 1..Len(m) PROVE m[j].size > 0 /\ EndOf(m[j]) <= Huge
    <3>a. j \in 1..Len(blocks) BY <1>5
    <3>1. CASE j = i
      <4>1. m[j] = e BY <3>1, <3>a, <1>5
      <4>2. blocks[i].size \in Nat BY <1>1
      <4> QED BY <4>1, <4>2, <1>2, <1>3
    <3>2. CASE j # i BY <3>2, <3>a, <1>1, <1>5
    <3> QED BY <3>1, <3>2
  <2>2. ASSUME NEW j \in 1..Len(m), NEW k \in 1..Len(m), j < k
        PROVE  EndOf(m[j]) < m[k].offset \/ (j = h /\ k = h + 1 /\ EndOf(m[j]) = m[k].offset)
    <3>a. j \in 1..Len(blocks) /\ k \in 1..Len(blocks) BY <1>5
    <3>1. CASE k = i
      <4>1. m[k].offset = o /\ m[j] = blocks[j] BY <3>1, <3>a, <2>2, <1>3, <1>5
      <4>2. EndOf(blocks[j]) \in Nat BY <3>a, <1>1
      <4>3. CASE j = h BY <4>1, <4>2, <4>3, <3>1, <3>a, <2>2, <1>7
      <4>4. CASE j < h BY <4>1, <4>4, <3>a, <1>8
      <4> QED BY <4>3, <4>4, <3>1, <3>a, <2>2
    <3>2. CASE j = i
      <4>1. EndOf(m[j]) = EndOf(blocks[i]) /\ m[k] = blocks[k] BY <3>2, <3>a, <2>2, <1>3, <1>5
      <4> QED BY <4>1, <3>2, <3>a, <2>2, <1>1
    <3>3. CASE j # i /\ k # i
      <4> HIDE DEF h
      <4> QED BY <3>3, <3>a, <2>2, <1>1, <1>5
    <3> QED BY <3>1, <3>2, <3>3
  <2> QED BY <2>1, <2>2, <1>5 DEF Touching
<1>10. CASE i > 1
  <2>1. h \in 1..Len(m) BY <1>10, <1>5
  <2> HIDE DEF h
  <2>2. /\ BlocksOK(MergedWithNext(m, h))
        /\ \A x \in Nat : IsFree(MergedWithNext(m, h), x) <=> IsFree(m, x)
    BY <2>1, <1>9, MergedBlocks
  <2> QED BY <2>2, <1>4, <1>6, <1>10
<1>11. CASE i = 1
  <2>1. \A j \in 1..Len(m) : m[j].size > 0 /\ m[j].offset + m[j].size <= Huge
    BY <1>1, <1>2, <1>3, <1>5
  <2>2. \A j, k \in 1..Len(m) : j < k => m[j].offset + m[j].size < m[k].offset
    <3> SUFFICES ASSUME NEW j \in 1..Len(m), NEW k \in 1..Len(m), j < k
                 PROVE  m[j].offset + m[j].size < m[k].offset
      OBVIOUS
    <3>a. j \in 1..Len(blocks) /\ k \in 1..Len(blocks) /\ k # i BY <1>5, <1>11
    <3>1. CASE j = i BY <3>1, <3>a, <1>1, <1>2, <1>3, <1>5
    <3>2. CASE j # i BY <3>2, <3>a, <1>1, <1>5
    <3> QED BY <3>1, <3>2
  <2>3. BlocksOK(m) BY <2>1, <2>2, <1>5, BlocksBuilt
  <2> QED BY <2>3, <1>4, <1>6, <1>11
<1> QED BY <1>10, <1>11

\* ggml_dyn_tallocr_free_tensor: the memory given back, and no other, becomes
\* free.
LEMMA ReturnedBlocks ==
    ASSUME NEW blocks, BlocksOK(blocks), NEW o \in Nat, NEW size \in Nat, size > 0,
           o + size <= Huge,
           \A x \in Nat : o <= x /\ x < o + size => ~IsFree(blocks, x)
    PROVE  /\ BlocksOK(Returned(blocks, o, size))
           /\ \A x \in Nat : IsFree(Returned(blocks, o, size), x) <=>
                 IsFree(blocks, x) \/ (o <= x /\ x < o + size)
<1> DEFINE touched == {i \in 1..Len(blocks) : Touches(blocks[i], o, size)}
<1>1. /\ Len(blocks) \in Nat
      /\ \A j \in 1..Len(blocks) :
            /\ blocks[j].offset \in Nat /\ blocks[j].size \in Nat
            /\ EndOf(blocks[j]) = blocks[j].offset + blocks[j].size
  BY BlocksRead
<1>2. CASE touched = {}
  <2>1. \A j \in 1..Len(blocks) : EndOf(blocks[j]) # o /\ o + size # blocks[j].offset
    BY <1>2 DEF Touches
  <2>2. \A j \in 1..Len(blocks) : EndOf(blocks[j]) < o \/ o + size < blocks[j].offset
    <3> TAKE j \in 1..Len(blocks)
    <3>1. EndOf(blocks[j]) <= o \/ o + size <= blocks[j].offset BY AroundBlocks
    <3>2. EndOf(blocks[j]) \in Nat /\ blocks[j].offset \in Nat BY <1>1
    <3>3. EndOf(blocks[j]) # o /\ o + size # blocks[j].offset BY <2>1
    <3> QED BY <3>1, <3>2, <3>3
  <2>3. Returned(blocks, o, size) = Inserted(blocks, o, size) BY <1>2 DEF Returned
  <2> QED BY <2>2, <2>3, InsertedBlocks
<1>3. CASE touched # {}
  <2> DEFINE i == First(touched)
  <2>1. i \in touched
    <3>1. touched \subseteq Nat BY <1>1
    <3> QED BY <3>1, <1>3, FirstIsLeast
  <2>2. Returned(blocks, o, size) = Extended(blocks, i, o, size) BY <1>3 DEF Returned
  <2>3. i \in 1..Len(blocks) /\ (EndOf(blocks[i]) = o \/ o + size = blocks[i].offset)
    BY <2>1 DEF Touches
  <2> HIDE DEF i, touched
  <2>4. CASE EndOf(blocks[i]) = o BY <2>2, <2>3, <2>4, ExtendedAbove
  <2>5. CASE EndOf(blocks[i]) # o
    <3>1. o + size = blocks[i].offset BY <2>3, <2>5
    <3>2. i \in 1..Len(blocks) BY <2>3
    <3>3. /\ BlocksOK(Extended(blocks, i, o, size))
          /\ \A x \in Nat : IsFree(Extended(blocks, i, o, size), x) <=>
                IsFree(blocks, x) \/ (o <= x /\ x < o + size)
      BY <3>1, <3>2, <2>5, ExtendedBelow
    <3> QED BY <3>3, <2>2
  <2> QED BY <2>4, <2>5
<1> QED BY <1>2, <1>3

-----------------------------------------------------------------------------
(* Graphs                                                                  *)

LEMMA AlignedUp ==
    ASSUME NEW n \in Nat
    PROVE  Aligned(n) \in Nat /\ n <= Aligned(n)
<1> USE GraphAssumption
<1> DEFINE d == (n + Alignment - 1) \div Alignment
<1>1. d \in Nat /\ n + Alignment - 1 < (d + 1) * Alignment OBVIOUS
<1>2. Aligned(n) = d * Alignment BY DEF Aligned
<1> HIDE DEF d
<1>3. d * Alignment \in Nat /\ (d + 1) * Alignment = d * Alignment + Alignment BY <1>1
<1> QED BY <1>1, <1>2, <1>3

\* What a graph is, tensor by tensor.
LEMMA Shape ==
    ASSUME WellFormed(graph)
    PROVE  /\ Len(graph) \in Nat
           /\ \A t \in Tensors :
                 /\ graph[t].kind \in {"leaf", "ext", "op", "inplace", "view", "dep"}
                 /\ graph[t].size \in Nat /\ graph[t].out \in BOOLEAN
                 /\ Src(t) \in Seq(Nat) /\ Len(Src(t)) \in Nat /\ Len(Src(t)) <= MaxSrc
                 /\ Before(graph, t) => Src(t) = <<>> /\ \A u \in 1..t : Before(graph, u)
<1>1. graph \in Seq(Tensor) /\ Len(graph) \in Nat BY DEF WellFormed
<1>2. \A t \in Tensors : graph[t] \in Tensor BY <1>1 DEF Tensors
<1> QED BY <1>1, <1>2 DEF WellFormed, Tensors, Tensor, Src

\* Sources come earlier.
LEMMA Sources ==
    ASSUME WellFormed(graph), NEW t \in Tensors, NEW j \in 1..Len(Src(t))
    PROVE  /\ Src(t)[j] \in Tensors /\ Src(t)[j] < t /\ graph[Src(t)[j]].kind # "dep"
           /\ Src(t)[j] \in Nat /\ t \in Nodes
<1>1. t \in Nat /\ Len(graph) \in Nat /\ t <= Len(graph) BY Shape DEF Tensors
<1>2. Src(t)[j] \in 1..t - 1 /\ graph[Src(t)[j]].kind # "dep" BY DEF WellFormed, Tensors, Src
<1>3. ~Before(graph, t)
  <2>1. ASSUME Before(graph, t) PROVE FALSE
    <3>1. Src(t) = <<>> BY <2>1, Shape
    <3>2. Len(Src(t)) = 0 BY <3>1
    <3> QED BY <3>2
  <2> QED BY <2>1
<1> QED BY <1>1, <1>2, <1>3 DEF Tensors, Nodes

\* A view has a root that is none, and a tensor with memory is its own root.
LEMMA Roots ==
    ASSUME WellFormed(graph), NEW t \in Tensors
    PROVE  /\ Root(t) \in Tensors /\ ~IsView(Root(t))
           /\ IsView(t) => Root(t) < t /\ Root(t) = graph[t].view_src
           /\ ~IsView(t) => Root(t) = t
           /\ HasMemory(t) => ~IsView(t) /\ graph[t].size > 0 /\ Size(t) \in Nat /\ Size(t) > 0
<1>1. /\ t \in Nat /\ Len(graph) \in Nat /\ t <= Len(graph) /\ graph[t].size \in Nat
  BY Shape DEF Tensors
<1>2. /\ IsView(t) => graph[t].view_src \in 1..t - 1 /\ ~Viewing(graph, graph[t].view_src)
      /\ HasMemory(t) => graph[t].size > 0
  BY DEF WellFormed, Tensors, IsView, HasMemory
<1>3. HasMemory(t) => ~IsView(t) BY DEF HasMemory, IsView, OwnsMemory, Viewing
<1>4. Aligned(graph[t].size) \in Nat /\ graph[t].size <= Aligned(graph[t].size)
  BY <1>1, AlignedUp
<1>5. /\ IsView(t) => Root(t) = graph[t].view_src
      /\ ~IsView(t) => Root(t) = t
  BY DEF Root
<1>6. CASE IsView(t) BY <1>1, <1>2, <1>3, <1>5, <1>6 DEF IsView, Tensors
<1>7. CASE ~IsView(t) BY <1>1, <1>2, <1>3, <1>4, <1>5, <1>7 DEF Size
<1> QED BY <1>6, <1>7

-----------------------------------------------------------------------------
(* Memory                                                                  *)

\* Places without a common address do not overlap.
LEMMA Disjoint ==
    ASSUME NEW o1 \in Nat, NEW s1 \in Nat, NEW o2 \in Nat, NEW s2 \in Nat,
           s1 > 0, s2 > 0, o1 + s1 <= Huge,
           \A x \in 0..Huge - 1 : ~(o1 <= x /\ x < o1 + s1 /\ o2 <= x /\ x < o2 + s2)
    PROVE  Separate(o1, s1, o2, s2)
<1> SUFFICES ASSUME o1 + s1 > o2, o2 + s2 > o1 PROVE FALSE BY DEF Separate
<1> DEFINE x == IF o1 >= o2 THEN o1 ELSE o2
<1>1. /\ x \in 0..Huge - 1 /\ o1 <= x /\ x < o1 + s1 /\ o2 <= x /\ x < o2 + s2
  BY HugeAssumption
<1> HIDE DEF x
<1> QED BY <1>1

\* What Tiled says of addresses, for any of its parts.
LEMMA TiledRead ==
    ASSUME Tiled, NEW x \in 0..Huge - 1
    PROVE  /\ IsFree(free_blocks, x) \/ \E t \in Tensors : InUse(t, x)
           /\ \A t \in Tensors : InUse(t, x) => ~IsFree(free_blocks, x)
           /\ \A t, u \in Tensors : InUse(t, x) /\ InUse(u, x) => t = u
BY DEF Tiled

\* Two allocated tensors lie apart.
LEMMA AllocatedApart ==
    ASSUME WellFormed(graph), HashType, Tiled,
           NEW t \in Tensors, NEW u \in Tensors, t # u, HasMemory(t), HasMemory(u),
           allocated[t], allocated[u]
    PROVE  Separate(offset[t], Size(t), offset[u], Size(u))
<1>1. /\ offset[t] \in Nat /\ offset[u] \in Nat /\ Size(t) \in Nat /\ Size(u) \in Nat
      /\ Size(t) > 0 /\ Size(u) > 0
  BY Roots DEF HashType
<1>2. offset[t] + Size(t) <= Huge BY DEF Tiled
<1>3. \A x \in 0..Huge - 1 : ~(InUse(t, x) /\ InUse(u, x)) BY TiledRead
<1> QED BY <1>1, <1>2, <1>3, Disjoint DEF InUse, Size

\* Memory from the buffer was free.
LEMMA PlacedFromBuffer ==
    ASSUME WellFormed(graph), HashType, Tiled, UNCHANGED graph,
           NEW t \in Tensors, HasMemory(t), ~allocated[t], FromBuffer(t)
    PROVE  /\ Tiled' /\ max_size' \in Nat /\ max_size <= max_size'
           /\ offset' \in [Tensors -> Nat] /\ allocated' \in [Tensors -> BOOLEAN]
           /\ offset'[t] + Size(t) <= max_size'
           /\ \A u \in Tensors : u # t => offset'[u] = offset[u] /\ allocated'[u] = allocated[u]
           /\ allocated'[t]
           /\ \A u \in Tensors : HasMemory(u) /\ allocated[u] =>
                 Separate(offset'[t], Size(t), offset[u], Size(u))
<1> DEFINE s == Size(t)  i == BestFit(free_blocks, s)  o == free_blocks[i].offset
<1>1. s \in Nat /\ s > 0 BY Roots
<1>2. /\ i \in 1..Len(free_blocks) /\ free_blocks[i].size >= s
      /\ allocated' = [allocated EXCEPT ![t] = TRUE]
      /\ offset' = [offset EXCEPT ![t] = o]
      /\ free_blocks' = Taken(free_blocks, i, s)
      /\ max_size' = IF o + s > max_size THEN o + s ELSE max_size
  BY DEF FromBuffer, HasRoom, Size
<1> HIDE DEF s, i
<1>3. /\ o \in Nat /\ free_blocks[i].size \in Nat
      /\ EndOf(free_blocks[i]) = o + free_blocks[i].size /\ EndOf(free_blocks[i]) <= Huge
  BY <1>2, BlocksRead DEF Tiled
<1>4. /\ BlocksOK(free_blocks')
      /\ \A x \in Nat : IsFree(free_blocks', x) <=>
            IsFree(free_blocks, x) /\ ~(o <= x /\ x < o + s)
  BY <1>1, <1>2, TakenBlocks DEF Tiled
<1>5. \A x \in Nat : o <= x /\ x < o + s => IsFree(free_blocks, x)
  BY <1>1, <1>2, <1>3 DEF IsFree
<1> HIDE DEF o
<1>6. /\ max_size' \in Nat /\ max_size <= max_size' /\ o + s <= max_size' /\ o + s <= Huge
      /\ offset' \in [Tensors -> Nat] /\ allocated' \in [Tensors -> BOOLEAN]
      /\ \A u \in Tensors : u # t => offset'[u] = offset[u] /\ allocated'[u] = allocated[u]
      /\ allocated'[t] /\ offset'[t] = o
  <2>1. o + s <= Huge BY ONLY <1>1, <1>2, <1>3, HugeAssumption
  <2>2. max_size \in Nat BY DEF HashType
  <2>3. max_size' \in Nat /\ max_size <= max_size' /\ o + s <= max_size'
    BY ONLY <1>1, <1>2, <1>3, <2>2
  <2>4. /\ offset' \in [Tensors -> Nat] /\ allocated' \in [Tensors -> BOOLEAN]
        /\ \A u \in Tensors : u # t => offset'[u] = offset[u] /\ allocated'[u] = allocated[u]
        /\ allocated'[t] /\ offset'[t] = o
    BY <1>2, <1>3 DEF HashType
  <2> QED BY <2>1, <2>3, <2>4
<1>7. \A u \in Tensors, x \in Nat :
         InUse(u, x)' <=> IF u = t THEN o <= x /\ x < o + s ELSE InUse(u, x)
  BY <1>6 DEF InUse, s, Size, Tensors
<1>8. Tiled'
  <2>1. \A u \in Tensors : allocated'[u] => offset'[u] + Size(u) <= Huge
    BY <1>6 DEF Tiled, s
  <2>2. \A u \in Tensors : (allocated[u] => offset[u] + Size(u) <= Huge)'
    BY <2>1 DEF Size, Tensors
  <2>3. ASSUME NEW x \in 0..Huge - 1
        PROVE  /\ IsFree(free_blocks', x) \/ \E u \in Tensors : InUse(u, x)'
               /\ \A u \in Tensors : InUse(u, x)' => ~IsFree(free_blocks', x)
               /\ \A u, v \in Tensors : InUse(u, x)' /\ InUse(v, x)' => u = v
    <3>1. x \in Nat BY HugeAssumption
    <3>2. /\ IsFree(free_blocks, x) \/ \E u \in Tensors : InUse(u, x)
          /\ \A u \in Tensors : InUse(u, x) => ~IsFree(free_blocks, x)
          /\ \A u, v \in Tensors : InUse(u, x) /\ InUse(v, x) => u = v
      BY TiledRead
    <3>3. ~InUse(t, x) BY DEF InUse
    <3>4. \A u \in Tensors :
             InUse(u, x)' <=> IF u = t THEN o <= x /\ x < o + s ELSE InUse(u, x)
      BY <3>1, <1>7
    <3>5. /\ IsFree(free_blocks', x) <=> IsFree(free_blocks, x) /\ ~(o <= x /\ x < o + s)
          /\ o <= x /\ x < o + s => IsFree(free_blocks, x)
      BY <3>1, <1>4, <1>5
    <3> QED BY <3>2, <3>3, <3>4, <3>5
  <2> QED BY <2>2, <2>3, <1>4 DEF Tiled, Tensors
<1>9. ASSUME NEW u \in Tensors, HasMemory(u), allocated[u]
      PROVE  Separate(o, s, offset[u], Size(u))
  <2>1. offset[u] \in Nat /\ Size(u) \in Nat /\ Size(u) > 0 BY <1>9, Roots DEF HashType
  <2>2. ASSUME NEW x \in 0..Huge - 1
        PROVE  ~(o <= x /\ x < o + s /\ offset[u] <= x /\ x < offset[u] + Size(u))
    <3>1. x \in Nat BY HugeAssumption
    <3>2. InUse(u, x) => ~IsFree(free_blocks, x) BY TiledRead
    <3> QED BY <3>1, <3>2, <1>5, <1>9 DEF InUse, Size
  <2> QED BY <2>1, <2>2, <1>1, <1>3, <1>6, Disjoint
<1> QED BY <1>6, <1>8, <1>9 DEF s

\* A parent hands its memory on.
LEMMA PlacedInPlace ==
    ASSUME WellFormed(graph), HashType, Tiled, UNCHANGED graph,
           NEW t \in Tensors, NEW p \in Tensors, t # p, ~allocated[t], allocated[p],
           graph[t].size = graph[p].size, InPlace(t, p)
    PROVE  /\ Tiled' /\ max_size' = max_size
           /\ offset' \in [Tensors -> Nat] /\ allocated' \in [Tensors -> BOOLEAN]
           /\ \A u \in Tensors : u # t => offset'[u] = offset[u]
           /\ \A u \in Tensors : u # t /\ u # p => allocated'[u] = allocated[u]
           /\ offset'[t] = offset[p] /\ allocated'[t] /\ ~allocated'[p]
<1>1. /\ offset' \in [Tensors -> Nat] /\ allocated' \in [Tensors -> BOOLEAN]
      /\ \A u \in Tensors : u # t => offset'[u] = offset[u]
      /\ \A u \in Tensors : u # t /\ u # p => allocated'[u] = allocated[u]
      /\ offset'[t] = offset[p] /\ allocated'[t] /\ ~allocated'[p]
      /\ free_blocks' = free_blocks /\ max_size' = max_size
  BY DEF InPlace, HashType, talloc
<1>2. Size(t) = Size(p) BY DEF Size
<1>3. \A u \in Tensors, x \in Nat :
         InUse(u, x)' <=> IF u = t THEN InUse(p, x) ELSE u # p /\ InUse(u, x)
  BY <1>1, <1>2 DEF InUse, Size, Tensors
<1>4. \A u \in Tensors : (allocated[u] => offset[u] + Size(u) <= Huge)'
  BY <1>1, <1>2 DEF Tiled, Size, Tensors
<1>5. ASSUME NEW x \in 0..Huge - 1
      PROVE  /\ IsFree(free_blocks', x) \/ \E u \in Tensors : InUse(u, x)'
             /\ \A u \in Tensors : InUse(u, x)' => ~IsFree(free_blocks', x)
             /\ \A u, v \in Tensors : InUse(u, x)' /\ InUse(v, x)' => u = v
  <2>1. \A u \in Tensors :
           InUse(u, x)' <=> IF u = t THEN InUse(p, x) ELSE u # p /\ InUse(u, x)
    BY <1>3, HugeAssumption
  <2>2. ~InUse(t, x) BY DEF InUse
  <2> QED BY <2>1, <2>2, <1>1, TiledRead
<1> QED BY <1>1, <1>4, <1>5 DEF Tiled, Tensors

\* ggml_gallocr_free_node: the memory of an allocated tensor is free again.
LEMMA FreedNode ==
    ASSUME WellFormed(graph), HashType, Tiled, UNCHANGED <<graph, offset>>,
           NEW t \in Tensors, HasMemory(t), allocated[t], FreeNode(t)
    PROVE  /\ Tiled' /\ allocated' \in [Tensors -> BOOLEAN]
           /\ \A u \in Tensors : allocated'[u] <=> allocated[u] /\ (u = t => graph[t].out)
<1>1. CASE graph[t].out
  <2>1. allocated' = allocated /\ free_blocks' = free_blocks BY <1>1 DEF FreeNode
  <2>2. Tiled' BY <2>1 DEF Tiled, InUse, Size, Tensors
  <2> QED BY <2>1, <2>2, <1>1 DEF HashType
<1>2. CASE ~graph[t].out
  <2> DEFINE s == Size(t)  o == offset[t]
  <2>1. s \in Nat /\ s > 0 /\ o \in Nat /\ o + s <= Huge BY Roots DEF HashType, Tiled
  <2>2. /\ allocated' = [allocated EXCEPT ![t] = FALSE]
        /\ free_blocks' = Returned(free_blocks, o, s)
    BY <1>2 DEF FreeNode, Size
  <2>3. \A x \in Nat : InUse(t, x) <=> o <= x /\ x < o + s BY DEF InUse, Size
  <2> HIDE DEF s, o
  <2>4. \A x \in Nat : o <= x /\ x < o + s => ~IsFree(free_blocks, x)
    <3> SUFFICES ASSUME NEW x \in Nat, o <= x, x < o + s PROVE ~IsFree(free_blocks, x)
      OBVIOUS
    <3>1. x \in 0..Huge - 1 BY <2>1, HugeAssumption
    <3> QED BY <3>1, <2>3, TiledRead
  <2>5. /\ BlocksOK(free_blocks')
        /\ \A x \in Nat : IsFree(free_blocks', x) <=>
              IsFree(free_blocks, x) \/ (o <= x /\ x < o + s)
    <3>1. BlocksOK(free_blocks) BY DEF Tiled
    <3> QED BY <3>1, <2>1, <2>2, <2>4, ReturnedBlocks
  <2>6. /\ allocated' \in [Tensors -> BOOLEAN]
        /\ \A u \in Tensors : allocated'[u] <=> allocated[u] /\ u # t
    BY <2>2 DEF HashType
  <2>7. \A u \in Tensors, x \in Nat : InUse(u, x)' <=> u # t /\ InUse(u, x)
    BY <2>6 DEF InUse, Tensors
  <2>8. \A u \in Tensors : (allocated[u] => offset[u] + Size(u) <= Huge)'
    BY <2>6 DEF Tiled, Size, Tensors
  <2>9. ASSUME NEW x \in 0..Huge - 1
        PROVE  /\ IsFree(free_blocks', x) \/ \E u \in Tensors : InUse(u, x)'
               /\ \A u \in Tensors : InUse(u, x)' => ~IsFree(free_blocks', x)
               /\ \A u, v \in Tensors : InUse(u, x)' /\ InUse(v, x)' => u = v
    <3>1. x \in Nat BY HugeAssumption
    <3>2. /\ \A u \in Tensors : InUse(u, x)' <=> u # t /\ InUse(u, x)
          /\ InUse(t, x) <=> o <= x /\ x < o + s
          /\ IsFree(free_blocks', x) <=> IsFree(free_blocks, x) \/ (o <= x /\ x < o + s)
      BY <3>1, <2>3, <2>5, <2>7
    <3> QED BY <3>2, TiledRead
  <2>10. Tiled' BY <2>5, <2>8, <2>9 DEF Tiled, Tensors
  <2> QED BY <2>6, <2>10, <1>2
<1> QED BY <1>1, <1>2

-----------------------------------------------------------------------------
(* Counts                                                                  *)

LEMMA FiniteCounts ==
    ASSUME WellFormed(graph), NEW p
    PROVE  /\ IsFiniteSet(Readers(p)) /\ IsFiniteSet(Pending(p))
           /\ IsFiniteSet(ViewsOf(p)) /\ IsFiniteSet(Live(p))
<1>1. IsFiniteSet(1..Len(graph)) /\ IsFiniteSet(1..MaxSrc)
  BY Shape, GraphAssumption, FS_Interval
<1>2. IsFiniteSet(Nodes)
  <2>1. Nodes \in SUBSET (1..Len(graph)) BY DEF Nodes, Tensors
  <2> QED BY <2>1, <1>1, FS_Subset
<1>3. IsFiniteSet(Nodes \X (1..MaxSrc)) BY <1>1, <1>2, FS_Product
<1>4. Readers(p) \in SUBSET (Nodes \X (1..MaxSrc)) /\ ViewsOf(p) \in SUBSET Nodes
  BY DEF Readers, ViewsOf
<1>5. IsFiniteSet(Readers(p)) /\ IsFiniteSet(ViewsOf(p)) BY <1>2, <1>3, <1>4, FS_Subset
<1>6. Pending(p) \in SUBSET Readers(p) /\ Live(p) \in SUBSET ViewsOf(p) BY DEF Pending, Live
<1> QED BY <1>5, <1>6, FS_Subset

LEMMA CountsRead ==
    ASSUME WellFormed(graph), Counts, NEW t \in Tensors
    PROVE  /\ n_children[t] \in Nat /\ n_views[t] \in Nat
           /\ n_children[t] = 0 <=> Pending(t) = {}
           /\ n_views[t] = 0 <=> Live(t) = {}
<1>1. n_children[t] = Cardinality(Pending(t)) /\ n_views[t] = Cardinality(Live(t)) BY DEF Counts
<1>2. IsFiniteSet(Pending(t)) /\ IsFiniteSet(Live(t)) BY FiniteCounts
<1>3. /\ Cardinality(Pending(t)) \in Nat /\ Cardinality(Live(t)) \in Nat
  BY <1>2, FS_CardinalityType
<1>4. /\ Cardinality(Pending(t)) = 0 <=> Pending(t) = {}
      /\ Cardinality(Live(t)) = 0 <=> Live(t) = {}
  BY <1>2, FS_EmptySet
<1> QED BY <1>1, <1>3, <1>4

\* A source of a node that is still to be planned.
LEMMA PendingRead ==
    ASSUME WellFormed(graph), NEW i \in Tensors, NEW j \in 1..Len(Src(i)),
           i > at \/ (i = at /\ (stage = "release" => j >= arg))
    PROVE  <<i, j>> \in Pending(Src(i)[j])
<1>1. i \in Nodes /\ Len(Src(i)) \in Nat /\ Len(Src(i)) <= MaxSrc BY Sources, Shape
<1>2. j \in 1..MaxSrc BY <1>1, GraphAssumption
<1> QED BY <1>1, <1>2 DEF Readers, Pending

\* A view that is an output counts until the end of the plan.
LEMMA KeptCounts ==
    ASSUME WellFormed(graph), Counts, NEW r \in Tensors, Kept(r)
    PROVE  graph[r].out \/ n_views[r] > 0
<1> SUFFICES ASSUME NEW v \in Nodes, IsView(v), graph[v].out, Root(v) = r PROVE n_views[r] > 0
  BY DEF Kept
<1>1. v \in Tensors BY DEF Nodes
<1>2. graph[v].kind = "view" /\ \A i \in Tensors : ~Reads(graph, i, v)
  BY <1>1 DEF WellFormed, Tensors, IsView
<1>3. Readers(v) = {}
  <2> SUFFICES ASSUME NEW x \in Readers(v) PROVE FALSE OBVIOUS
  <2>1. /\ x[1] \in Tensors /\ x[2] \in Nat \ {0} /\ x[2] <= Len(Src(x[1]))
        /\ Src(x[1])[x[2]] = v
    BY DEF Readers, Nodes
  <2>2. Len(Src(x[1])) \in Nat BY <2>1, Shape
  <2>3. x[2] \in 1..Len(Src(x[1])) BY <2>1, <2>2
  <2> QED BY <2>1, <2>3, <1>2 DEF Reads, Src
<1>4. v \in Live(r) BY <1>1, <1>2, <1>3 DEF Live, ViewsOf, CountsAsView, Root
<1>5. n_views[r] # 0 /\ n_views[r] \in Nat BY <1>4, CountsRead
<1> QED BY <1>5

\* What is read later counts.
LEMMA ReadLater ==
    ASSUME WellFormed(graph), Counts, NEW t \in Tensors, NEW i \in ReadsOf(t),
           i > at \/ (i = at /\ stage # "release")
    PROVE  \/ n_children[t] > 0 /\ \E j \in 1..Len(Src(i)) : <<i, j>> \in Pending(t)
           \/ n_views[t] > 0
<1>1. i \in Tensors BY DEF ReadsOf, Nodes
<1>2. PICK j \in 1..Len(Src(i)) : Root(Src(i)[j]) = t BY DEF ReadsOf
<1> DEFINE v == Src(i)[j]
<1>3. v \in Tensors /\ graph[v].kind # "dep" BY <1>1, Sources
<1>4. <<i, j>> \in Pending(v) BY <1>1, PendingRead
<1> HIDE DEF v
<1>5. CASE IsView(v)
  <2>1. graph[v].kind = "view" /\ v \in Nodes /\ graph[v].view_src = t
    BY <1>2, <1>3, <1>5, Roots DEF v, IsView, Viewing, Nodes, Before
  <2>2. v \in Live(t) BY <2>1, <1>4 DEF Live, ViewsOf, CountsAsView
  <2>3. n_views[t] # 0 /\ n_views[t] \in Nat BY <2>2, CountsRead
  <2> QED BY <2>3
<1>6. CASE ~IsView(v)
  <2>1. v = t BY <1>2, <1>3, <1>6, Roots DEF v
  <2>2. n_children[t] # 0 /\ n_children[t] \in Nat BY <2>1, <1>4, CountsRead
  <2> QED BY <2>1, <2>2, <1>4
<1> QED BY <1>5, <1>6

\* The only reader that is left.
LEMMA LastRead ==
    ASSUME WellFormed(graph), Counts, at \in Tensors, stage # "release",
           NEW p \in Tensors, n_children[p] = 1, n_views[p] = 0,
           NEW j \in 1..Len(Src(at)), Src(at)[j] = p
    PROVE  \A i \in ReadsOf(p) : i <= at
<1> SUFFICES ASSUME NEW i \in ReadsOf(p), ~(i <= at) PROVE FALSE OBVIOUS
<1>1. i \in Tensors /\ i > at BY Shape DEF ReadsOf, Nodes, Tensors
<1>2. PICK k \in 1..Len(Src(i)) : <<i, k>> \in Pending(p) BY <1>1, ReadLater
<1>3. <<at, j>> \in Pending(p) BY PendingRead
<1>4. IsFiniteSet(Pending(p)) /\ Cardinality(Pending(p)) = 1 BY FiniteCounts DEF Counts
<1>5. \E x : Pending(p) = {x} BY <1>4, FS_Singleton
<1>6. <<i, k>> = <<at, j>> BY <1>2, <1>3, <1>5
<1>7. i = at BY <1>6
<1> QED BY <1>1, <1>7, Shape DEF Tensors

\* A graph that stays, and what is derived from it.
LEMMA SameGraph ==
    ASSUME UNCHANGED graph
    PROVE  /\ Tensors' = Tensors /\ Nodes' = Nodes
           /\ \A t : Src(t)' = Src(t)
           /\ \A t : Readers(t)' = Readers(t)
           /\ \A t : ViewsOf(t)' = ViewsOf(t)
           /\ \A t : ReadsOf(t)' = ReadsOf(t)
           /\ \A t : HasMemory(t)' <=> HasMemory(t)
           /\ \A t : IsView(t)' <=> IsView(t)
           /\ \A t : Root(t)' = Root(t)
           /\ \A t : Size(t)' = Size(t)
           /\ \A t : Kept(t)' <=> Kept(t)
BY DEF Tensors, Nodes, Src, Readers, ViewsOf, CountsAsView, ReadsOf, HasMemory, IsView, Root, Size, Kept

\* Counts do not change when no read is released.
LEMMA SameCounts ==
    ASSUME WellFormed(graph), Counts, UNCHANGED <<graph, n_children, n_views>>,
           \A i \in Nodes, j \in Nat \ {0} :
              (i > at \/ (i = at /\ (stage = "release" => j >= arg)))' <=>
              i > at \/ (i = at /\ (stage = "release" => j >= arg))
    PROVE  Counts'
<1>1. \A p : Pending(p)' = Pending(p)
  <2> TAKE p
  <2>1. Readers(p)' = Readers(p) BY SameGraph
  <2>2. \A r \in Readers(p) : r[1] \in Nodes /\ r[2] \in Nat \ {0} BY DEF Readers
  <2> QED BY <2>1, <2>2 DEF Pending
<1>2. \A r : Live(r)' = Live(r)
  <2>1. \A r : ViewsOf(r)' = ViewsOf(r) /\ Readers(r)' = Readers(r) BY SameGraph
  <2> QED BY <2>1, <1>1 DEF Live
<1>3. Tensors' = Tensors BY SameGraph
<1> QED BY <1>1, <1>2, <1>3 DEF Counts

-----------------------------------------------------------------------------
(* Steps of the plan                                                       *)

\* Where the loops are, in numbers.
LEMMA Place ==
    ASSUME WellFormed(graph), Planned
    PROVE  /\ at \in Nat /\ arg \in Nat /\ Len(graph) \in Nat
           /\ Tensors \subseteq Nat
           /\ \A t \in Tensors : allocated[t] => HasMemory(t) /\ Visited(t)
           /\ stage # "release" /\ at \in Tensors => ~allocated[at]
<1>1. at \in Nat /\ arg \in Nat /\ Len(graph) \in Nat BY Shape DEF Planned, Cursor
<1>2. \A t \in Tensors : allocated[t] => HasMemory(t) /\ Visited(t)
  BY DEF Planned, GivenBack, Visited
<1> QED BY <1>1, <1>2 DEF Visited, Tensors

\* A visited tensor that something not yet planned reads is allocated.
LEMMA StillHeld ==
    ASSUME WellFormed(graph), Planned, stage # "release",
           NEW r \in Tensors, HasMemory(r), r < at,
           Kept(r) \/ \E i \in ReadsOf(r) : i >= at
    PROVE  allocated[r]
<1>1. Needed(r)
  <2>1. CASE Kept(r) BY <2>1, KeptCounts DEF Needed, Planned
  <2>2. ASSUME NEW i \in ReadsOf(r), i >= at PROVE Needed(r)
    <3>1. i \in Nat /\ at \in Nat BY Place DEF ReadsOf, Nodes
    <3>2. i > at \/ i = at BY <2>2, <3>1
    <3>3. n_children[r] > 0 \/ n_views[r] > 0 BY <3>2, ReadLater DEF Planned
    <3> QED BY <3>3 DEF Needed
  <2> QED BY <2>1, <2>2
<1> QED BY <1>1 DEF Planned, Held, Visited, TakenOver

\* A source of the node at hand is allocated already.
LEMMA SourceHeld ==
    ASSUME WellFormed(graph), Planned, stage # "release", at \in Tensors,
           NEW j \in 1..Len(Src(at)), HasMemory(Src(at)[j])
    PROVE  allocated[Src(at)[j]]
<1> DEFINE p == Src(at)[j]
<1>1. p \in Tensors /\ p < at /\ at \in Nodes BY Sources
<1>2. Root(p) = p BY <1>1, Roots
<1>3. at \in ReadsOf(p) BY <1>1, <1>2 DEF ReadsOf
<1>4. at >= at BY Place
<1> QED BY <1>1, <1>3, <1>4, StillHeld

\* ggml_gallocr_allocate_node for the tensor at hand.
Settled(t) ==
    /\ Tiled' /\ max_size' \in Nat /\ max_size <= max_size'
    /\ offset' \in [Tensors -> Nat] /\ allocated' \in [Tensors -> BOOLEAN]
    /\ \A u \in Tensors : u # t => /\ offset'[u] = offset[u]
                                   /\ allocated'[u] => allocated[u]
    /\ \A u \in Tensors : u # t /\ allocated[u] /\ ~allocated'[u] =>
          /\ ~graph[u].out /\ n_children[u] = 1 /\ n_views[u] = 0
          /\ \E j \in 1..Len(Src(t)) : Src(t)[j] = u
    /\ allocated'[t] => HasMemory(t)
    /\ HasMemory(t) =>
          /\ allocated'[t] /\ offset'[t] + Size(t) <= max_size'
          /\ \A r \in Tensors : HasMemory(r) /\ r < t /\ WrittenWhile(t, r) =>
                Apart(t, r, offset', Sizes_)

LEMMA AllocateAt ==
    ASSUME WellFormed(graph), Planned, stage # "release", at \in Tensors, UNCHANGED graph,
           Before(graph, at) => \A r \in Tensors : r < at /\ HasMemory(r) => allocated[r],
           AllocateNode(at)
    PROVE  Settled(at) /\ UNCHANGED <<n_children, n_views>>
<1>1. /\ ~allocated[at] /\ at \in Nat /\ Tensors \subseteq Nat
      /\ \A t \in Tensors : allocated[t] => HasMemory(t) /\ Visited(t)
  BY Place
<1>2. UNCHANGED <<n_children, n_views>> BY DEF AllocateNode
<1>3. ASSUME NEW r \in Tensors, HasMemory(r), r < at, WrittenWhile(at, r) PROVE allocated[r]
  <2>1. CASE Before(graph, at) BY <2>1, <1>3
  <2>2. CASE ~Before(graph, at) BY <2>2, <1>3, StillHeld DEF WrittenWhile
  <2> QED BY <2>1, <2>2
<1>4. HashType /\ Tiled /\ Counts BY DEF Planned
<1>5. CASE ~HasMemory(at)
  <2>1. UNCHANGED <<allocated, offset, free_blocks, max_size>>
    BY <1>5 DEF AllocateNode, NeedsMemory, talloc
  <2>2. Tiled' BY <2>1, <1>4 DEF Tiled, InUse, Size, Tensors
  <2> QED BY <2>1, <2>2, <1>1, <1>2, <1>4, <1>5 DEF Settled, HashType
<1>6. CASE HasMemory(at) /\ Reusable(at) = {}
  <2>1. FromBuffer(at) BY <1>1, <1>6 DEF AllocateNode, NeedsMemory
  <2>2. /\ Tiled' /\ max_size' \in Nat /\ max_size <= max_size'
        /\ offset' \in [Tensors -> Nat] /\ allocated' \in [Tensors -> BOOLEAN]
        /\ offset'[at] + Size(at) <= max_size'
        /\ \A u \in Tensors : u # at => offset'[u] = offset[u] /\ allocated'[u] = allocated[u]
        /\ allocated'[at]
        /\ \A u \in Tensors : HasMemory(u) /\ allocated[u] =>
              Separate(offset'[at], Size(at), offset[u], Size(u))
    BY <2>1, <1>1, <1>4, <1>6, PlacedFromBuffer
  <2>3. ASSUME NEW r \in Tensors, HasMemory(r), r < at, WrittenWhile(at, r)
        PROVE  Apart(at, r, offset', Sizes_)
    <3>1. allocated[r] /\ r # at BY <2>3, <1>1, <1>3
    <3>2. Separate(offset'[at], Size(at), offset'[r], Size(r)) BY <3>1, <2>2, <2>3
    <3> QED BY <3>2 DEF Apart, Sizes_, Size
  <2> QED BY <2>2, <2>3, <1>2, <1>6 DEF Settled
<1>7. CASE HasMemory(at) /\ Reusable(at) # {}
  <2> DEFINE j == First(Reusable(at))  p == Src(at)[j]
  <2>1. j \in Reusable(at)
    <3>1. Reusable(at) \subseteq Nat BY DEF Reusable
    <3> QED BY <3>1, <1>7, FirstIsLeast
  <2>2. InPlace(at, p) BY <1>1, <1>7 DEF AllocateNode, NeedsMemory
  <2>3. /\ graph[at].kind = "inplace" /\ j \in 1..Len(Src(at))
        /\ allocated[p] /\ ~graph[p].out /\ graph[p].size = graph[at].size
        /\ n_children[p] = 1 /\ n_views[p] = 0
    BY <2>1, <1>7 DEF Reusable, CanReuse
  <2> HIDE DEF j
  <2>4. p \in Tensors /\ p < at /\ p # at BY <2>3, <1>1, Sources
  <2>5. ~Kept(p) /\ \A i \in ReadsOf(p) : i <= at BY <2>3, <2>4, <1>4, LastRead, KeptCounts
  <2>6. HasMemory(p) /\ Visited(p) BY <2>3, <2>4, <1>1
  <2>7. /\ Tiled' /\ max_size' = max_size
        /\ offset' \in [Tensors -> Nat] /\ allocated' \in [Tensors -> BOOLEAN]
        /\ \A u \in Tensors : u # at => offset'[u] = offset[u]
        /\ \A u \in Tensors : u # at /\ u # p => allocated'[u] = allocated[u]
        /\ offset'[at] = offset[p] /\ allocated'[at] /\ ~allocated'[p]
    <3> HIDE DEF p
    <3> QED BY <2>2, <2>3, <2>4, <1>1, <1>4, PlacedInPlace
  <2>8. max_size \in Nat /\ offset'[at] + Size(at) <= max_size
    <3>1. Size(at) = Size(p) BY <2>3 DEF Size
    <3>2. offset[p] + Size(p) <= max_size BY <2>4, <2>6 DEF Planned, Placed
    <3> QED BY <3>1, <3>2, <2>7, <1>4 DEF HashType
  <2>9. ASSUME NEW r \in Tensors, HasMemory(r), r < at, WrittenWhile(at, r)
        PROVE  Apart(at, r, offset', Sizes_)
    <3>1. allocated[r] /\ r # at /\ offset'[r] = offset[r] BY <2>9, <2>7, <1>1, <1>3
    <3>2. CASE r = p
      <4>1. offset'[at] = offset'[r] /\ Sizes_[at] = Sizes_[r] BY <3>1, <3>2, <2>3, <2>7 DEF Sizes_
      <4> QED BY <4>1, <3>2, <2>3, <2>5 DEF Apart
    <3>3. CASE r # p
      <4>1. Separate(offset[p], Size(p), offset[r], Size(r))
        BY <3>1, <3>3, <2>3, <2>4, <2>6, <2>9, <1>4, AllocatedApart
      <4>2. Separate(offset'[at], Size(at), offset'[r], Size(r))
        BY <4>1, <3>1, <2>3, <2>7 DEF Size
      <4> QED BY <4>2 DEF Apart, Sizes_, Size
    <3> QED BY <3>2, <3>3
  <2> HIDE DEF p
  <2>10. \A u \in Tensors : u # at /\ allocated[u] /\ ~allocated'[u] => u = p BY <2>7
  <2>11. Src(at)[j] = p BY DEF p
  <2>12. \A u \in Tensors : u # at => (allocated'[u] => allocated[u])
    BY <2>3, <2>7
  <2>13. max_size <= max_size' /\ max_size' \in Nat /\ offset'[at] + Size(at) <= max_size'
    BY <2>7, <2>8
  <2>14. \A u \in Tensors : u # at /\ allocated[u] /\ ~allocated'[u] =>
          /\ ~graph[u].out /\ n_children[u] = 1 /\ n_views[u] = 0
          /\ \E k \in 1..Len(Src(at)) : Src(at)[k] = u
    BY <2>3, <2>10, <2>11
  <2> QED BY <2>7, <2>9, <2>12, <2>13, <2>14, <1>2, <1>7 DEF Settled
<1> QED BY <1>5, <1>6, <1>7

\* Readers come after what they read.
LEMMA ReadersAfter ==
    ASSUME WellFormed(graph), NEW t \in Tensors, NEW i \in ReadsOf(t)
    PROVE  i \in Nodes /\ i \in Tensors /\ i > t
<1>1. i \in Nodes /\ i \in Tensors BY DEF ReadsOf, Nodes
<1>2. PICK j \in 1..Len(Src(i)) : Root(Src(i)[j]) = t BY DEF ReadsOf
<1> DEFINE v == Src(i)[j]
<1>3. v \in Tensors /\ v < i BY <1>1, Sources
<1>4. Root(v) = t BY <1>2
<1> HIDE DEF v
<1>5. t <= v
  <2>1. v \in Nat /\ t \in Nat BY <1>3, Shape DEF Tensors
  <2> QED BY <2>1, <1>3, <1>4, Roots
<1>6. v \in Nat /\ t \in Nat /\ i \in Nat BY <1>1, <1>3, Shape DEF Tensors
<1> QED BY <1>1, <1>3, <1>5, <1>6

LEMMA SamePlaces ==
    ASSUME UNCHANGED graph
    PROVE  /\ Sizes_' = Sizes_
           /\ \A t, r : WrittenWhile(t, r)' <=> WrittenWhile(t, r)
           /\ \A t, r : Apart(t, r, offset, Sizes_)' <=> Apart(t, r, offset', Sizes_)
<1>1. Sizes_' = Sizes_ BY DEF Sizes_, Tensors
<1>2. \A r : ReadsOf(r)' = ReadsOf(r) BY SameGraph
<1>3. \A r : Kept(r)' <=> Kept(r) BY SameGraph
<1> QED BY <1>1, <1>2, <1>3 DEF WrittenWhile, Apart

\* The plan after the tensor at hand has been given its memory.
LEMMA AfterAllocate ==
    ASSUME WellFormed(graph), Planned, stage # "release", at \in Tensors,
           UNCHANGED <<graph, n_children, n_views>>, Settled(at), Counts',
           \A t \in Tensors : Visited(t)' <=> Visited(t) \/ (t = at /\ HasMemory(at)),
           Before(graph, at) \/ (stage' = "release" /\ at' = at /\ arg' = 1)
    PROVE  HashType' /\ Counts' /\ Held' /\ GivenBack' /\ Tiled' /\ Placed'
<1>1. /\ Tensors' = Tensors
      /\ \A t : Src(t)' = Src(t)
      /\ \A t : ReadsOf(t)' = ReadsOf(t)
      /\ \A t : HasMemory(t)' <=> HasMemory(t)
      /\ \A t : Size(t)' = Size(t)
  BY SameGraph
<1>2. \A t : Needed(t)' <=> Needed(t) BY DEF Needed
<1>3. HashType'
  <2>1. HashType BY DEF Planned
  <2> QED BY <2>1, <1>1 DEF HashType, Settled
<1>4. \A t \in Tensors : Visited(t) => t < at /\ t # at BY Place DEF Visited
<1>5. Held'
  <2> SUFFICES ASSUME NEW t \in Tensors, Visited(t)', Needed(t)', ~allocated'[t]
               PROVE  TakenOver(t)'
    BY <1>1 DEF Held
  <2>1. t # at /\ Visited(t) /\ Needed(t) BY <1>2, <1>4 DEF Settled
  <2>2. allocated[t] BY <2>1 DEF Planned, Held, TakenOver
  <2>3. /\ ~graph[t].out /\ n_children[t] = 1 /\ n_views[t] = 0
        /\ \E j \in 1..Len(Src(at)) : Src(at)[j] = t
    BY <2>1, <2>2 DEF Settled
  <2>4. ~Before(graph, at) BY <2>3, Sources DEF Nodes
  <2>5. stage' = "release" /\ at' = at /\ arg' = 1 BY <2>4
  <2>6. \E j \in arg'..Len(Src(at)') : Src(at)'[j] = t BY <2>3, <2>5, <1>1
  <2>7. Src(at)' = graph'[at'].src BY DEF Src
  <2> QED BY <2>3, <2>5, <2>6, <2>7 DEF TakenOver, Src
<1>6. GivenBack'
  <2> SUFFICES ASSUME NEW t \in Tensors, allocated'[t]
               PROVE  Visited(t)' /\ (Needed(t)' \/ ReadsOf(t)' = {})
    BY <1>1 DEF GivenBack
  <2>1. CASE t = at
    <3>1. HasMemory(at) BY <2>1 DEF Settled
    <3>2. ASSUME NEW i \in ReadsOf(at) PROVE Needed(at)
      <4>1. i > at BY <3>2, ReadersAfter
      <4>2. n_children[at] > 0 \/ n_views[at] > 0 BY <4>1, ReadLater DEF Planned
      <4> QED BY <4>2 DEF Needed
    <3> QED BY <2>1, <3>1, <3>2, <1>1, <1>2
  <2>2. CASE t # at
    <3>1. allocated[t] BY <2>2 DEF Settled
    <3>2. Visited(t) /\ (Needed(t) \/ ReadsOf(t) = {}) BY <3>1 DEF Planned, GivenBack
    <3> QED BY <3>2, <1>1, <1>2
  <2> QED BY <2>1, <2>2
<1>7. Placed'
  <2>1. ASSUME NEW t \in Tensors, Visited(t)' PROVE offset'[t] + Size(t) <= max_size'
    <3>1. CASE t = at BY <3>1, <2>1, <1>4 DEF Settled
    <3>2. CASE t # at
      <4>1. /\ offset[t] + Size(t) <= max_size /\ offset'[t] = offset[t]
            /\ max_size <= max_size' /\ max_size' \in Nat
        BY <3>2, <2>1 DEF Planned, Placed, Settled
      <4>2. max_size \in Nat /\ offset[t] \in Nat BY DEF Planned, HashType
      <4>3. Size(t) \in Nat
        <5>1. HasMemory(t) BY <2>1, <3>2 DEF Visited
        <5> QED BY <5>1, Roots
      <4> QED BY <4>1, <4>2, <4>3
    <3> QED BY <3>1, <3>2
  <2>2. ASSUME NEW t \in Tensors, NEW r \in Tensors, Visited(t)', Visited(r)', r < t,
               WrittenWhile(t, r)
        PROVE  Apart(t, r, offset', Sizes_)
    <3>0. HasMemory(r) /\ t \in Nat /\ r \in Nat /\ at \in Nat
      BY <2>2, Place DEF Visited
    <3>1. CASE t = at BY <3>0, <3>1, <2>2, <1>4 DEF Settled
    <3>2. CASE t # at
      <4>1. Visited(t) /\ t < at BY <3>2, <2>2, <1>4
      <4>2. r # at BY <4>1, <3>0, <2>2
      <4>3. Visited(r) BY <4>2, <2>2
      <4>4. Apart(t, r, offset, Sizes_) BY <4>1, <4>3, <2>2 DEF Planned, Placed
      <4>5. offset'[t] = offset[t] /\ offset'[r] = offset[r] BY <3>2, <4>2 DEF Settled
      <4> QED BY <4>4, <4>5 DEF Apart
    <3> QED BY <3>1, <3>2
  <2> QED BY <2>1, <2>2, <1>1, SamePlaces DEF Placed
<1> QED BY <1>3, <1>5, <1>6, <1>7 DEF Settled

LEMMA StillPlanning ==
    ASSUME Inv, UNCHANGED <<graph, buffer>>, stage' \in {"leafs", "parents", "release"}, Planned'
    PROVE  Inv'
BY DEF Inv, Stages

\* A step of the loops that leaves all tensors as they are.
LEMMA NothingMoved ==
    ASSUME Planned, UNCHANGED <<graph, hashVars, talloc>>, Cursor', Counts',
           \A t \in Tensors : Visited(t)' <=> Visited(t), \A t : TakenOver(t) => TakenOver(t)'
    PROVE  Planned'
<1>1. UNCHANGED <<n_children, n_views, offset, allocated, free_blocks, max_size>>
  BY DEF hashVars, talloc
<1>2. Tensors' = Tensors BY SameGraph
<1>3. HashType' BY <1>1, <1>2 DEF Planned, HashType
<1>4. \A t : Needed(t)' <=> Needed(t) BY <1>1 DEF Needed
<1>5. Held' BY <1>1, <1>2, <1>4 DEF Planned, Held
<1>6. GivenBack'
  <2>1. \A t : ReadsOf(t)' = ReadsOf(t) BY SameGraph
  <2> QED BY <2>1, <1>1, <1>2, <1>4 DEF Planned, GivenBack
<1>7. Tiled' BY <1>1, <1>2 DEF Planned, Tiled, InUse, Size
<1>8. Placed'
  <2>1. \A t : Size(t)' = Size(t) BY SameGraph
  <2>2. \A t, r : /\ WrittenWhile(t, r)' <=> WrittenWhile(t, r)
                  /\ Apart(t, r, offset, Sizes_)' <=> Apart(t, r, offset, Sizes_)
    BY <1>1, SamePlaces
  <2> QED BY <2>1, <2>2, <1>1, <1>2 DEF Planned, Placed
<1> QED BY <1>3, <1>5, <1>6, <1>7, <1>8 DEF Planned

\* ggml_gallocr_alloc_graph_impl, one action at a time.
LEMMA PlanLeafStep ==
    ASSUME Inv, PlanLeaf
    PROVE  Inv'
<1>1. /\ stage = "leafs" /\ WellFormed(graph) /\ Planned
      /\ graph' = graph /\ buffer' = buffer /\ arg' = arg
  BY DEF PlanLeaf, Inv, Planning, graphVars
<1>2. /\ at \in Nat /\ arg = 1 /\ Len(graph) \in Nat /\ Tensors \subseteq Nat
      /\ at \in 1..Len(graph) + 1 /\ LeafsRead(graph)
      /\ \A t \in Tensors : t < at => Before(graph, t)
  BY <1>1, Place DEF Planned, Cursor, Tensors
<1>3. Tensors' = Tensors /\ Nodes' = Nodes BY <1>1, SameGraph
<1>4. CASE at \in Tensors \ Nodes
  <2>1. AllocateNode(at) /\ at' = at + 1 /\ stage' = "leafs" BY <1>1, <1>4 DEF PlanLeaf
  <2>2. Before(graph, at) BY <1>4 DEF Nodes
  <2>3. Cursor'
    <3>1. at' \in 1..Len(graph') + 1 BY <1>1, <1>2, <1>4, <2>1 DEF Tensors
    <3>2. \A t \in 1..at' - 1 : Before(graph', t)
      BY <1>1, <1>2, <1>4, <2>1, <2>2 DEF Tensors
    <3> QED BY <3>1, <3>2, <1>1, <1>2, <2>1 DEF Cursor
  <2>4. Counts'
    <3>1. \A i \in Nodes : i \in Nat /\ i # at BY <1>2, <1>4 DEF Nodes
    <3>4. \A i \in Nodes, j \in Nat \ {0} :
             (i > at \/ (i = at /\ (stage = "release" => j >= arg)))' <=>
             i > at \/ (i = at /\ (stage = "release" => j >= arg))
      <4> SUFFICES ASSUME NEW i \in Nodes, NEW j \in Nat \ {0}
                   PROVE  (i > at' \/ (i = at' /\ (stage' = "release" => j >= arg'))) <=>
                          (i > at \/ (i = at /\ (stage = "release" => j >= arg)))
        BY <1>3
      <4>1. ~Before(graph, i) BY DEF Nodes
      <4>2. i \in Nat /\ i >= at
        BY <1>2, <4>1 DEF Nodes
      <4>3. i > at BY <3>1, <4>2, <1>2
      <4> QED BY <4>2, <4>3, <1>1, <1>2, <2>1
    <3>5. UNCHANGED <<n_children, n_views>> BY <2>1 DEF AllocateNode
    <3> QED BY <3>4, <3>5, <1>1, SameCounts DEF Planned
  <2>5. \A r \in Tensors : r < at /\ HasMemory(r) => allocated[r]
    <3> SUFFICES ASSUME NEW r \in Tensors, r < at, HasMemory(r) PROVE allocated[r] OBVIOUS
    <3>1. graph[r].kind = "leaf" BY <1>2 DEF HasMemory, OwnsMemory, Before
    <3>2. PICK i \in 1..Len(graph) : \E j \in 1..Len(graph[i].src) : graph[i].src[j] = r
      BY <3>1, <1>2 DEF LeafsRead, Tensors, Reads
    <3>3. PICK j \in 1..Len(Src(i)) : Src(i)[j] = r BY <3>2 DEF Src
    <3>4. i \in Tensors /\ i \in Nodes BY <3>2, <3>3, <1>1, Sources DEF Tensors
    <3>5. i > at
      <4>1. ~Before(graph, i) /\ i # at BY <3>4, <1>4 DEF Nodes
      <4> QED BY <4>1, <3>4, <1>2
    <3>6. Root(r) = r BY <1>1, Roots
    <3>7. i \in ReadsOf(r) BY <3>3, <3>4, <3>6 DEF ReadsOf
    <3>8. \E k \in ReadsOf(r) : k >= at BY <3>5, <3>7, <1>2, <3>4
    <3> QED BY <3>8, <1>1, StillHeld
  <2>6. Settled(at) /\ UNCHANGED <<n_children, n_views>>
    BY <1>1, <1>4, <2>1, <2>5, AllocateAt
  <2>7. \A t \in Tensors : Visited(t)' <=> Visited(t) \/ (t = at /\ HasMemory(at))
    <3> TAKE t \in Tensors
    <3>1. t < at' <=> t < at \/ t = at BY <1>2, <2>1
    <3>2. HasMemory(t)' <=> HasMemory(t) BY <1>1, SameGraph
    <3> QED BY <3>1, <3>2, <1>1, <2>1 DEF Visited
  <2>8. HashType' /\ Counts' /\ Held' /\ GivenBack' /\ Tiled' /\ Placed'
    BY <1>1, <1>4, <2>2, <2>4, <2>6, <2>7, AfterAllocate
  <2>9. Planned' BY <2>3, <2>8 DEF Planned
  <2> QED BY <2>1, <2>9, <1>1, StillPlanning
<1>5. CASE at \notin Tensors \ Nodes
  <2>1. stage' = "parents" /\ UNCHANGED <<at, hashVars, talloc>> BY <1>1, <1>5 DEF PlanLeaf
  <2>2. \A t \in Tensors : Before(graph, t) => t < at
    <3> SUFFICES ASSUME NEW t \in Tensors, Before(graph, t), t >= at PROVE FALSE BY <1>2
    <3>1. at \in Tensors BY <1>2 DEF Tensors
    <3>2. ~Before(graph, at) BY <3>1, <1>5 DEF Nodes
    <3>3. \A u \in 1..t : Before(graph, u) BY <1>1, Shape
    <3> QED BY <3>1, <3>2, <3>3, <1>2
  <2>3. Cursor'
    <3>1. \A t \in Tensors : (Before(graph, t) => t < at)' BY <2>1, <2>2, <1>1
    <3>2. at' \in Tensors' => arg' <= Len(Src(at)') + 1
      <4>1. Src(at)' = Src(at) BY <1>1, <2>1 DEF Src
      <4> QED BY <4>1, <1>1, <1>2, <1>3, <2>1, Shape
    <3> QED BY <3>1, <3>2, <1>1, <1>2, <1>3, <2>1 DEF Cursor
  <2>4. Counts'
    <3>1. \A i \in Nodes, j \in Nat \ {0} :
             (i > at \/ (i = at /\ (stage = "release" => j >= arg)))' <=>
             i > at \/ (i = at /\ (stage = "release" => j >= arg))
      BY <2>1, <1>1, <1>3
    <3> QED BY <3>1, <2>1, <1>1, SameCounts DEF hashVars, Planned
  <2>5. \A t : Visited(t)' <=> Visited(t)
    <3>1. \A t : HasMemory(t)' <=> HasMemory(t) BY <1>1, SameGraph
    <3> QED BY <3>1, <1>1, <2>1 DEF Visited
  <2>6. \A t : TakenOver(t) => TakenOver(t)' BY <1>1 DEF TakenOver
  <2> QED BY <2>1, <2>3, <2>4, <2>5, <2>6, <1>1, NothingMoved, StillPlanning
<1> QED BY <1>4, <1>5

LEMMA PlanParentStep ==
    ASSUME Inv, PlanParent
    PROVE  Inv'
<1>1. /\ stage = "parents" /\ WellFormed(graph) /\ Planned /\ at \in Tensors
      /\ arg <= Len(Src(at)) /\ AllocateNode(Src(at)[arg]) /\ arg' = arg + 1
      /\ UNCHANGED <<graph, buffer, stage, at>>
  BY DEF PlanParent, Inv, Planning, graphVars
<1>2. /\ at \in Nat /\ arg \in Nat /\ arg # 0 /\ Len(Src(at)) \in Nat
  BY <1>1, Place, Shape DEF Planned, Cursor
<1>3. arg \in 1..Len(Src(at)) BY <1>1, <1>2
<1> DEFINE p == Src(at)[arg]
<1>4. ~NeedsMemory(p) BY <1>1, <1>3, SourceHeld DEF NeedsMemory
<1>5. UNCHANGED <<hashVars, talloc>> BY <1>1, <1>4 DEF AllocateNode, hashVars, talloc
<1>6. Tensors' = Tensors /\ Nodes' = Nodes /\ Src(at)' = Src(at) BY <1>1, SameGraph DEF Src
<1>7. Cursor' BY <1>1, <1>2, <1>6 DEF Planned, Cursor
<1>8. Counts'
  <2>1. \A i \in Nodes, j \in Nat \ {0} :
           (i > at \/ (i = at /\ (stage = "release" => j >= arg)))' <=>
           i > at \/ (i = at /\ (stage = "release" => j >= arg))
    BY <1>1, <1>6
  <2> QED BY <2>1, <1>1, <1>5, SameCounts DEF hashVars, Planned
<1>9. \A t : Visited(t)' <=> Visited(t)
  <2>1. \A t : HasMemory(t)' <=> HasMemory(t) BY <1>1, SameGraph
  <2> QED BY <2>1, <1>1 DEF Visited
<1>10. \A t : TakenOver(t) => TakenOver(t)' BY <1>1 DEF TakenOver
<1> QED BY <1>1, <1>5, <1>7, <1>8, <1>9, <1>10, NothingMoved, StillPlanning

LEMMA PlanNodeStep ==
    ASSUME Inv, PlanNode
    PROVE  Inv'
<1>1. /\ stage = "parents" /\ WellFormed(graph) /\ Planned /\ at \in Tensors
      /\ AllocateNode(at) /\ stage' = "release" /\ arg' = 1
      /\ UNCHANGED <<graph, buffer, at>>
  BY DEF PlanNode, Inv, Planning, graphVars
<1>2. /\ at \in Nat /\ Tensors \subseteq Nat /\ Len(Src(at)) \in Nat
  BY <1>1, Place, Shape
<1>3. ~Before(graph, at)
  <2>1. Before(graph, at) => at < at BY <1>1 DEF Planned, Cursor
  <2> QED BY <2>1, <1>2
<1>4. Tensors' = Tensors /\ Nodes' = Nodes /\ Src(at)' = Src(at) BY <1>1, SameGraph DEF Src
<1>5. Settled(at) /\ UNCHANGED <<n_children, n_views>> BY <1>1, <1>3, AllocateAt
<1>6. Cursor'
  <2>1. arg' <= Len(Src(at)') \/ (arg' = 1 /\ Src(at)' = <<>>)
    <3>1. Src(at) \in Seq(Nat) BY <1>1, Shape
    <3>2. Len(Src(at)) = 0 => Src(at) = <<>> BY <3>1
    <3> QED BY <3>2, <1>1, <1>2, <1>4
  <2>2. Src(at') = Src(at) /\ Src(at)' = graph'[at'].src BY <1>1 DEF Src
  <2>3. \A t \in Tensors : (Before(graph, t) => t < at)' BY <1>1 DEF Planned, Cursor
  <2> QED BY <2>1, <2>3, <1>1, <1>2, <1>4 DEF Planned, Cursor
<1>7. Counts'
  <2>1. \A i \in Nodes, j \in Nat \ {0} :
           (i > at \/ (i = at /\ (stage = "release" => j >= arg)))' <=>
           i > at \/ (i = at /\ (stage = "release" => j >= arg))
    <3> SUFFICES ASSUME NEW i \in Nodes, NEW j \in Nat \ {0}
                 PROVE  (i > at \/ (i = at /\ (stage' = "release" => j >= 1))) <=>
                        (i > at \/ (i = at /\ (stage = "release" => j >= arg)))
      BY <1>1, <1>4
    <3>1. j >= 1 OBVIOUS
    <3> QED BY <3>1, <1>1
  <2> QED BY <2>1, <1>1, <1>5, SameCounts DEF Planned
<1>8. \A t \in Tensors : Visited(t)' <=> Visited(t) \/ (t = at /\ HasMemory(at))
  <2>1. \A t : HasMemory(t)' <=> HasMemory(t) BY <1>1, SameGraph
  <2> QED BY <2>1, <1>1 DEF Visited
<1>9. Planned' BY <1>1, <1>5, <1>6, <1>7, <1>8, AfterAllocate DEF Planned
<1> QED BY <1>1, <1>9, StillPlanning

\* A read is released: one reads less of its source, of no other tensor.
Released(i, j) ==
    \/ j < Len(Src(i)) /\ stage' = "release" /\ at' = i /\ arg' = j + 1
    \/ j = Len(Src(i)) /\ stage' = "parents" /\ at' = i + 1 /\ arg' = 1

LEMMA PendingReleased ==
    ASSUME WellFormed(graph), Planned, stage = "release", at \in Tensors,
           arg \in 1..Len(Src(at)), UNCHANGED graph, Released(at, arg)
    PROVE  /\ \A q : Pending(q)' = Pending(q) \ {<<at, arg>>}
           /\ \A q : <<at, arg>> \in Pending(q) <=> q = Src(at)[arg]
<1>1. at \in Nat /\ arg \in Nat /\ Tensors \subseteq Nat /\ Len(Src(at)) \in Nat BY Place, Shape
<1>2. <<at, arg>> \in Pending(Src(at)[arg]) BY <1>1, PendingRead
<1>3. \A q : <<at, arg>> \in Pending(q) => q = Src(at)[arg] BY DEF Pending, Readers
<1>4. ASSUME NEW q PROVE Pending(q)' = Pending(q) \ {<<at, arg>>}
  <2>1. Readers(q)' = Readers(q) BY SameGraph
  <2>2. ASSUME NEW r \in Readers(q)
        PROVE  (r \in Pending(q)') <=> r \in Pending(q) /\ r # <<at, arg>>
    <3>1. /\ r = <<r[1], r[2]>> /\ r[1] \in Tensors /\ r[2] \in Nat
          /\ r[2] <= Len(Src(r[1]))
      BY DEF Readers, Nodes
    <3>2. r[1] \in Nat BY <3>1, <1>1
    <3>3. r # <<at, arg>> <=> r[1] # at \/ r[2] # arg BY <3>1
    <3>4. r[1] = at => r[2] <= Len(Src(at)) BY <3>1
    <3>5. (r[1] > at' \/ (r[1] = at' /\ (stage' = "release" => r[2] >= arg'))) <=>
          (r[1] > at \/ (r[1] = at /\ r[2] >= arg)) /\ (r[1] # at \/ r[2] # arg)
      BY <3>1, <3>2, <3>4, <1>1 DEF Released
    <3> QED BY <2>1, <3>3, <3>5 DEF Pending
  <2>3. Pending(q) \subseteq Readers(q) BY DEF Pending
  <2>4. Pending(q)' \subseteq Readers(q)' BY DEF Pending
  <2> QED BY <2>1, <2>2, <2>3, <2>4
<1> QED BY <1>2, <1>3, <1>4

\* Views have no views.
LEMMA ViewsOfViews ==
    ASSUME WellFormed(graph), Counts, NEW t \in Tensors, IsView(t)
    PROVE  n_views[t] = 0
<1>1. ASSUME NEW v \in ViewsOf(t) PROVE FALSE
  <2>1. v \in Tensors /\ IsView(v) /\ graph[v].view_src = t
    BY <1>1 DEF ViewsOf, CountsAsView, Nodes, IsView, Viewing
  <2> QED BY <2>1, Roots
<1>2. Live(t) = {} BY <1>1 DEF Live
<1> QED BY <1>2, CountsRead

LEMMA CountsReleased ==
    ASSUME WellFormed(graph), Planned, stage = "release", at \in Tensors,
           arg \in 1..Len(Src(at)), UNCHANGED graph, Released(at, arg),
           n_children' = [n_children EXCEPT ![Src(at)[arg]] = @ - 1],
           n_views' = IF Unread(Src(at)[arg]) /\ IsView(Src(at)[arg])
                      THEN [n_views EXCEPT ![Root(Src(at)[arg])] = @ - 1] ELSE n_views
    PROVE  Counts' /\ n_children' \in [Tensors -> Nat] /\ n_views' \in [Tensors -> Nat]
<1>1. PICK p \in Tensors : p = Src(at)[arg] /\ graph[p].kind # "dep" BY Sources
<1>2. /\ \A q : Pending(q)' = Pending(q) \ {<<at, arg>>}
      /\ \A q : <<at, arg>> \in Pending(q) <=> q = p
  BY <1>1, PendingReleased
<1>3. /\ n_children' = [n_children EXCEPT ![p] = @ - 1]
      /\ n_views' = IF Unread(p) /\ IsView(p) THEN [n_views EXCEPT ![Root(p)] = @ - 1]
                    ELSE n_views
  BY <1>1
<1>4. Counts /\ HashType BY DEF Planned
<1>5. /\ Tensors' = Tensors /\ \A q : ViewsOf(q)' = ViewsOf(q)
      /\ \A q : Readers(q)' = Readers(q)
  BY SameGraph
<1>6. ASSUME NEW q \in Tensors
      PROVE  n_children'[q] = Cardinality(Pending(q)') /\ n_children'[q] \in Nat
  <2>1. IsFiniteSet(Pending(q)) /\ n_children[q] = Cardinality(Pending(q))
    BY <1>4, FiniteCounts DEF Counts
  <2>2. Cardinality(Pending(q) \ {<<at, arg>>}) =
           IF <<at, arg>> \in Pending(q) THEN Cardinality(Pending(q)) - 1
           ELSE Cardinality(Pending(q))
    BY <2>1, FS_RemoveElement
  <2>3. IsFiniteSet(Pending(q) \ {<<at, arg>>}) BY <2>1, FS_RemoveElement
  <2>4. Cardinality(Pending(q) \ {<<at, arg>>}) \in Nat BY <2>3, FS_CardinalityType
  <2>5. n_children'[q] = IF q = p THEN n_children[q] - 1 ELSE n_children[q]
    BY <1>1, <1>3, <1>4 DEF HashType
  <2>6. Pending(q)' = Pending(q) \ {<<at, arg>>} /\ (<<at, arg>> \in Pending(q) <=> q = p)
    BY <1>2
  <2>7. Cardinality(Pending(q)') = Cardinality(Pending(q) \ {<<at, arg>>}) BY <2>6
  <2> QED BY <2>1, <2>2, <2>4, <2>5, <2>6, <2>7
<1>7. \A q : q # p => Pending(q)' = Pending(q) BY <1>2
<1>8. n_children'[p] = n_children[p] - 1 BY <1>1, <1>3, <1>4 DEF HashType
<1>9. n_children[p] \in Nat /\ (n_children'[p] = 0 <=> Pending(p)' = {})
  <2>1. IsFiniteSet(Pending(p) \ {<<at, arg>>})
    <3>1. IsFiniteSet(Pending(p)) BY FiniteCounts
    <3> QED BY <3>1, FS_RemoveElement
  <2>a. Pending(p)' = Pending(p) \ {<<at, arg>>} BY <1>2
  <2>2. IsFiniteSet(Pending(p)') BY <2>1, <2>a
  <2>3. Cardinality(Pending(p)') = 0 <=> Pending(p)' = {} BY <2>2, FS_EmptySet
  <2>4. n_children'[p] = Cardinality(Pending(p)') BY <1>1, <1>6
  <2>5. n_children[p] \in Nat BY <1>1, <1>4, CountsRead
  <2> QED BY <2>3, <2>4, <2>5
<1>10. ASSUME NEW q \in Tensors
       PROVE  n_views'[q] = Cardinality(Live(q)') /\ n_views'[q] \in Nat
  <2>0. n_views[q] = Cardinality(Live(q)) /\ n_views[q] \in Nat /\ IsFiniteSet(Live(q))
    BY <1>4, FiniteCounts, CountsRead DEF Counts
  <2>1. CASE Unread(p) /\ IsView(p) /\ q = Root(p)
    <3>1. Pending(p)' = {} BY <2>1, <1>8, <1>9 DEF Unread
    <3>2. Readers(p) # {} BY <1>2 DEF Pending
    <3>3. p \in ViewsOf(q) /\ p \in Live(q)
      <4>1. graph[p].kind = "view" /\ p \in Nodes /\ graph[p].view_src = q
        BY <2>1, <1>1, Roots DEF IsView, Viewing, Nodes, Before
      <4>2. Pending(p) # {} BY <1>2
      <4> QED BY <4>1, <4>2 DEF Live, ViewsOf, CountsAsView
    <3>4. Live(q)' = Live(q) \ {p}
      <4>1. Live(q)' = {v \in ViewsOf(q) : Readers(v) = {} \/ Pending(v)' # {}}
        BY <1>5 DEF Live
      <4>2. \A v \in ViewsOf(q) : (Readers(v) = {} \/ Pending(v)' # {}) <=>
               v # p /\ (Readers(v) = {} \/ Pending(v) # {})
        <5> TAKE v \in ViewsOf(q)
        <5>1. CASE v = p BY <5>1, <3>1, <3>2
        <5>2. CASE v # p
          <6>1. Pending(v)' = Pending(v) BY <5>2, <1>7
          <6> QED BY <5>2, <6>1
        <5> QED BY <5>1, <5>2
      <4> QED BY <4>1, <4>2 DEF Live
    <3>5. /\ Cardinality(Live(q) \ {p}) = Cardinality(Live(q)) - 1
          /\ IsFiniteSet(Live(q) \ {p})
      BY <2>0, <3>3, FS_RemoveElement
    <3>6. Cardinality(Live(q) \ {p}) \in Nat BY <3>5, FS_CardinalityType
    <3>7. n_views'[q] = n_views[q] - 1 BY <2>1, <1>3, <1>4 DEF HashType
    <3> QED BY <2>0, <3>4, <3>5, <3>6, <3>7
  <2>2. CASE ~(Unread(p) /\ IsView(p) /\ q = Root(p))
    <3>1. n_views'[q] = n_views[q] BY <2>2, <1>3, <1>4 DEF HashType
    <3>2. ASSUME p \in ViewsOf(q) PROVE Pending(p)' # {}
      <4>1. IsView(p) /\ q = Root(p)
        BY <3>2 DEF ViewsOf, CountsAsView, IsView, Viewing, Root
      <4>2. n_views[p] = 0 BY <4>1, <1>1, <1>4, ViewsOfViews
      <4>3. n_children[p] # 1 BY <4>1, <4>2, <2>2 DEF Unread
      <4> QED BY <4>3, <1>8, <1>9
    <3>3. \A v \in ViewsOf(q) : Pending(v)' # {} <=> Pending(v) # {}
      <4>1. Pending(p) # {} BY <1>2
      <4> TAKE v \in ViewsOf(q)
      <4>2. CASE v = p BY <4>1, <4>2, <3>2
      <4>3. CASE v # p
        <5>1. Pending(v)' = Pending(v) BY <4>3, <1>7
        <5> QED BY <5>1
      <4> QED BY <4>2, <4>3
    <3>4. Live(q)' = Live(q) BY <3>3, <1>5 DEF Live
    <3> QED BY <2>0, <3>1, <3>4
  <2> QED BY <2>1, <2>2
<1>11. DOMAIN n_children' = Tensors /\ DOMAIN n_views' = Tensors BY <1>3, <1>4 DEF HashType
<1>12. n_children' \in [Tensors -> Nat] /\ n_views' \in [Tensors -> Nat]
  <2>1. /\ n_children' = [t \in Tensors |-> n_children'[t]]
        /\ n_views' = [t \in Tensors |-> n_views'[t]]
    BY <1>3, <1>4 DEF HashType
  <2> QED BY <2>1, <1>6, <1>10
<1> QED BY <1>5, <1>6, <1>10, <1>12 DEF Counts

LEMMA PlanReleaseStep ==
    ASSUME Inv, PlanRelease
    PROVE  Inv'
<1>1. /\ stage = "release" /\ WellFormed(graph) /\ Planned /\ at \in Tensors
      /\ UNCHANGED <<graph, buffer>> /\ NextSource
  BY DEF PlanRelease, Inv, Planning, graphVars, Planned, Cursor
<1>2. /\ at \in Nat /\ arg \in Nat /\ arg # 0 /\ Tensors \subseteq Nat
      /\ Len(graph) \in Nat /\ Len(Src(at)) \in Nat
      /\ arg <= Len(Src(at)) \/ (arg = 1 /\ Src(at) = <<>>)
  BY <1>1, Place, Shape DEF Planned, Cursor
<1>3. Tensors' = Tensors /\ Nodes' = Nodes BY <1>1, SameGraph
<1>4. /\ \/ arg < Len(Src(at)) /\ stage' = "release" /\ at' = at /\ arg' = arg + 1
         \/ ~(arg < Len(Src(at))) /\ stage' = "parents" /\ at' = at + 1 /\ arg' = 1
  BY <1>1 DEF NextSource
<1>5. Cursor'
  <2>1. at' \in 1..Len(graph') + 1 /\ arg' \in Nat \ {0} BY <1>1, <1>2, <1>4 DEF Tensors
  <2>2. \A t \in Tensors : Before(graph', t) => t < at'
    <3> SUFFICES ASSUME NEW t \in Tensors, Before(graph, t) PROVE t < at' BY <1>1
    <3>1. t < at /\ t \in Nat BY <1>1, <1>2 DEF Planned, Cursor
    <3> QED BY <3>1, <1>2, <1>4
  <2>3. stage' = "parents" /\ at' \in Tensors => arg' <= Len(Src(at')) + 1
    BY <1>1, <1>4, Shape
  <2>4. stage' = "release" => at' \in Tensors /\ arg' <= Len(Src(at')) BY <1>1, <1>2, <1>4
  <2>5. stage' = "parents" => arg' = 1 BY <1>4
  <2>6. LeafsRead(graph') BY <1>1 DEF Planned, Cursor
  <2>7. Src(at)' = Src(at') BY <1>1 DEF Src
  <2> QED BY <2>1, <2>2, <2>3, <2>4, <2>5, <2>6, <2>7, <1>1, <1>3, <1>4 DEF Cursor
<1>6. \A t \in Tensors : Visited(t)' <=> Visited(t)
  <2> TAKE t \in Tensors
  <2>1. HasMemory(t)' <=> HasMemory(t) BY <1>1, SameGraph
  <2>2. t \in Nat BY <1>2
  <2> QED BY <2>1, <2>2, <1>1, <1>2, <1>4 DEF Visited
<1>7. stage' \in {"leafs", "parents", "release"} BY <1>4
<1>8. CASE Src(at) = <<>>
  <2>1. Len(Src(at)) = 0 BY <1>8
  <2>2. stage' = "parents" /\ at' = at + 1 /\ arg = 1 BY <2>1, <1>2, <1>4
  <2>3. UNCHANGED <<hashVars, talloc>> BY <1>8 DEF PlanRelease
  <2>4. Counts'
    <3>1. \A p : Pending(p)' = Pending(p)
      <4> TAKE p
      <4>1. Readers(p)' = Readers(p) BY <1>1, SameGraph
      <4>2. ASSUME NEW r \in Readers(p)
            PROVE  r[1] \in Nat /\ r[1] # at
        <5>1. r[1] \in Tensors /\ r[2] \in Nat \ {0} /\ r[2] <= Len(Src(r[1]))
          BY DEF Readers, Nodes
        <5>2. ASSUME r[1] = at PROVE FALSE
          <6>1. r[2] <= Len(Src(at)) BY <5>1, <5>2
          <6> QED BY <5>1, <6>1, <2>1
        <5> QED BY <5>1, <5>2, <1>2
      <4>3. \A r \in Readers(p) :
               (r[1] > at' \/ (r[1] = at' /\ (stage' = "release" => r[2] >= arg'))) <=>
               (r[1] > at \/ (r[1] = at /\ (stage = "release" => r[2] >= arg)))
        BY <4>2, <2>2, <1>2
      <4> QED BY <4>1, <4>3 DEF Pending
    <3>2. \A r : Live(r)' = Live(r)
      <4>1. \A r : ViewsOf(r)' = ViewsOf(r) BY <1>1, SameGraph
      <4>2. \A r : Readers(r)' = Readers(r) BY <1>1, SameGraph
      <4> QED BY <4>1, <4>2, <3>1 DEF Live
    <3> QED BY <3>1, <3>2, <2>3, <1>1, <1>3 DEF Counts, Planned, hashVars
  <2>5. \A t : TakenOver(t) => TakenOver(t)'
    <3>1. \A t : ~TakenOver(t) BY <2>1, <2>2 DEF TakenOver
    <3> QED BY <3>1
  <2> QED BY <2>3, <2>4, <2>5, <1>1, <1>5, <1>6, <1>7, NothingMoved, StillPlanning
<1>9. CASE Src(at) # <<>>
  <2>1. arg \in 1..Len(Src(at)) /\ ReleaseParent(Src(at)[arg])
    BY <1>1, <1>2, <1>9 DEF PlanRelease
  <2>2. Released(at, arg) BY <2>1, <1>2, <1>4 DEF Released
  <2>3. PICK p \in Tensors : p = Src(at)[arg] /\ p < at /\ graph[p].kind # "dep"
    BY <2>1, <1>1, Sources
  <2>4. PICK R \in Tensors : R = Root(p) /\ ~IsView(R) /\ (IsView(p) => R < p) /\ (~IsView(p) => R = p)
    BY <1>1, Roots
  <2>5. /\ n_children' = [n_children EXCEPT ![p] = @ - 1]
        /\ n_views' = IF Unread(p) /\ IsView(p) THEN [n_views EXCEPT ![R] = @ - 1] ELSE n_views
        /\ IF Unread(p) /\ EndsWith(p) /\ allocated[R] THEN FreeNode(R)
           ELSE UNCHANGED <<allocated, free_blocks>>
        /\ UNCHANGED <<offset, max_size>>
    BY <2>1, <2>3, <2>4 DEF ReleaseParent
  <2>6. Counts' /\ n_children' \in [Tensors -> Nat] /\ n_views' \in [Tensors -> Nat]
    BY <2>1, <2>2, <2>3, <2>4, <2>5, <1>1, CountsReleased
  <2>7. HashType /\ Tiled /\ Counts BY <1>1 DEF Planned
  <2>8. /\ \A q \in Tensors : n_children'[q] = IF q = p THEN n_children[q] - 1 ELSE n_children[q]
        /\ \A q \in Tensors : n_views'[q] = IF Unread(p) /\ IsView(p) /\ q = R
                                            THEN n_views[q] - 1 ELSE n_views[q]
        /\ \A q \in Tensors : /\ n_children[q] \in Nat /\ n_views[q] \in Nat
                              /\ n_children'[q] \in Nat /\ n_views'[q] \in Nat
    <3>1. n_children \in [Tensors -> Nat] /\ n_views \in [Tensors -> Nat] BY <2>7 DEF HashType
    <3> QED BY <3>1, <2>5, <2>6
  <2>9. /\ Tiled' /\ allocated' \in [Tensors -> BOOLEAN]
        /\ \A u \in Tensors : allocated'[u] <=>
              allocated[u] /\ ~(u = R /\ Unread(p) /\ EndsWith(p) /\ ~graph[R].out)
    <3>1. CASE Unread(p) /\ EndsWith(p) /\ allocated[R]
      <4>1. HasMemory(R) BY <3>1, <1>1, Place
      <4> QED BY <3>1, <4>1, <2>5, <2>7, <1>1, FreedNode
    <3>2. CASE ~(Unread(p) /\ EndsWith(p) /\ allocated[R])
      <4>1. UNCHANGED <<allocated, free_blocks, offset, graph>> BY <3>2, <2>5, <1>1
      <4>2. Tiled' BY <4>1, <2>7 DEF Tiled, InUse, Size, Tensors
      <4> QED BY <4>1, <4>2, <3>2, <2>7 DEF HashType
    <3> QED BY <3>1, <3>2
  <2>10. HashType'
    <3>1. offset \in [Tensors -> Nat] /\ max_size \in Nat BY <2>7 DEF HashType
    <3> QED BY <3>1, <2>5, <2>6, <2>9, <1>3 DEF HashType
  <2>11. IsView(p) => n_views[p] = 0 BY <2>7, <1>1, ViewsOfViews
  <2>12. n_children[p] > 0
    <3>1. <<at, arg>> \in Pending(p) BY <2>1, <2>2, <2>3, <1>1, PendingReleased
    <3>2. Pending(p) # {} BY <3>1
    <3> QED BY <3>2, <2>7, <2>8, <1>1, CountsRead
  <2>13. Held'
    <3> SUFFICES ASSUME NEW t \in Tensors, Visited(t), Needed(t)', ~allocated'[t]
                 PROVE  TakenOver(t)'
      BY <1>3, <1>6 DEF Held
    <3>1. graph[t].out \/ n_children'[t] > 0 \/ n_views'[t] > 0 BY <1>1 DEF Needed
    <3>2. Needed(t)
      BY <3>1, <2>8 DEF Needed
    <3>3. allocated[t] \/ TakenOver(t) BY <3>2, <1>1 DEF Planned, Held
    <3>4. ASSUME allocated[t] PROVE FALSE
      <4>1. t = R /\ Unread(p) /\ EndsWith(p) /\ ~graph[R].out BY <3>4, <2>9
      <4>2. CASE IsView(p)
        <5>1. n_views[R] = 1 /\ n_children[R] = 0 /\ R # p
          BY <4>1, <4>2, <2>3, <2>4, <1>2 DEF EndsWith
        <5> QED BY <5>1, <4>1, <4>2, <3>1, <2>8
      <4>3. CASE ~IsView(p)
        <5>1. R = p /\ n_children[p] = 1 /\ n_views[p] = 0 BY <4>1, <4>3, <2>4 DEF Unread
        <5> QED BY <5>1, <4>1, <4>3, <3>1, <2>8
      <4> QED BY <4>2, <4>3
    <3>5. /\ ~graph[t].out /\ n_children[t] = 1 /\ n_views[t] = 0
          /\ \E j \in arg..Len(Src(at)) : Src(at)[j] = t
      BY <3>3, <3>4 DEF TakenOver
    <3>6. t # p
      <4> SUFFICES ASSUME t = p PROVE FALSE OBVIOUS
      <4>1. n_children'[t] = 0 /\ n_views'[t] = 0
        <5>1. ~(IsView(p) /\ p = R) BY <2>4
        <5> QED BY <5>1, <3>5, <2>8
      <4> QED BY <4>1, <3>1, <3>5
    <3>7. PICK j \in arg..Len(Src(at)) : Src(at)[j] = t BY <3>5
    <3>8. j # arg BY <3>6, <3>7, <2>3
    <3>9. j \in arg + 1..Len(Src(at)) /\ arg < Len(Src(at)) BY <3>7, <3>8, <1>2
    <3>10. stage' = "release" /\ at' = at /\ arg' = arg + 1 BY <3>9, <1>4
    <3>11. n_children'[t] = 1 /\ n_views'[t] = 0
      <4>1. n_children'[t] = 1 BY <3>5, <3>6, <2>8
      <4>2. n_views'[t] = 0
        <5>1. n_views'[t] \in Nat /\ (n_views'[t] = n_views[t] \/ n_views'[t] = n_views[t] - 1)
          BY <2>8
        <5> QED BY <5>1, <3>5
      <4> QED BY <4>1, <4>2
    <3> QED BY <3>5, <3>7, <3>9, <3>10, <3>11, <1>1 DEF TakenOver, Src
  <2>14. GivenBack'
    <3> SUFFICES ASSUME NEW t \in Tensors, allocated'[t]
                 PROVE  Visited(t) /\ (Needed(t)' \/ ReadsOf(t) = {})
      <4>1. \A q : ReadsOf(q)' = ReadsOf(q) BY <1>1, SameGraph
      <4> QED BY <4>1, <1>3, <1>6 DEF GivenBack
    <3>1. allocated[t] /\ ~(t = R /\ Unread(p) /\ EndsWith(p) /\ ~graph[R].out) BY <2>9
    <3>2. /\ Visited(t) /\ (Needed(t) \/ ReadsOf(t) = {}) /\ ~IsView(t)
      <4>1. Visited(t) /\ (Needed(t) \/ ReadsOf(t) = {}) BY <3>1, <1>1 DEF Planned, GivenBack
      <4> QED BY <4>1, <1>1, Roots DEF Visited
    <3>3. ASSUME Needed(t), ~Needed(t)' PROVE FALSE
      <4>1. ~graph[t].out /\ ~(n_children'[t] > 0) /\ ~(n_views'[t] > 0)
        BY <3>3, <1>1 DEF Needed
      <4>2. n_children'[t] = 0 /\ n_views'[t] = 0 BY <4>1, <2>8
      <4>3. n_children[t] > 0 \/ n_views[t] > 0 BY <3>3, <4>1 DEF Needed
      <4>4. CASE t = p
        <5>1. ~IsView(p) /\ R = p BY <4>4, <3>2, <2>4
        <5>2. n_children[p] = 1 /\ n_views[p] = 0 BY <4>2, <4>4, <5>1, <2>8
        <5>3. Unread(p) /\ EndsWith(p) BY <5>1, <5>2 DEF Unread, EndsWith
        <5> QED BY <5>1, <5>3, <4>1, <4>4, <3>1
      <4>5. CASE t # p
        <5>1. n_children[t] = 0 BY <4>2, <4>5, <2>8
        <5>2. Unread(p) /\ IsView(p) /\ t = R /\ n_views[t] = 1
          <6>1. n_views[t] > 0 BY <5>1, <4>3
          <6> QED BY <6>1, <4>2, <2>8
        <5>3. EndsWith(p) BY <5>1, <5>2, <2>4 DEF EndsWith
        <5> QED BY <5>2, <5>3, <4>1, <3>1
      <4> QED BY <4>4, <4>5
    <3> QED BY <3>2, <3>3
  <2>15. Placed'
    <3>1. \A t : Size(t)' = Size(t) BY <1>1, SameGraph
    <3>2. \A t, r : /\ WrittenWhile(t, r)' <=> WrittenWhile(t, r)
                    /\ Apart(t, r, offset, Sizes_)' <=> Apart(t, r, offset, Sizes_)
      BY <2>5, <1>1, SamePlaces
    <3> QED BY <3>1, <3>2, <2>5, <1>1, <1>3, <1>6 DEF Planned, Placed
  <2> QED BY <2>6, <2>9, <2>10, <2>13, <2>14, <2>15, <1>1, <1>5, <1>7, StillPlanning DEF Planned
<1> QED BY <1>8, <1>9

\* The hash table before any tensor has memory.
LEMMA ReserveBeginStep ==
    ASSUME Inv, ReserveBegin
    PROVE  Inv'
<1>1. /\ WellFormed(graph) /\ LeafsRead(graph) /\ UNCHANGED <<graph, buffer>>
      /\ stage' = "leafs" /\ at' = 1 /\ arg' = 1
      /\ n_children' = [t \in Tensors |-> Cardinality(Readers(t))]
      /\ n_views' = [t \in Tensors |-> Cardinality(ViewsOf(t))]
      /\ offset' = [t \in Tensors |-> 0]
      /\ allocated' = [t \in Tensors |-> FALSE]
      /\ free_blocks' = Fresh /\ max_size' = 0
  BY DEF ReserveBegin, Inv, graphVars
<1>2. /\ Tensors' = Tensors /\ Nodes' = Nodes
      /\ \A t : Readers(t)' = Readers(t)
      /\ \A t : ViewsOf(t)' = ViewsOf(t)
  BY <1>1, SameGraph
<1>3. Tensors \subseteq Nat \ {0} /\ Len(graph) \in Nat BY <1>1, Shape DEF Tensors
<1>4. Cursor'
  <2>1. \A t \in 1..at' - 1 : Before(graph', t) BY <1>1
  <2> QED BY <2>1, <1>1, <1>3 DEF Cursor
<1>5. HashType'
  <2>1. \A t : Cardinality(Readers(t)) \in Nat /\ Cardinality(ViewsOf(t)) \in Nat
    BY <1>1, FiniteCounts, FS_CardinalityType
  <2> QED BY <2>1, <1>1, <1>2 DEF HashType
<1>6. Counts'
  <2>1. \A p : Pending(p)' = Readers(p)
    <3> TAKE p
    <3>1. \A r \in Readers(p) : r[1] > at' \/ r[1] = at'
      <4>1. \A r \in Readers(p) : r[1] \in Tensors BY DEF Readers, Nodes
      <4>2. \A r \in Readers(p) : r[1] \in Nat \ {0} BY <4>1, <1>3
      <4> QED BY <4>2, <1>1
    <3> QED BY <3>1, <1>1, <1>2 DEF Pending
  <2>2. \A r : Live(r)' = ViewsOf(r) BY <2>1, <1>2 DEF Live
  <2> QED BY <2>1, <2>2, <1>1, <1>2 DEF Counts
<1>7. Held'
  <2>1. \A t \in Tensors : ~Visited(t)' BY <1>1, <1>3 DEF Visited
  <2> QED BY <2>1, <1>2 DEF Held
<1>8. GivenBack' BY <1>1, <1>2 DEF GivenBack
<1>9. Tiled' BY <1>1, <1>2, FreshBlocks DEF Tiled, InUse
<1>10. Placed'
  <2>1. \A t \in Tensors : ~Visited(t)' BY <1>1, <1>3 DEF Visited
  <2> QED BY <2>1, <1>2 DEF Placed
<1> QED BY <1>1, <1>4, <1>5, <1>6, <1>7, <1>8, <1>9, <1>10, StillPlanning DEF Planned

\* The plan taken from the hash table.
LEMMA ReserveEndStep ==
    ASSUME Inv, ReserveEnd
    PROVE  Inv'
<1>1. /\ stage = "parents" /\ at \notin Tensors /\ WellFormed(graph) /\ Planned
      /\ stage' = "planned" /\ graph' = graph /\ buffer \in Nat
      /\ plan' = [t \in Tensors |->
                    [dst |-> Recorded(t),
                     src |-> [j \in 1..Len(Src(t)) |-> Recorded(Src(t)[j])]]]
      /\ buffer' = BufferFor(max_size)
  BY DEF ReserveEnd, Inv, Planning
<1>2. HashType /\ Placed BY <1>1 DEF Planned
<1>3. max_size \in Nat /\ buffer' \in Nat /\ max_size <= buffer' BY <1>1, <1>2 DEF HashType, BufferFor
<1>4. \A t \in Tensors : Visited(t) <=> HasMemory(t)
  <2>1. at = Len(graph) + 1 /\ Len(graph) \in Nat BY <1>1, Place DEF Planned, Cursor, Tensors
  <2> QED BY <2>1 DEF Visited, Tensors
<1>5. \A t \in Tensors : /\ plan'[t].dst = Recorded(t)
                         /\ \A j \in 1..Len(Src(t)) : plan'[t].src[j] = Recorded(Src(t)[j])
  BY <1>1
<1>6. \A t \in Tensors : HasMemory(t) =>
         plan'[t].dst.offset = offset[t] /\ plan'[t].dst.size_max = graph[t].size
  <2> SUFFICES ASSUME NEW t \in Tensors, HasMemory(t)
               PROVE  plan'[t].dst.offset = offset[t] /\ plan'[t].dst.size_max = graph[t].size
    OBVIOUS
  <2>1. plan'[t].dst = Recorded(t) BY <1>5
  <2>2. Recorded(t) = [offset |-> offset[t], size_max |-> graph[t].size] BY DEF Recorded
  <2> QED BY <2>1, <2>2
<1>7. /\ Tensors' = Tensors
      /\ \A t : HasMemory(t)' <=> HasMemory(t)
      /\ \A t : Src(t)' = Src(t)
  BY <1>1, SameGraph
<1>8. PlanOK'
  <2>1. Len(graph') = Len(plan')
    <3>1. Len(graph) \in Nat BY <1>1, Shape
    <3> QED BY <3>1, <1>1 DEF Tensors
  <2>2. \A t \in Tensors : HasMemory(t) =>
           /\ plan'[t].dst.offset \in Nat /\ plan'[t].dst.size_max \in Nat
           /\ plan'[t].dst.offset + Aligned(plan'[t].dst.size_max) <= buffer'
    <3> SUFFICES ASSUME NEW t \in Tensors, HasMemory(t)
                 PROVE  /\ offset[t] \in Nat /\ graph[t].size \in Nat
                        /\ offset[t] + Aligned(graph[t].size) <= buffer'
      BY <1>6
    <3>1. offset[t] + Size(t) <= max_size BY <1>2, <1>4 DEF Placed
    <3>2. offset[t] \in Nat /\ graph[t].size \in Nat /\ Size(t) \in Nat
      BY <1>1, <1>2, Shape, Roots DEF HashType
    <3> QED BY <3>1, <3>2, <1>3 DEF Size
  <2>3. \A t \in Tensors : \A j \in 1..Len(Src(t)) : plan'[t].src[j] = plan'[Src(t)[j]].dst
    BY <1>1, <1>5, Sources
  <2>4. ASSUME NEW t \in Tensors, NEW r \in Tensors, HasMemory(t), HasMemory(r), r < t,
               WrittenWhile(t, r)
        PROVE  Apart(t, r, PlanOffset', PlanSize')
    <3>1. Apart(t, r, offset, Sizes_) BY <2>4, <1>2, <1>4 DEF Placed
    <3>2. /\ PlanOffset'[t] = offset[t] /\ PlanOffset'[r] = offset[r]
          /\ PlanSize'[t] = Sizes_[t] /\ PlanSize'[r] = Sizes_[r]
      BY <2>4, <1>6, <1>7 DEF PlanOffset, PlanSize, Sizes_
    <3> QED BY <3>1, <3>2 DEF Apart
  <2>5. \A t, r \in Tensors : HasMemory(t) /\ HasMemory(r) /\ plan'[t].dst.size_max = plan'[r].dst.size_max
           => graph[t].size = graph[r].size
    BY <1>6
  <2>6. \A t, r : /\ WrittenWhile(t, r)' <=> WrittenWhile(t, r)
                  /\ Apart(t, r, PlanOffset, PlanSize)' <=> Apart(t, r, PlanOffset', PlanSize')
    <3>1. \A r : ReadsOf(r)' = ReadsOf(r) BY <1>1, SameGraph
    <3>2. \A r : Kept(r)' <=> Kept(r) BY <1>1, SameGraph
    <3> QED BY <3>1, <3>2, <1>1 DEF WrittenWhile, Apart
  <2>7. LeafsRead(graph') BY <1>1 DEF Planned, Cursor
  <2>8. \A t \in Tensors : \A j \in 1..Len(Src(t)') : plan'[t].src[j] = plan'[Src(t)'[j]].dst
    BY <2>3, <1>7
  <2>9. \A t, r \in Tensors :
           HasMemory(t)' /\ HasMemory(r)' /\ r < t /\ WrittenWhile(t, r)' =>
              Apart(t, r, PlanOffset, PlanSize)'
    BY <2>4, <2>6, <1>7
  <2>10. \A t \in Tensors : HasMemory(t)' =>
           /\ plan'[t].dst.offset \in Nat /\ plan'[t].dst.size_max \in Nat
           /\ plan'[t].dst.offset + Aligned(plan'[t].dst.size_max) <= buffer'
    BY <2>2, <1>7
  <2>11. \A t, r \in Tensors :
            HasMemory(t)' /\ HasMemory(r)' /\ plan'[t].dst.size_max = plan'[r].dst.size_max
              => graph'[t].size = graph'[r].size
    BY <2>5, <1>1, <1>7
  <2> QED BY <2>1, <2>7, <2>8, <2>9, <2>10, <2>11, <1>7 DEF PlanOK
<1> QED BY <1>1, <1>3, <1>8 DEF Inv, Stages, Planning

\* A graph of the same shape, for which the plan is kept or made anew.
LEMMA AllocGraphStep ==
    ASSUME Inv, AllocGraph
    PROVE  Inv'
<1>1. /\ stage \in {"planned", "allocated"} /\ WellFormed(graph) /\ PlanOK
      /\ plan' = plan /\ buffer' = buffer /\ buffer \in Nat
      /\ Resizes(graph, graph')
      /\ IF NeedsRealloc(graph') THEN stage' = "reserve"
         ELSE stage' = "allocated" /\ addr' = [t \in 1..Len(graph') |-> plan[t].dst.offset]
  BY DEF AllocGraph, Inv
<1>2. /\ WellFormed(graph') /\ Len(graph') = Len(graph) /\ Len(graph) \in Nat
      /\ \A t \in Tensors : /\ graph'[t] = [graph[t] EXCEPT !.size = graph'[t].size]
                            /\ graph'[t].size \in Nat
      /\ \A t, u \in Tensors : graph[t].size = graph[u].size => graph'[t].size = graph'[u].size
  <2>1. WellFormed(graph)' BY <1>1 DEF Resizes
  <2>2. \A t \in Tensors' : graph'[t].size \in Nat
    <3>1. graph' \in Seq(Tensor) BY <2>1 DEF WellFormed
    <3>2. \A t \in Tensors' : graph'[t] \in Tensor BY <3>1 DEF Tensors
    <3> QED BY <3>2 DEF Tensor
  <2> QED BY <2>1, <2>2, <1>1, Shape DEF Resizes, Tensors
<1>3. /\ Tensors' = Tensors
      /\ \A t \in Tensors : /\ graph'[t].kind = graph[t].kind /\ graph'[t].src = graph[t].src
                            /\ graph'[t].view_src = graph[t].view_src
                            /\ graph'[t].out = graph[t].out
  <2>1. \A t \in Tensors : graph[t] \in Tensor BY <1>1 DEF WellFormed, Tensors
  <2> QED BY <2>1, <1>2 DEF Tensors, Tensor
<1>4. /\ Nodes' = Nodes
      /\ \A t \in Tensors : Src(t)' = Src(t)
      /\ \A t \in Tensors : HasMemory(t)' <=> HasMemory(t)
      /\ \A t \in Tensors : Root(t)' = Root(t)
      /\ \A t \in Tensors : Before(graph', t) <=> Before(graph, t)
  BY <1>3 DEF Nodes, Before, Src, HasMemory, OwnsMemory, Root, IsView, Viewing
<1>5. \A r \in Tensors : ReadsOf(r)' = ReadsOf(r)
  <2> TAKE r \in Tensors
  <2>1. \A i \in Nodes : \A j \in 1..Len(Src(i)) : Src(i)[j] \in Tensors
    BY <1>1, Sources DEF Nodes
  <2>2. \A i \in Nodes : i \in Tensors BY DEF Nodes
  <2>3. \A i \in Nodes : (\E j \in 1..Len(Src(i)') : Root(Src(i)[j])' = r) <=>
                          \E j \in 1..Len(Src(i)) : Root(Src(i)[j]) = r
    <3> TAKE i \in Nodes
    <3>1. Src(i)' = Src(i) BY <2>2, <1>4
    <3>2. \A j \in 1..Len(Src(i)) : Root(Src(i)[j])' = Root(Src(i)[j])
      <4> TAKE j \in 1..Len(Src(i))
      <4>1. PICK s \in Tensors : s = Src(i)[j] BY <2>1
      <4>2. Src(i)'[j] = s BY <4>1, <3>1
      <4>3. Root(s)' = Root(s) BY <1>4
      <4> QED BY <4>1, <4>2, <4>3 DEF Root, IsView
    <3> QED BY <3>1, <3>2
  <2> QED BY <2>3, <1>4 DEF ReadsOf
<1>6. CASE NeedsRealloc(graph') BY <1>1, <1>2, <1>6 DEF Inv, Stages, Planning
<1>7. CASE ~NeedsRealloc(graph')
  <2>1. stage' = "allocated" /\ addr' = [t \in Tensors |-> plan[t].dst.offset]
    BY <1>1, <1>2, <1>7 DEF Tensors
  <2>2. LeafsRead(graph') BY <1>1, <1>2, <1>3 DEF PlanOK, LeafsRead, Tensors, Reads
  <2>3. PlanOK'
    <3>1. /\ PlanOffset' = PlanOffset /\ PlanSize' = PlanSize
      BY <1>1, <1>3 DEF PlanOffset, PlanSize
    <3>2. \A t, r \in Tensors : /\ WrittenWhile(t, r)' <=> WrittenWhile(t, r)
                                /\ Apart(t, r, PlanOffset, PlanSize)' <=> Apart(t, r, PlanOffset, PlanSize)
      <4>1. \A r \in Tensors : Kept(r)' <=> Kept(r)
        <5> TAKE r \in Tensors
        <5>1. \A v \in Nodes : v \in Tensors BY DEF Nodes
        <5>2. \A v \in Nodes : /\ IsView(v)' <=> IsView(v)
                               /\ graph'[v].out = graph[v].out /\ Root(v)' = Root(v)
          BY <5>1, <1>3, <1>4 DEF IsView, Viewing
        <5> QED BY <5>2, <1>3, <1>4 DEF Kept
      <4> QED BY <4>1, <3>1, <1>3, <1>4, <1>5 DEF WrittenWhile, Apart
    <3>3. \A t, r \in Tensors :
             HasMemory(t)' /\ HasMemory(r)' /\ r < t /\ WrittenWhile(t, r)' =>
                Apart(t, r, PlanOffset, PlanSize)'
      BY <3>2, <1>1, <1>4 DEF PlanOK
    <3>4. \A t \in Tensors : \A j \in 1..Len(Src(t)') : plan'[t].src[j] = plan'[Src(t)'[j]].dst
      BY <1>1, <1>4 DEF PlanOK
    <3>5. \A t \in Tensors : HasMemory(t)' =>
             /\ plan'[t].dst.offset \in Nat /\ plan'[t].dst.size_max \in Nat
             /\ plan'[t].dst.offset + Aligned(plan'[t].dst.size_max) <= buffer'
      BY <1>1, <1>4 DEF PlanOK
    <3>6. \A t, r \in Tensors :
              HasMemory(t)' /\ HasMemory(r)' /\ plan'[t].dst.size_max = plan'[r].dst.size_max
                => graph'[t].size = graph'[r].size
      BY <1>1, <1>2, <1>4 DEF PlanOK
    <3>7. Len(graph') = Len(plan') BY <1>1, <1>2 DEF PlanOK
    <3> QED BY <3>3, <3>4, <3>5, <3>6, <3>7, <2>2, <1>3 DEF PlanOK
  <2>4. Served'
    <3>1. ASSUME NEW t \in Tensors, HasMemory(t) PROVE graph'[t].size <= plan[t].dst.size_max
      <4>1. OwnsMemory(graph', t) /\ t \in 1..Len(graph') BY <3>1, <1>2, <1>4 DEF HasMemory, Tensors
      <4>2. graph'[t].kind \notin {"ext", "view", "dep"} BY <4>1 DEF OwnsMemory
      <4>3. plan[t].dst.size_max \in Nat BY <3>1, <1>1 DEF PlanOK
      <4>4. Fits(graph', t, plan[t].dst) => plan[t].dst.size_max >= graph'[t].size
        BY <4>2 DEF Fits
      <4>5. CASE ~Before(graph, t)
        <5>1. ~Before(graph', t) BY <4>5, <1>4
        <5>2. Fits(graph', t, plan[t].dst) BY <5>1, <4>1, <1>7 DEF NeedsRealloc
        <5> QED BY <5>2, <4>3, <4>4, <1>2
      <4>6. CASE Before(graph, t)
        <5>1. graph[t].kind = "leaf" BY <4>6, <3>1 DEF Before, HasMemory, OwnsMemory
        <5>2. PICK i \in Tensors : \E j \in 1..Len(Src(i)) : Src(i)[j] = t
          BY <5>1, <1>1 DEF PlanOK, LeafsRead, Tensors, Src, Reads
        <5>3. PICK j \in 1..Len(Src(i)) : Src(i)[j] = t BY <5>2
        <5>4. i \in Nodes BY <5>3, <1>1, Sources
        <5>5. ~Before(graph', i) /\ i \in 1..Len(graph') BY <5>4, <1>2, <1>4 DEF Nodes, Tensors
        <5>6. j \in 1..Len(graph'[i].src) /\ graph'[i].src[j] = t BY <5>3, <1>3 DEF Src
        <5>7. Fits(graph', t, plan[i].src[j])
          BY <5>5, <5>6, <1>7 DEF NeedsRealloc
        <5>8. plan[i].src[j] = plan[t].dst BY <5>3, <1>1 DEF PlanOK
        <5> QED BY <5>7, <5>8, <4>3, <4>4, <1>2
      <4> QED BY <4>5, <4>6
    <3> QED BY <3>1, <2>1, <1>1, <1>3, <1>4 DEF Served
  <2> QED BY <2>1, <2>3, <2>4, <1>1, <1>2 DEF Inv, Stages, Planning
<1> QED BY <1>6, <1>7

-----------------------------------------------------------------------------
(* The inductive invariant                                                 *)

LEMMA InitInv == Init => Inv
<1> SUFFICES ASSUME Init PROVE Inv OBVIOUS
<1>1. WellFormed(graph) BY GraphAssumption DEF Init
<1> QED BY <1>1 DEF Init, Inv, Stages, Planning

LEMMA NextInv == Inv /\ [Next]_vars => Inv'
<1> SUFFICES ASSUME Inv, [Next]_vars PROVE Inv' OBVIOUS
<1>1. CASE Build
  <2>1. stage = "build" /\ stage' = "build" /\ buffer' = buffer /\ WellFormed(graph')
    BY <1>1 DEF Build
  <2> QED BY <2>1 DEF Inv, Stages, Planning
<1>2. CASE ReserveBegin BY <1>2, ReserveBeginStep
<1>3. CASE PlanLeaf BY <1>3, PlanLeafStep
<1>4. CASE PlanParent BY <1>4, PlanParentStep
<1>5. CASE PlanNode BY <1>5, PlanNodeStep
<1>6. CASE PlanRelease BY <1>6, PlanReleaseStep
<1>7. CASE ReserveEnd BY <1>7, ReserveEndStep
<1>8. CASE AllocGraph BY <1>8, AllocGraphStep
<1>9. CASE UNCHANGED vars
  <2>1. UNCHANGED <<graph, plan, buffer, addr, stage, at, arg, hashVars, talloc>>
    BY <1>9 DEF vars, graphVars
  <2>2. UNCHANGED <<n_children, n_views, offset, allocated, free_blocks, max_size>>
    BY <2>1 DEF hashVars, talloc
  <2>3. Planned' <=> Planned
    BY <2>1, <2>2 DEF Planned, Cursor, HashType, Counts, Held, GivenBack, Tiled, Placed,
       Pending, Live, Readers, ViewsOf, CountsAsView, ReadsOf, Visited, Needed, TakenOver,
       Size, InUse, Apart, WrittenWhile, Kept, Sizes_, Tensors, Nodes, HasMemory, IsView, Root, Src
  <2>4. (PlanOK' <=> PlanOK) /\ (Served' <=> Served)
    BY <2>1, <2>2 DEF PlanOK, Served, ReadsOf, Apart, WrittenWhile, Kept, PlanOffset, PlanSize,
       Tensors, Nodes, HasMemory, IsView, Root, Src
  <2> QED BY <2>1, <2>3, <2>4 DEF Inv, Planning
<1> QED BY <1>1, <1>2, <1>3, <1>4, <1>5, <1>6, <1>7, <1>8, <1>9 DEF Next

LEMMA AlwaysInv == Spec => []Inv
BY InitInv, NextInv, PTL DEF Spec

-----------------------------------------------------------------------------
(* What it shows                                                           *)

\* ggml_dyn_tallocr_alloc and ggml_dyn_tallocr_free_tensor lose no memory,
\* hand none out twice and keep the free blocks sorted and merged.
THEOREM NothingLost == Spec => []MemoryTiled
<1>1. Inv => MemoryTiled
  <2> SUFFICES ASSUME Inv, Planning PROVE MemoryTiled BY DEF MemoryTiled
  <2>1. Tiled /\ Coalesced(free_blocks) BY DEF Inv, Planned, Tiled, BlocksOK
  <2>2. ASSUME NEW x \in 0..Huge - 1
        PROVE  Cardinality({t \in Tensors : InUse(t, x)}) = IF IsFree(free_blocks, x) THEN 0 ELSE 1
    <3> DEFINE users == {t \in Tensors : InUse(t, x)}
    <3>1. CASE IsFree(free_blocks, x)
      <4>1. users = {} BY <2>1, <3>1, TiledRead
      <4> QED BY <3>1, <4>1, FS_EmptySet
    <3>2. CASE ~IsFree(free_blocks, x)
      <4>1. PICK t \in Tensors : InUse(t, x) BY <2>1, <3>2, TiledRead
      <4>2. users = {t} BY <2>1, <4>1, TiledRead
      <4> QED BY <3>2, <4>2, FS_Singleton
    <3> QED BY <3>1, <3>2
  <2> QED BY <2>1, <2>2 DEF MemoryTiled
<1> QED BY <1>1, AlwaysInv, PTL

\* ggml_gallocr_free_node runs after the last reader of every tensor, also of
\* one that is read through views.
THEOREM FreedAfterLastReader == Spec => []MemoryGivenBack
<1>1. Inv => MemoryGivenBack
  <2> SUFFICES ASSUME Inv, stage = "parents",
                      NEW t \in Tensors, HasMemory(t), ReadsOf(t) # {}, ~UnreadView(t),
                      ~graph[t].out, \A i \in ReadsOf(t) : i < at, allocated[t]
               PROVE  FALSE
    BY DEF MemoryGivenBack, Leafs, Nodes
  <2>1. WellFormed(graph) /\ Planned BY DEF Inv, Planning
  <2>2. n_children[t] > 0 \/ n_views[t] > 0
    BY <2>1 DEF Planned, GivenBack, Needed
  <2>3. at \in Nat /\ Counts /\ Tensors \subseteq Nat BY <2>1, Place DEF Planned
  <2>4. ASSUME NEW v \in Tensors, Root(v) = t, Pending(v) # {} PROVE FALSE
    <3>1. PICK r \in Pending(v) : TRUE BY <2>4
    <3>2. /\ r[1] \in Nodes /\ r[2] \in 1..Len(Src(r[1])) /\ Src(r[1])[r[2]] = v
          /\ r[1] >= at
      <4>1. /\ r[1] \in Nodes /\ r[2] \in 1..MaxSrc /\ r[2] <= Len(Src(r[1]))
            /\ Src(r[1])[r[2]] = v /\ (r[1] > at \/ r[1] = at)
        BY <3>1 DEF Pending, Readers
      <4>2. r[1] \in Nat /\ Len(Src(r[1])) \in Nat BY <4>1, <2>1, <2>3, Shape DEF Nodes
      <4> QED BY <4>1, <4>2, <2>3, GraphAssumption
    <3>3. r[1] \in ReadsOf(t) BY <3>2, <2>4 DEF ReadsOf
    <3>4. r[1] < at /\ r[1] \in Nat BY <3>2, <3>3, <2>3 DEF Nodes
    <3> QED BY <3>2, <3>4, <2>3
  <2>5. CASE n_children[t] > 0
    <3>1. Pending(t) # {} BY <2>1, <2>3, <2>5, CountsRead
    <3>2. Root(t) = t BY <2>1, Roots
    <3> QED BY <3>1, <3>2, <2>4
  <2>6. CASE n_views[t] > 0
    <3>1. Live(t) # {} BY <2>1, <2>3, <2>6, CountsRead
    <3>2. PICK v \in ViewsOf(t) : Readers(v) = {} \/ Pending(v) # {} BY <3>1 DEF Live
    <3>3. v \in Nodes /\ v \in Tensors /\ graph[v].kind = "view" /\ Root(v) = t
      BY DEF ViewsOf, CountsAsView, Nodes, Root, IsView, Viewing
    <3>4. Readers(v) # {} BY <3>3 DEF UnreadView
    <3> QED BY <3>2, <3>3, <3>4, <2>4
  <2> QED BY <2>2, <2>5, <2>6
<1> QED BY <1>1, AlwaysInv, PTL

\* ggml_gallocr_alloc_graph: no node of a graph overwrites what a later one
\* reads, at the addresses of a plan made for it or for an earlier graph.
THEOREM NothingOverwritten == Spec => []DataIntact
<1>1. Inv => DataIntact
  <2> SUFFICES ASSUME Inv, stage = "allocated" PROVE DataIntact BY DEF DataIntact
  <2>1. WellFormed(graph) /\ PlanOK /\ Served /\ Tensors \subseteq Nat
    BY Shape DEF Inv, Tensors
  <2>2. ASSUME NEW t \in Tensors, HasMemory(t)
        PROVE  /\ addr[t] = PlanOffset[t] /\ addr[t] \in Nat /\ graph[t].size \in Nat
               /\ PlanSize[t] \in Nat /\ Aligned(PlanSize[t]) \in Nat
               /\ graph[t].size <= Aligned(PlanSize[t])
    <3>1. /\ addr[t] = PlanOffset[t] /\ addr[t] \in Nat /\ PlanSize[t] \in Nat
          /\ graph[t].size <= PlanSize[t] /\ graph[t].size \in Nat
      BY <2>1, <2>2, Shape DEF PlanOK, Served, PlanOffset, PlanSize
    <3>2. Aligned(PlanSize[t]) \in Nat /\ PlanSize[t] <= Aligned(PlanSize[t])
      BY <3>1, AlignedUp
    <3> QED BY <3>1, <3>2
  <2>3. ASSUME NEW t \in Tensors, NEW r \in Tensors, HasMemory(t), HasMemory(r), r < t,
               WrittenWhile(t, r), Overlap(t, r)
        PROVE  /\ graph[t].kind = "inplace" /\ addr[t] = addr[r] /\ graph[t].size = graph[r].size
               /\ ~Kept(r) /\ \A i \in ReadsOf(r) : i <= t
    <3>1. Apart(t, r, PlanOffset, PlanSize) BY <2>1, <2>3 DEF PlanOK
    <3>2. ~Separate(PlanOffset[t], Aligned(PlanSize[t]), PlanOffset[r], Aligned(PlanSize[r]))
      <4>1. /\ addr[t] = PlanOffset[t] /\ addr[t] \in Nat /\ graph[t].size \in Nat
            /\ Aligned(PlanSize[t]) \in Nat /\ graph[t].size <= Aligned(PlanSize[t])
            /\ addr[r] = PlanOffset[r] /\ addr[r] \in Nat /\ graph[r].size \in Nat
            /\ Aligned(PlanSize[r]) \in Nat /\ graph[r].size <= Aligned(PlanSize[r])
        BY <2>2, <2>3
      <4> QED BY <4>1, <2>3 DEF Overlap, Separate
    <3>3. /\ graph[t].kind = "inplace" /\ PlanOffset[t] = PlanOffset[r]
          /\ PlanSize[t] = PlanSize[r]
          /\ ~Kept(r) /\ \A i \in ReadsOf(r) : i <= t
      BY <3>1, <3>2 DEF Apart
    <3>4. graph[t].size = graph[r].size BY <3>3, <2>1, <2>3 DEF PlanOK, PlanSize
    <3> QED BY <3>3, <3>4, <2>2, <2>3
  <2>4. ASSUME NEW t \in Leafs, NEW u \in Leafs, t # u PROVE ~Overlap(t, u)
    <3>1. ASSUME NEW a \in Leafs, NEW b \in Leafs, b < a PROVE ~Overlap(a, b)
      <4>1. a \in Tensors /\ b \in Tensors /\ HasMemory(a) /\ HasMemory(b)
            /\ Before(graph, a) /\ graph[a].kind # "inplace"
        BY DEF Leafs, HasMemory, OwnsMemory, Before
      <4> QED BY <3>1, <4>1, <2>3 DEF WrittenWhile
    <3>a. t \in Nat /\ u \in Nat BY <2>1 DEF Leafs
    <3>2. t < u \/ u < t BY <3>a, <2>4
    <3>3. Overlap(t, u) <=> Overlap(u, t) BY DEF Overlap
    <3> QED BY <3>1, <3>2, <3>3
  <2>5. ASSUME NEW i \in Nodes, NEW r \in Tensors, HasMemory(r), i \in ReadsOf(r),
               NEW t \in Tensors, Destroys(t, r, i)
        PROVE  FALSE
    <3>1. r < t /\ t <= i /\ HasMemory(t) /\ t \in Nodes /\ Overlap(t, r) BY <2>5 DEF Destroys
    <3>2. i \in Nat /\ t \in Nat BY <2>1 DEF Nodes
    <3>3. WrittenWhile(t, r)
      <4>1. i >= t BY <3>1, <3>2
      <4> QED BY <4>1, <2>5 DEF WrittenWhile
    <3>4. /\ graph[t].kind = "inplace" /\ addr[t] = addr[r] /\ graph[t].size = graph[r].size
          /\ i <= t
      BY <3>1, <3>3, <2>3, <2>5
    <3>5. t = i BY <3>1, <3>2, <3>4
    <3> QED BY <3>4, <3>5, <2>5 DEF Destroys
  <2>6. ASSUME NEW v \in Tensors, graph[v].out, HasMemory(Root(v)),
               NEW t \in Tensors, Destroys(t, Root(v), Len(graph) + 1)
        PROVE  FALSE
    <3>1. Root(v) \in Tensors /\ (Root(v) # v => IsView(v)) BY <2>1, Roots
    <3>2. Kept(Root(v))
      <4>1. CASE Root(v) = v BY <4>1, <2>6 DEF Kept
      <4>2. CASE Root(v) # v
        <5>1. IsView(v) /\ v \in Nodes
          BY <3>1, <4>2 DEF IsView, Viewing, Nodes, Before
        <5> QED BY <5>1, <2>6 DEF Kept
      <4> QED BY <4>1, <4>2
    <3>3. Root(v) < t /\ HasMemory(t) /\ Overlap(t, Root(v)) BY <2>6 DEF Destroys
    <3>4. WrittenWhile(t, Root(v)) BY <3>2 DEF WrittenWhile
    <3> QED BY <2>3, <2>6, <3>1, <3>2, <3>3, <3>4
  <2> QED BY <2>4, <2>5, <2>6 DEF DataIntact
<1> QED BY <1>1, AlwaysInv, PTL

\* And every address lies in the buffer that was reserved last.
THEOREM AddressesInBuffer == Spec => []InBuffer
<1>1. Inv => InBuffer
  <2> SUFFICES ASSUME Inv, stage = "allocated", NEW t \in Tensors, HasMemory(t)
               PROVE  addr[t] >= 0 /\ addr[t] + graph[t].size <= buffer
    BY DEF InBuffer
  <2>1. WellFormed(graph) /\ PlanOK /\ Served /\ buffer \in Nat BY DEF Inv
  <2>2. /\ addr[t] = plan[t].dst.offset /\ addr[t] \in Nat /\ graph[t].size \in Nat
        /\ plan[t].dst.size_max \in Nat /\ graph[t].size <= plan[t].dst.size_max
        /\ plan[t].dst.offset + Aligned(plan[t].dst.size_max) <= buffer
    BY <2>1, Shape DEF PlanOK, Served
  <2>3. /\ Aligned(plan[t].dst.size_max) \in Nat
        /\ plan[t].dst.size_max <= Aligned(plan[t].dst.size_max)
    BY <2>2, AlignedUp
  <2> QED BY <2>1, <2>2, <2>3
<1> QED BY <1>1, AlwaysInv, PTL
=============================================================================
