--------------------------- MODULE MCGraphAlloc ---------------------------
(***************************************************************************)
(* Graphs of up to MaxTensors tensors over a leaf, or a leaf and external  *)
(* data.  Each tensor is read, ends the graph or is the one output; copies *)
(* follow the dependency that holds their source.                          *)
(***************************************************************************)
EXTENDS GraphAlloc

CONSTANT MaxTensors

Sizes == {1, 3}

MakeTensor(kind, src, view_src, size, out) ==
    [kind |-> kind, src |-> src, view_src |-> view_src, size |-> size, out |-> out]
Leaf(size) == MakeTensor("leaf", <<>>, 0, size, FALSE)
Weight == MakeTensor("ext", <<>>, 0, 0, FALSE)

MCLeading == {<<Leaf(1)>>, <<Leaf(3), Weight>>}

\* The nodes that can come next.
LastIsDep(g) == g[Len(g)].kind = "dep"
Copies(g) == IF LastIsDep(g) THEN {MakeTensor("op", <<>>, 0, size, FALSE) : size \in Sizes} ELSE {}
IsRoot(g, t) == g[t].kind \notin {"view", "dep"}
Sources(g) == {t \in 1..Len(g) : g[t].kind # "dep" /\ (g[t].out => IsRoot(g, t))}
RootIn(g, t) == IF IsRoot(g, t) THEN t ELSE g[t].view_src
HasOutput(g) == \E t \in 1..Len(g) : g[t].out
Ops(g) ==
    {MakeTensor("op", <<t>>, 0, size, out) :
        t \in Sources(g), size \in Sizes, out \in {FALSE, ~HasOutput(g)}}
    \cup {MakeTensor("inplace", src, 0, g[src[1]].size, FALSE) :
            src \in UNION {{<<t>>, <<t, t>>} : t \in {u \in Sources(g) : g[u].size > 0}}}
    \cup {MakeTensor("inplace", q, 0, size, FALSE) :
            q \in {r \in Sources(g) \X Sources(g) : r[1] < r[2]}, size \in Sizes}
Views(g) ==
    {MakeTensor(kind, <<t>>, RootIn(g, t), 0, FALSE) : kind \in {"view", "dep"}, t \in Sources(g)}
    \cup {MakeTensor("view", <<t>>, RootIn(g, t), 0, TRUE) : t \in {u \in Sources(g) : ~HasOutput(g)}}

\* Each tensor is read or ends the graph.
IsRead(g, t) == \E i \in 1..Len(g) : Reads(g, i, t)
MCComplete(g) ==
    /\ g[Len(g)].kind \notin {"leaf", "ext", "dep"}
    /\ \A t \in 1..Len(g) - 1 : g[t].kind # "dep" => IsRead(g, t) \/ g[t].out

Nexts(g) == IF LastIsDep(g) THEN Copies(g) ELSE Ops(g) \cup Views(g)
MCFollowing(g) ==
    IF Len(g) = MaxTensors THEN {}
    ELSE {t \in Nexts(g) : Len(g) + 1 = MaxTensors => MCComplete(Append(g, t))}

\* The tensors of another batch: as large, all small, or all large.
MCResized(g) ==
    {g} \cup {[t \in 1..Len(g) |-> IF g[t].size = 0 THEN g[t] ELSE [g[t] EXCEPT !.size = size]] :
                 size \in Sizes}
=============================================================================
