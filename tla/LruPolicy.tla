----------------------------- MODULE LruPolicy -----------------------------
(***************************************************************************)
(* What a byte-bounded LRU policy promises, without a list, an index or a  *)
(* counter: requests are served in order, and the slices kept are the most *)
(* recently used ones, as many as fit into the budget next to the last.    *)
(***************************************************************************)
EXTENDS Integers, Sequences, Functions

CONSTANTS Capacities, Batches

VARIABLES
    budget,  \* bytes
    asked,   \* the rest of a batch of [key, bytes], being served
    kept,    \* size of each slice kept: a function on some keys
    older    \* pairs <<a, b>> of kept slices, a used before b

policyVars == <<budget, asked, kept, older>>

NoneKept == [k \in {} |-> 0]

Weight(S) == SumFunctionOnSet(kept, S)

\* S holds, with a candidate of C, every candidate used after it.
Recent(S, C) == \A a \in S, b \in C : <<a, b>> \in older => b \in S

\* The order left when only S is kept and k was used last.
Order(S, k) == { p \in older : p[1] \in S /\ p[2] \in S } \cup (S \X {k})

Ask == asked = <<>> /\ asked' \in Batches /\ UNCHANGED <<budget, kept, older>>

Use(k, b) ==
    LET others == DOMAIN kept \ {k}
        hit == k \in DOMAIN kept /\ kept[k] = b
        Room(S) == Recent(S, others) /\ Weight(S) + b <= budget
    IN  \/ /\ hit
           /\ older' = Order(others, k)
           /\ UNCHANGED kept
        \/ /\ ~hit /\ (b = 0 \/ b > budget)
           /\ kept' = [x \in others |-> kept[x]]
           /\ older' = { p \in older : k \notin {p[1], p[2]} }
        \/ /\ ~hit /\ b > 0 /\ b <= budget
           /\ \E S \in SUBSET others :
                 /\ Room(S)
                 /\ \A T \in SUBSET others : Room(T) => T \subseteq S
                 /\ kept' = [x \in S \cup {k} |-> IF x = k THEN b ELSE kept[x]]
                 /\ older' = Order(S, k)

Serve ==
    /\ asked # <<>>
    /\ Use(Head(asked).key, Head(asked).bytes)
    /\ asked' = Tail(asked)
    /\ UNCHANGED budget

Restart ==
    /\ asked = <<>>
    /\ budget' \in Capacities /\ kept' = NoneKept /\ older' = {}
    /\ UNCHANGED asked

PolicyInit == budget \in Capacities /\ asked = <<>> /\ kept = NoneKept /\ older = {}

PolicySpec == PolicyInit /\ [][Ask \/ Serve \/ Restart]_policyVars
=============================================================================
