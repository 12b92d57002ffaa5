------------------------------ MODULE KvStore ------------------------------
(***************************************************************************)
(* What the KV cache promises its callers, without cells: a set of tokens, *)
(* each with its position and the sequences it belongs to.  llama.h, where *)
(* the functions are declared, speaks of tokens only.                      *)
(***************************************************************************)
EXTENDS Integers, FiniteSets

CONSTANTS Seqs, AnySeq, MaxPos, MaxBatch, Deltas, Divisor

VARIABLES
    store,  \* set of [tok, pos, seqs]
    saved   \* state file: [whole, toks]; seqs is {} when one sequence is saved

Init == store = {} /\ saved = [whole |-> FALSE, toks |-> {}]

Live(toks) == {t \in toks : t.seqs # {}}
In(t, s, p0, p1) == (s = AnySeq \/ s \in t.seqs) /\ p0 <= t.pos /\ t.pos < p1
Map(op(_), s, p0, p1) == {IF In(t, s, p0, p1) THEN op(t) ELSE t : t \in store}

\* The next position of a sequence, and the tokens of a batch.
PositionsOf(s) == {t.pos : t \in {u \in store : s \in u.seqs}}
NextPos(s) == CHOOSE p \in 0..MaxPos + 1 :
                  (\A q \in PositionsOf(s) : q < p) /\ (p = 0 \/ p - 1 \in PositionsOf(s))
Batches == {b \in [Seqs -> 0..MaxBatch] :
                /\ \E s \in Seqs : b[s] > 0
                /\ \A s \in Seqs : NextPos(s) + b[s] <= MaxPos + 1}
Tokens(b) == UNION {{[tok |-> s, pos |-> p, seqs |-> {s}] :
                        p \in NextPos(s)..NextPos(s) + b[s] - 1} : s \in Seqs}
Ranges == {r \in (0..MaxPos) \X (1..MaxPos + 1) : r[1] < r[2]}

Decode == \E b \in Batches : store' = store \cup Tokens(b)

Remove == \E s \in Seqs \cup {AnySeq}, r \in Ranges :
    LET Without(t) == [t EXCEPT !.seqs = IF s = AnySeq THEN {} ELSE @ \ {s}]
    IN  store' = Live(Map(Without, s, r[1], r[2]))

Copy == \E from, to \in Seqs, r \in Ranges :
    LET With(t) == [t EXCEPT !.seqs = @ \cup {to}]
    IN  store' = Map(With, from, r[1], r[2])

Keep == \E s \in Seqs :
    store' = {[t EXCEPT !.seqs = {s}] : t \in {u \in store : s \in u.seqs}}

\* A token moved to a negative position is gone.
Add == \E s \in Seqs, r \in Ranges, d \in Deltas :
    LET Moved(t) == [t EXCEPT !.pos = @ + d]
    IN  store' = {t \in Map(Moved, s, r[1], r[2]) : t.pos >= 0}

Div == \E s \in Seqs, r \in Ranges :
    LET Divided(t) == [t EXCEPT !.pos = @ \div Divisor]
    IN  store' = Map(Divided, s, r[1], r[2])

Save ==
    \/ saved' = [whole |-> TRUE, toks |-> store]
    \/ \E s \in Seqs :
          saved' = [whole |-> FALSE,
                    toks |-> {[t EXCEPT !.seqs = {}] : t \in {u \in store : s \in u.seqs}}]

Restore ==
    \/ saved.whole /\ store' = saved.toks
    \/ /\ ~saved.whole
       /\ \E s \in Seqs :
             store' = Live({[t EXCEPT !.seqs = @ \ {s}] : t \in store})
                          \cup {[t EXCEPT !.seqs = {s}] : t \in saved.toks}

Next ==
    \/ (Decode \/ Restore \/ Remove \/ Copy \/ Keep \/ Add \/ Div) /\ UNCHANGED saved
    \/ Save /\ UNCHANGED store

Spec == Init /\ [][Next]_<<store, saved>>
=============================================================================
