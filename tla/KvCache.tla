------------------------------ MODULE KvCache ------------------------------
(***************************************************************************)
(* llama_kv_cache of an attention model, as llama_context uses it from one *)
(* thread: cells with positions and sequences, the rows of K and V behind  *)
(* them, position shifts applied lazily by the next update, defragmenting  *)
(* moves, and state files.  A row is the token it was computed for and the *)
(* position its K is rotated to.  Operators map the struct to the struct   *)
(* the function leaves.  Bounds: positions up to MaxPos, batches of        *)
(* MaxBatch tokens.                                                        *)
(***************************************************************************)
EXTENDS Integers, Sequences, FiniteSets, FiniteSetsExt, SequencesExt

CONSTANTS
    NCells,   \* cache.size, a multiple of Pad
    Pad,      \* get_padding(flash_attn)
    Seqs,
    AnySeq,      \* -1: every sequence
    MaxPos, MaxBatch, MaxOps,
    Deltas,   \* shifts a caller asks for
    Divisor   \* ga_n of self-extend

ASSUME KvAssumption ==
    /\ NCells \in Nat \ {0} /\ Pad \in Nat \ {0} /\ NCells % Pad = 0
    /\ MaxPos \in Nat /\ MaxBatch \in Nat \ {0} /\ MaxOps \in Nat /\ AnySeq \notin Seqs
    /\ Deltas \subseteq Int \ {0} /\ Divisor \in Nat \ {0, 1}

VARIABLES
    kv_self,    \* the struct, with its tensors as rows
    saved,      \* a state file: its cells in order
    unsettled,  \* history: a state was saved or restored with a shift pending
    ops         \* operations on sequences and states so far, at most MaxOps

vars == <<kv_self, saved, unsettled, ops>>
Cells == 0..NCells - 1

NoRow == [tok |-> AnySeq, rope |-> 0]
EmptyCell == [pos |-> -1, delta |-> 0, seqs |-> {}]
Used(cells) == {i \in Cells : cells[i].seqs # {}}

\* The row of a cell that is not in use is never read.
Readable(kv) == [kv EXCEPT !.rows = [i \in Cells |-> IF kv.cells[i].seqs = {} THEN NoRow ELSE @[i]]]

Init ==
    /\ kv_self = [cells |-> [i \in Cells |-> EmptyCell], rows |-> [i \in Cells |-> NoRow],
                  head |-> 0, used |-> 0, n |-> 0, has_shift |-> FALSE, do_defrag |-> FALSE]
    /\ saved = [whole |-> FALSE, cells |-> <<>>] /\ unsettled = FALSE
    /\ ops = 0

-----------------------------------------------------------------------------
(* llama_kv_cache_find_slot                                                *)

FreeRun(cells, h, k) == h + k <= NCells /\ \A i \in h..h + k - 1 : cells[i].pos < 0

\* Cells passed over when the search wraps round.
WrapsFromZero(h) == NCells  \* mutant: counted as a whole round
WrapsFrom(h) == NCells - h

\* The cell after the first one in use among the k from h on.
Past(cells, h, k) == 1 + Min({i \in h..h + k - 1 : cells[i].pos >= 0})

\* The search at a cell, with so many cells tested: upwards, then from cell 0.
Scan(cells, k) ==
    LET scan[p \in (0..NCells) \X Nat] ==
            LET h == p[1]
                tested == p[2]
                past == Past(cells, h, k)
            IN  IF h + k > NCells THEN scan[<<0, tested + WrapsFrom(h)>>]
                ELSE IF FreeRun(cells, h, k) THEN [found |-> TRUE, head |-> h]
                ELSE IF tested + past - h >= NCells THEN [found |-> FALSE, head |-> past]
                ELSE scan[<<past, tested + past - h>>]
    IN  scan

FindSlot(kv, k) ==
    IF k > NCells THEN [found |-> FALSE, head |-> kv.head] ELSE Scan(kv.cells, k)[<<kv.head, 0>>]

\* The batch in consecutive cells from head on.
Placed(kv, toks) ==
    [kv EXCEPT !.cells = [i \in Cells |->
                             IF i - kv.head \in 0..Len(toks) - 1
                             THEN [kv.cells[i] EXCEPT !.pos = toks[i - kv.head + 1].pos,
                                                     !.seqs = @ \cup toks[i - kv.head + 1].seqs]
                             ELSE kv.cells[i]],
               !.used = @ + Len(toks)]

Written(kv, rows) ==
    [kv EXCEPT !.rows = [i \in Cells |-> IF i - kv.head \in 0..Len(rows) - 1
                                        THEN rows[i - kv.head + 1] ELSE @[i]]]

-----------------------------------------------------------------------------
(* The operations on sequences                                             *)

In(c, s, p0, p1) == (s = AnySeq \/ s \in c.seqs) /\ p0 <= c.pos /\ c.pos < p1

\* A freed cell keeps its delta.
Freed(c) == [pos |-> -1, delta |-> c.delta, seqs |-> {}]
FreedIfEmpty(c) == IF c.seqs = {} THEN Freed(c) ELSE c

\* The first freed cell becomes head when it lies below it.
Lowered(head, freed) == IF freed = {} THEN head ELSE Min({head, Min(freed)})

SeqRm(kv, s, p0, p1) ==
    LET hit   == {i \in Cells : In(kv.cells[i], s, p0, p1)}
        left  == [i \in hit |-> IF s = AnySeq THEN {} ELSE kv.cells[i].seqs \ {s}]
        freed == {i \in hit : left[i] = {}}
    IN  [kv EXCEPT !.cells = [i \in Cells |-> IF i \in hit
                                  THEN FreedIfEmpty([@[i] EXCEPT !.seqs = left[i]]) ELSE @[i]],
                   !.used = @ - Cardinality(freed), !.head = Lowered(@, freed)]

SeqCp(kv, from, to, p0, p1) ==
    [kv EXCEPT !.cells = [i \in Cells |-> IF In(kv.cells[i], from, p0, p1)
                              THEN [kv.cells[i] EXCEPT !.seqs = @ \cup {to}] ELSE kv.cells[i]],
               !.head = 0]

CountedFree(kv, I) == I  \* mutant: empty cells are counted again
Counted(kv, I) == {i \in I : kv.cells[i].pos >= 0}

SeqKeep(kv, s) ==
    LET others == {i \in Cells : s \notin kv.cells[i].seqs}
    IN  [kv EXCEPT !.cells = [i \in Cells |-> IF i \in others THEN Freed(@[i])
                                             ELSE [@[i] EXCEPT !.seqs = {s}]],
                   !.used = @ - Cardinality(Counted(kv, others)),
                   !.head = Lowered(@, others)]

SeqAdd(kv, s, p0, p1, d) ==
    LET hit   == {i \in Cells : In(kv.cells[i], s, p0, p1)}
        freed == {i \in hit : kv.cells[i].pos + d < 0}
        moved == [i \in hit |-> [kv.cells[i] EXCEPT !.pos = @ + d, !.delta = @ + d]]
    IN  [kv EXCEPT !.cells = [i \in Cells |-> IF i \in freed THEN Freed(moved[i])
                                             ELSE IF i \in hit THEN moved[i] ELSE @[i]],
                   !.has_shift = @ \/ hit # {},
                   !.used = @ - Cardinality(freed),
                   !.head = IF freed = {} THEN 0 ELSE Min(freed)]

SeqDiv(kv, s, p0, p1) ==
    LET hit == {i \in Cells : In(kv.cells[i], s, p0, p1)}
        Divided(c) == [c EXCEPT !.pos = @ \div Divisor,
                                !.delta = @ + c.pos \div Divisor - c.pos]
    IN  [kv EXCEPT !.cells = [i \in Cells |-> IF i \in hit THEN Divided(kv.cells[i]) ELSE @[i]],
                   !.has_shift = @ \/ hit # {}]

Cleared(kv) ==
    [kv EXCEPT !.cells = [i \in Cells |-> Freed(@[i])], !.rows = [i \in Cells |-> NoRow],
               !.head = 0, !.used = 0]

-----------------------------------------------------------------------------
(* llama_kv_cache_update                                                   *)

\* The K shift rotates every row by its delta.
KShiftTwice(kv) ==  \* mutant: the deltas stay pending
    [kv EXCEPT !.rows = [i \in Cells |-> [kv.rows[i] EXCEPT !.rope = @ + kv.cells[i].delta]],
               !.has_shift = FALSE]
KShift(kv) ==
    [kv EXCEPT !.rows = [i \in Cells |-> [kv.rows[i] EXCEPT !.rope = @ + kv.cells[i].delta]],
               !.cells = [i \in Cells |-> [@[i] EXCEPT !.delta = 0]],
               !.has_shift = FALSE]

\* Defragmenting fills the holes below used with the last cells in use: the
\* first run of holes with the topmost cells, each run in ascending order.
Holes(kv) == {i \in 0..kv.used - 1 : kv.cells[i].seqs = {}}
Beyond(kv) == {i \in Used(kv.cells) : i >= kv.used}
SameRun(H, i, j) == i..j \subseteq H /\ j..i \subseteq H
FilledAbove(H, i) == {j \in H : IF SameRun(H, i, j) THEN j > i ELSE j < i}
Ranked(S, r) == CHOOSE i \in S : Cardinality({j \in S : j > i}) = r
Source(kv, i) == Ranked(Beyond(kv), Cardinality(FilledAbove(Holes(kv), i)))

\* The graph has room for so many moves of contiguous cells: the last hole
\* filled ends one.  How many is left open.
StopsAfter(kv, i) == \A j \in Holes(kv) : j > i => Source(kv, j) # Source(kv, i) + 1
Fillings(kv) ==
    IF Holes(kv) = {} THEN {{}}
    ELSE {{j \in Holes(kv) : j <= i} : i \in {h \in Holes(kv) : StopsAfter(kv, h)}}

\* Metadata and rows are moved apart: the loop moves cells, the graph rows.
RowKept(kv, i) == i  \* mutant: the graph is not run
RowSource(kv, i) == Source(kv, i)

Defragged(kv, filled) ==
    [kv EXCEPT !.cells = [i \in Cells |-> IF i \in filled THEN @[Source(kv, i)]
                              ELSE IF i \in {Source(kv, h) : h \in filled} THEN EmptyCell
                              ELSE @[i]],
               !.rows = [i \in Cells |-> IF i \in filled THEN @[RowSource(kv, i)] ELSE @[i]],
               !.head = IF filled = {} THEN @ ELSE kv.used,
               !.do_defrag = FALSE]

Updates(kv) ==
    LET shifted == IF kv.has_shift THEN KShift(kv) ELSE kv
    IN  IF kv.do_defrag THEN {Defragged(shifted, f) : f \in Fillings(shifted)} ELSE {shifted}

-----------------------------------------------------------------------------
(* llama_decode, one ubatch                                                *)

PositionsOf(s) == {kv_self.cells[i].pos : i \in {j \in Cells : s \in kv_self.cells[j].seqs}}
NextPos(s) == IF PositionsOf(s) = {} THEN 0 ELSE 1 + Max(PositionsOf(s))

\* A batch of the tokens that come next in their sequences.
NewToken(s, p) == [pos |-> p, seqs |-> {s}, row |-> [tok |-> s, rope |-> p]]
Batches ==
    {b \in UNION {[1..k -> Seqs] : k \in 1..MaxBatch} :
        /\ \A j \in 1..Len(b) - 1 : b[j] <= b[j + 1]
        /\ \A s \in Seqs : NextPos(s) + Cardinality({j \in DOMAIN b : b[j] = s}) <= MaxPos + 1}
TokensOf(b) ==
    [j \in DOMAIN b |-> NewToken(b[j], NextPos(b[j]) + Cardinality({m \in 1..j - 1 : b[m] = b[j]}))]
RowsOf(toks) == [j \in DOMAIN toks |-> toks[j].row]

\* Plenty of unused cells below head: the search starts from cell 0.
HeadForSearch(kv, k) == IF kv.head > kv.used + 2 * k THEN 0 ELSE kv.head

\* llama_kv_cache_cell_max with a stride looks at every Pad-th cell, and
\* above the first of them in use at each one.
CellMax(cells) ==
    LET used   == {i \in Cells : cells[i].pos >= 0 /\ cells[i].seqs # {}}
        strides == {i \in used : (i + 1) % Pad = 0}
    IN  IF strides = {} THEN 0 ELSE 1 + Max({i \in used : i < Max(strides) + Pad})

Padded(m) == ((m + Pad - 1) \div Pad) * Pad
AttendedUnpadded(cells) == CellMax(cells)  \* mutant: no padding
Attended(cells) == Min({NCells, Max({Pad, Padded(CellMax(cells))})})

\* A fragmented cache may ask for a defragmentation in the next update; the
\* threshold is left open.
Fragmented(kv) == kv.used < kv.n

Decode(b) == \E kv \in Updates(kv_self) :
    LET toks == TokensOf(b)
        slot == FindSlot([kv EXCEPT !.head = HeadForSearch(kv, Len(b))], Len(b))
        put  == Placed([kv EXCEPT !.head = slot.head], toks)
        done == Written(put, RowsOf(toks))
        head == slot.head + Len(b)
    IN  /\ slot.found
        /\ \E defrag \in {FALSE, TRUE} :
              LET kv1 == [done EXCEPT !.n = Attended(put.cells),
                                      !.head = IF head >= NCells THEN 0 ELSE head]
              IN  /\ defrag => Fragmented(kv1)
                  /\ kv_self' = Readable([kv1 EXCEPT !.do_defrag = @ \/ defrag])

\* No room: the update has been done, and the search has moved head.
DecodeFails(b) == \E kv \in Updates(kv_self) :
    LET slot == FindSlot([kv EXCEPT !.head = HeadForSearch(kv, Len(b))], Len(b))
    IN  /\ ~slot.found
        /\ kv_self' = Readable([kv EXCEPT !.head = slot.head])

-----------------------------------------------------------------------------
(* State files                                                             *)

\* Cells of a set from the lowest to the highest.
CellsIn(I) == [k \in 1..Cardinality(I) |-> Ranked(I, Cardinality(I) - k)]
Save(whole, s) ==
    LET cells == CellsIn({i \in Used(kv_self.cells) : whole \/ s \in kv_self.cells[i].seqs})
    IN  /\ cells # <<>>
        /\ saved' = [whole |-> whole,
                     cells |-> [k \in DOMAIN cells |->
                         [pos |-> kv_self.cells[cells[k]].pos, row |-> kv_self.rows[cells[k]],
                          seqs |-> IF whole THEN kv_self.cells[cells[k]].seqs ELSE {}]]]
        /\ unsettled' = (unsettled \/ kv_self.has_shift)
        /\ UNCHANGED kv_self

\* One sequence: its cells are freed, a slot is found, the rows are read.
\* When either fails the sequence is lost.  head stays at the slot.
RestoreSeq(s) ==
    LET kv   == SeqRm(kv_self, s, 0, MaxPos + 1)
        toks == [k \in DOMAIN saved.cells |-> [saved.cells[k] EXCEPT !.seqs = {s}]]
        slot == FindSlot(kv, Len(toks))
        at   == [kv EXCEPT !.head = slot.head]
        put  == Placed(at, toks)
    IN  /\ ~saved.whole /\ saved.cells # <<>>
        /\ \/ slot.found /\ kv_self' = Readable(Written(put, RowsOf(toks)))
           \/ slot.found /\ kv_self' = Readable(SeqRm(put, s, 0, MaxPos + 1))
           \/ ~slot.found /\ kv_self' = Readable(at)
        /\ unsettled' = (unsettled \/ kv_self.has_shift)
        /\ UNCHANGED saved

\* The whole cache, which is cleared first and again when reading fails.
RestoreAll ==
    LET put == Placed(Cleared(kv_self), saved.cells)
    IN  /\ saved.whole
        /\ \E kv \in {Written(put, RowsOf(saved.cells)), Cleared(put)} :
              kv_self' = Readable(kv)
        /\ unsettled' = (unsettled \/ kv_self.has_shift)
        /\ UNCHANGED saved

-----------------------------------------------------------------------------
(* Specification                                                           *)

\* The ranges of the callers: from a position on, or one position.
Ranges == {r \in (0..MaxPos) \X (1..MaxPos + 1) : r[1] < r[2] /\ r[2] \in {r[1] + 1, MaxPos + 1}}

\* Bounds: positions up to MaxPos, one shift pending for a cell.
Bounded(kv) == \A i \in Cells : kv.cells[i].pos <= MaxPos /\ kv.cells[i].delta \in Deltas \cup {0}
Becomes(kv) == Bounded(kv) /\ kv_self' = Readable(kv)

SeqOp ==
    \/ Becomes(Cleared(kv_self))
    \/ Becomes([kv_self EXCEPT !.do_defrag = TRUE])
    \/ \E s \in Seqs : Becomes(SeqKeep(kv_self, s))
    \/ \E s, t \in Seqs : s # t /\ Becomes(SeqCp(kv_self, s, t, 0, MaxPos + 1))
    \/ \E r \in Ranges, s \in Seqs \cup {AnySeq} : Becomes(SeqRm(kv_self, s, r[1], r[2]))
    \/ \E r \in Ranges, s \in Seqs, d \in Deltas : Becomes(SeqAdd(kv_self, s, r[1], r[2], d))
    \/ \E r \in Ranges, s \in Seqs : Becomes(SeqDiv(kv_self, s, r[1], r[2]))

StateOp ==
    \/ Save(TRUE, AnySeq) \/ \E s \in Seqs : Save(FALSE, s)
    \/ RestoreAll \/ \E s \in Seqs : RestoreSeq(s)

Next ==
    \/ /\ \E b \in Batches : Decode(b) \/ DecodeFails(b)
       /\ UNCHANGED <<saved, unsettled, ops>>
    \/ /\ \E kv \in Updates(kv_self) : Becomes(kv)
       /\ UNCHANGED <<saved, unsettled, ops>>
    \/ /\ ops < MaxOps /\ ops' = ops + 1
       /\ StateOp \/ (SeqOp /\ UNCHANGED <<saved, unsettled>>)

Spec == Init /\ [][Next]_vars

-----------------------------------------------------------------------------
(* Properties                                                              *)

Row == [tok : Seqs \cup {AnySeq}, rope : Int]

\* Every field of the struct keeps its type; head is a cell, n a multiple of
\* the padding that get_padding asks for.
KvTypeOK ==
    /\ \A i \in Cells : kv_self.cells[i] \in [pos : -1..MaxPos, delta : Int, seqs : SUBSET Seqs]
    /\ \A i \in Cells : kv_self.rows[i] \in Row
    /\ kv_self.head \in 0..NCells /\ kv_self.used \in Int
    /\ kv_self.n \in 0..NCells /\ kv_self.n % Pad = 0
    /\ kv_self.has_shift \in BOOLEAN /\ kv_self.do_defrag \in BOOLEAN
    /\ unsettled \in BOOLEAN /\ ops \in 0..MaxOps

\* used counts the cells with a sequence, and a cell has one exactly when it
\* has a position: what the assertion "KV defrag bug: nf != nh" relies on,
\* and what llama_kv_cache_view_update recounts.
UsedExact ==
    /\ kv_self.used = Cardinality(Used(kv_self.cells))
    /\ \A i \in Cells : kv_self.cells[i].pos >= 0 <=> i \in Used(kv_self.cells)

\* The K of a cell is rotated to the cell's position, up to the shift still
\* pending: "If the KV cache is RoPEd, the KV data is updated accordingly:
\* lazily on next llama_decode()" (llama.h).
KeysMatchPositions ==
    unsettled \/ \A i \in Used(kv_self.cells) :
        /\ kv_self.rows[i].rope + kv_self.cells[i].delta = kv_self.cells[i].pos
        /\ kv_self.cells[i].delta # 0 => kv_self.has_shift

\* find_slot gives up only when no run of free cells is long enough, wherever
\* the search starts: n_tested counts every cell once.
SearchComplete ==
    \A k \in 1..MaxBatch :
        FindSlot(kv_self, k).found <=> \E h \in Cells : FreeRun(kv_self.cells, h, k)

\* The cells and rows implement a store of tokens: no operation loses a token
\* it was not asked to remove, and defragmenting, shifting and searching are
\* invisible.
Store == INSTANCE KvStore WITH
    store <- {[tok |-> kv_self.rows[i].tok, pos |-> kv_self.cells[i].pos,
               seqs |-> kv_self.cells[i].seqs] : i \in Used(kv_self.cells)},
    saved <- [whole |-> saved.whole,
              toks |-> {[tok |-> c.row.tok, pos |-> c.pos, seqs |-> c.seqs] :
                           c \in ToSet(saved.cells)}]
IsKvStore == Store!Spec

\* llama.cpp:1865 on cell_max: "find how many cells are currently in use":
\* the n cells a decode attends to hold all the cells of its sequences.
AttendsOwnSequences ==
    [][\A b \in Batches : Decode(b) =>
          \A i \in Used(kv_self'.cells) :
              kv_self'.cells[i].seqs \cap ToSet(b) # {} => i < kv_self'.n]_vars
=============================================================================
