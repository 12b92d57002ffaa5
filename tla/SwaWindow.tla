----------------------------- MODULE SwaWindow -----------------------------
(***************************************************************************)
(* The KV cache of a context created with --swa-compress, for its one      *)
(* sequence.  Layers with full attention keep a cell per position; the     *)
(* sliding-window layers keep the rows [sink_rows, head_swa) of size_swa,  *)
(* row(pos) = sink_rows + pos - pos_base_swa, and copy the last window to  *)
(* the front when the next ubatch does not fit.  Cells are the positions   *)
(* they hold (KvCache has them in full), a row is the position it was      *)
(* written for.  n_past is the position from which the server goes on.     *)
(***************************************************************************)
EXTENDS Integers, FiniteSets

CONSTANTS
    NCells,    \* cache.size
    Window,    \* hparams.n_swa
    NUbatch,
    Pad,       \* get_padding(flash_attn)
    Sinks,     \* param_sink_number, 0 for all models but openPangu
    MinSlack   \* 256

RoundUp(n) == ((n + Pad - 1) \div Pad) * Pad
RoundDown(n) == (n \div Pad) * Pad
Least(a, b) == IF a < b THEN a ELSE b

\* llama_swa_compact_rows, and the part of it the graph can view.
Slack == IF NUbatch > MinSlack THEN NUbatch ELSE MinSlack
SizeSwa == RoundUp(Sinks + Window + Slack)
Capacity == RoundDown(SizeSwa - Sinks)

\* Compaction is on when it saves rows.  The last conjunct is what the code
\* needs of its parameters: it follows from SizeSwa when Pad divides Sinks.
ASSUME SwaAssumption ==
    /\ NCells \in Nat /\ Window \in Nat \ {0} /\ NUbatch \in Nat \ {0}
    /\ Pad \in Nat \ {0} /\ Sinks \in Nat /\ MinSlack \in Nat
    /\ SizeSwa \in Nat /\ SizeSwa < NCells
    /\ Capacity \in Nat /\ Sinks + Capacity <= SizeSwa
    /\ Window + NUbatch <= Capacity

VARIABLES
    cells,         \* positions the cells of the sequence hold
    rows,          \* position each row was written for, or None
    head_swa, pos_base_swa,
    n_past,
    n_tokens,      \* size of the ubatch just decoded, 0 after anything else
    saved,         \* a state file of the sequence
    overrun        \* history: a refused rewind was taken for done

window == <<rows, head_swa, pos_base_swa>>
vars == <<cells, window, n_past, n_tokens, saved, overrun>>

None == -1
AllRows == 0..SizeSwa - 1
NoRows == [i \in AllRows |-> None]

live_swa == head_swa - Sinks
End == pos_base_swa + live_swa
RowOf(pos) == Sinks + pos - pos_base_swa

Init ==
    /\ cells = {} /\ rows = NoRows
    /\ head_swa = Sinks /\ pos_base_swa = 0
    /\ n_past = 0 /\ n_tokens = 0 /\ overrun = FALSE
    /\ saved = [cells |-> {}, rows |-> NoRows, head_swa |-> Sinks, pos_base_swa |-> 0]

-----------------------------------------------------------------------------
(* llama_decode, one ubatch of k tokens                                    *)

\* llama_kv_cache_compact_swa: Window rows are copied to the front.
DoesNotFitLate(k) == live_swa > Capacity  \* mutant: the ubatch is not counted
DoesNotFit(k) == live_swa + k > Capacity
SourceRowBelow(i) == i + live_swa - Window - 1  \* mutant: off by one
SourceRow(i) == i + live_swa - Window

CompactedRows ==
    [i \in AllRows |-> IF i >= Sinks /\ i < Sinks + Window THEN rows[SourceRow(i)]
                                                          ELSE rows[i]]

\* The graph writes the ubatch at the head of the window.
Write(old, head, k) ==
    [i \in AllRows |-> IF i >= head /\ i < head + k THEN n_past + i - head ELSE old[i]]

Advance(old, head, base, k) ==
    /\ rows' = Write(old, head, k)
    /\ head_swa' = head + k /\ pos_base_swa' = base

\* Each token takes a cell, also one that comes twice after an overrun.
Decode(k) ==
    /\ n_past + k <= NCells /\ End + k <= NCells
    /\ cells' = cells \cup (n_past..n_past + k - 1)
    /\ IF DoesNotFit(k)
       THEN Advance(CompactedRows, Sinks + Window, pos_base_swa + live_swa - Window, k)
       ELSE Advance(rows, head_swa, pos_base_swa, k)
    /\ n_past' = n_past + k /\ n_tokens' = k
    /\ UNCHANGED <<saved, overrun>>

\* The rows the graph of the last ubatch views: enough for the window of its
\* first token, in units of Pad, at the end of the live rows.
ViewWidthOneToken(live) ==  \* mutant: room for one token's window
    Least(RoundUp(Window), RoundUp(live))
ViewWidth(live) == Least(RoundUp(Window + Pad + n_tokens), RoundUp(live))
View(live) ==
    Sinks + RoundUp(live) - ViewWidth(live)..Sinks + RoundUp(live) - 1

\* The mask computes a row's position from pos_base_swa.
PosOfRow(i) == pos_base_swa + i - Sinks
Attended(pos) ==
    {i \in View(live_swa) :
        /\ PosOfRow(i) >= pos_base_swa
        /\ PosOfRow(i) <= pos /\ pos - PosOfRow(i) < Window}

-----------------------------------------------------------------------------
(* Removal from p0 to the end, the range the server asks for               *)

\* A position from which the rows that are left hold a whole window.
CanCutAnywhere(p0) == p0 >= pos_base_swa  \* mutant: the window may get short
CanCut(p0) == pos_base_swa = 0 \/ p0 >= pos_base_swa + Window

Removes(p0) == p0 = 0 \/ p0 >= End \/ CanCut(p0)
Cut(p0) ==
    /\ cells' = cells \cap 0..p0 - 1
    /\ IF p0 >= End THEN UNCHANGED <<head_swa, pos_base_swa>>
       ELSE IF p0 = 0 THEN head_swa' = Sinks /\ pos_base_swa' = 0
       ELSE head_swa' = RowOf(p0) /\ UNCHANGED pos_base_swa
    /\ UNCHANGED rows

\* A new prompt keeps a prefix; when that is refused the sequence is cleared.
Trim(p0) ==
    /\ p0 <= n_past
    /\ LET q == IF Removes(p0) THEN p0 ELSE 0
       IN  Cut(q) /\ n_past' = q /\ overrun' = (overrun /\ q # 0)
    /\ n_tokens' = 0 /\ UNCHANGED saved

\* Back over a banned string: the answer of seq_rm is not looked at.
Rewind(p0) ==
    /\ 0 < p0 /\ p0 < n_past
    /\ IF Removes(p0) THEN Cut(p0) ELSE UNCHANGED <<cells, window>>
    /\ n_past' = p0 /\ overrun' = (overrun \/ ~Removes(p0))
    /\ n_tokens' = 0 /\ UNCHANGED saved

Clear ==
    /\ cells' = {} /\ rows' = NoRows /\ head_swa' = Sinks /\ pos_base_swa' = 0
    /\ n_past' = 0 /\ n_tokens' = 0 /\ overrun' = FALSE /\ UNCHANGED saved

-----------------------------------------------------------------------------
(* State of the sequence                                                   *)

\* A file saved after an overrun is not followed further.
Save ==
    /\ n_past > 0 /\ ~overrun
    /\ saved' = [cells |-> cells, rows |-> rows,
                 head_swa |-> head_swa, pos_base_swa |-> pos_base_swa]
    /\ UNCHANGED <<cells, window, n_past, n_tokens, overrun>>

\* read_kv_cache refuses a file whose window does not end with its cells.
Consistent(file) ==
    /\ Sinks <= file.head_swa /\ file.head_swa <= SizeSwa
    /\ file.pos_base_swa + file.head_swa - Sinks = Cardinality(file.cells)

\* The window of the file, set after the removal that resets it.
RestoredTooEarly(file) ==  \* mutant: the removal comes after
    head_swa' = Sinks /\ pos_base_swa' = 0
Restored(file) ==
    head_swa' = file.head_swa /\ pos_base_swa' = file.pos_base_swa

\* The sequence is removed, its cells and rows are read from the file; when
\* reading fails it is removed again.
Restore ==
    /\ saved.cells # {} /\ Consistent(saved)
    /\ cells' = saved.cells /\ Restored(saved)
    /\ rows' = [i \in AllRows |-> IF i >= Sinks /\ i < saved.head_swa THEN saved.rows[i]
                                                                    ELSE rows[i]]
    /\ n_past' = Cardinality(saved.cells)
    /\ n_tokens' = 0 /\ overrun' = FALSE /\ UNCHANGED saved

RestoreFails ==
    /\ saved.cells # {} /\ Consistent(saved)
    /\ \E read \in Sinks..saved.head_swa :
          rows' = [i \in AllRows |-> IF i >= Sinks /\ i < read THEN saved.rows[i] ELSE rows[i]]
    /\ cells' = {} /\ head_swa' = Sinks /\ pos_base_swa' = 0
    /\ n_past' = 0 /\ n_tokens' = 0 /\ overrun' = FALSE /\ UNCHANGED saved

Next ==
    \/ \E k \in 1..NUbatch : Decode(k)
    \/ \E p0 \in 0..NCells : Trim(p0) \/ Rewind(p0)
    \/ Clear \/ Save \/ Restore \/ RestoreFails

Spec == Init /\ [][Next]_vars

-----------------------------------------------------------------------------
(* Properties                                                              *)

File == [cells : SUBSET (0..NCells - 1), rows : [AllRows -> None..NCells - 1],
         head_swa : Sinks..SizeSwa, pos_base_swa : 0..NCells]

\* The head stays among the rows, "kv_self.head_swa <= kv_self.size_swa"
\* (llama.cpp:6969), whatever is removed, restored or compacted.
SwaTypeOK ==
    /\ cells \subseteq 0..NCells - 1
    /\ rows \in [AllRows -> None..NCells - 1]
    /\ head_swa \in Sinks..SizeSwa /\ pos_base_swa \in 0..NCells
    /\ n_past \in 0..NCells /\ n_tokens \in 0..NUbatch
    /\ saved \in File /\ overrun \in BOOLEAN

\* The window ends where the server goes on and the cells hold every
\* position below: compaction, cuts and restores keep the two in step.
WindowEndsAtNext == ~overrun => n_past = End /\ cells = 0..n_past - 1

\* Once rows were dropped a whole window is left, "the retained window must
\* lie inside the live region" (llama.cpp:1808): also after a cut.
WindowKept == pos_base_swa = 0 \/ live_swa >= Window

\* Each live row holds the position row(pos) says.
RowsHoldPositions ==
    ~overrun => \A i \in Sinks..head_swa - 1 : rows[i] = PosOfRow(i)

\* Each token of a ubatch attends to the rows of the last Window positions up
\* to its own, all of them and no others, and the view exists.
AttendsWindow ==
    n_tokens > 0 /\ ~overrun =>
        /\ View(live_swa) \subseteq Sinks..SizeSwa - 1
        /\ \A pos \in n_past - n_tokens..n_past - 1 :
              {rows[i] : i \in Attended(pos)}
                  = {p \in 0..pos : pos - p < Window}

\* A saved sequence can be restored.
SavedRestorable == saved.cells # {} => Consistent(saved)
=============================================================================
