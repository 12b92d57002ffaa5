--------------------------- MODULE SwaWindowProofs ---------------------------
(***************************************************************************)
(* The invariants of SwaWindow for every window, ubatch, padding and       *)
(* number of rows.  Inv adds to the checked properties that the window     *)
(* never outgrows what the graph can view, that the last ubatch came after *)
(* a whole window, and the same facts about a saved file.                  *)
(***************************************************************************)
EXTENDS SwaWindow, FiniteSetTheorems, TLAPS

UsableRows ==
    /\ live_swa <= Capacity /\ End <= NCells
    /\ n_tokens <= live_swa
    /\ n_tokens > 0 => pos_base_swa = 0 \/ live_swa - n_tokens >= Window

EndOf(file) == file.pos_base_swa + file.head_swa - Sinks

FileWhole ==
    saved.cells # {} =>
        /\ saved.head_swa - Sinks <= Capacity /\ EndOf(saved) <= NCells
        /\ saved.cells = 0..EndOf(saved) - 1
        /\ saved.pos_base_swa = 0 \/ saved.head_swa - Sinks >= Window
        /\ \A i \in Sinks..saved.head_swa - 1 :
               saved.rows[i] = saved.pos_base_swa + i - Sinks

Inv ==
    /\ SwaTypeOK /\ WindowEndsAtNext /\ WindowKept /\ RowsHoldPositions
    /\ UsableRows /\ FileWhole

-----------------------------------------------------------------------------

\* What the proofs use of the parameters; SizeSwa and Capacity stay opaque.
LEMMA Parameters ==
    /\ NCells \in Nat /\ Window \in Nat /\ Window > 0 /\ NUbatch \in Nat /\ NUbatch > 0
    /\ Pad \in Nat /\ Pad > 0 /\ Sinks \in Nat
    /\ SizeSwa \in Nat /\ SizeSwa < NCells /\ Capacity \in Nat
    /\ Sinks + Capacity <= SizeSwa /\ Window + NUbatch <= Capacity
BY SwaAssumption

LEMMA InitInv == Init => Inv
<1> SUFFICES ASSUME Init PROVE Inv
  OBVIOUS
<1> USE Parameters
<1>1. NoRows \in [AllRows -> None..NCells - 1]
  BY DEF NoRows, None
<1>2. SwaTypeOK
  <2>1. saved \in File
    BY <1>1 DEF Init, File
  <2>2. head_swa \in Sinks..SizeSwa /\ pos_base_swa \in 0..NCells
    BY DEF Init
  <2>3. n_past \in 0..NCells /\ n_tokens \in 0..NUbatch /\ cells \subseteq 0..NCells - 1
    BY DEF Init
  <2> QED BY <1>1, <2>1, <2>2, <2>3 DEF Init, SwaTypeOK
<1>3. live_swa = 0 /\ End = 0
  BY DEF Init, live_swa, End
<1>4. WindowEndsAtNext /\ WindowKept /\ UsableRows
  BY <1>3 DEF Init, WindowEndsAtNext, WindowKept, UsableRows
<1>5. RowsHoldPositions /\ FileWhole
  BY DEF Init, RowsHoldPositions, FileWhole
<1> QED BY <1>2, <1>4, <1>5 DEF Inv

\* A ubatch, with or without a compaction before it.
LEMMA DecodeInv ==
    ASSUME Inv, NEW k \in 1..NUbatch, Decode(k)
    PROVE  Inv'
<1> USE Parameters
<1> DEFINE base == IF DoesNotFit(k) THEN pos_base_swa + live_swa - Window ELSE pos_base_swa
           head == IF DoesNotFit(k) THEN Sinks + Window ELSE head_swa
           old  == IF DoesNotFit(k) THEN CompactedRows ELSE rows
<1>1. /\ rows' = Write(old, head, k)
      /\ head_swa' = head + k /\ pos_base_swa' = base
  BY DEF Decode, Advance
<1>2. /\ n_past + k <= NCells /\ End + k <= NCells
      /\ cells' = cells \cup (n_past..n_past + k - 1)
      /\ n_past' = n_past + k /\ n_tokens' = k
      /\ UNCHANGED <<saved, overrun>>
  BY DEF Decode
<1>3. /\ rows \in [AllRows -> None..NCells - 1] /\ n_past \in Nat
      /\ head_swa \in Sinks..SizeSwa /\ pos_base_swa \in Nat /\ live_swa <= Capacity
  BY DEF Inv, SwaTypeOK, UsableRows
<1>4. DoesNotFit(k) => live_swa >= Window
  BY <1>3 DEF DoesNotFit, live_swa
<1>5. /\ base \in Nat /\ head \in Nat /\ head >= Sinks
      /\ base + head - Sinks = End
      /\ head - Sinks + k <= Capacity
      /\ base = 0 \/ head - Sinks >= Window
  BY <1>3, <1>4 DEF DoesNotFit, live_swa, End, Inv, WindowKept
<1> HIDE DEF base, head
<1>6. old \in [AllRows -> None..NCells - 1]
  <2>1. CASE DoesNotFit(k)
    <3>1. ASSUME NEW i \in AllRows, i >= Sinks, i < Sinks + Window
          PROVE  SourceRow(i) \in AllRows
      BY <2>1, <3>1, <1>3, <1>4 DEF SourceRow, AllRows, live_swa
    <3> QED BY <2>1, <3>1, <1>3 DEF CompactedRows
  <2>2. CASE ~DoesNotFit(k)
    BY <2>2, <1>3
  <2> QED BY <2>1, <2>2
<1>7. ~overrun => \A i \in Sinks..head - 1 : old[i] = base + i - Sinks
  <2> SUFFICES ASSUME ~overrun, NEW i \in Sinks..head - 1
               PROVE  old[i] = base + i - Sinks
    OBVIOUS
  <2>1. \A j \in Sinks..head_swa - 1 : rows[j] = pos_base_swa + j - Sinks
    BY DEF Inv, RowsHoldPositions, PosOfRow
  <2>2. CASE DoesNotFit(k)
    <3>1. i \in AllRows /\ i >= Sinks /\ i < Sinks + Window
      BY <2>2, <1>3, <1>4 DEF head, AllRows, live_swa
    <3>2. old[i] = rows[SourceRow(i)]
      BY <2>2, <3>1 DEF CompactedRows
    <3>3. SourceRow(i) \in Sinks..head_swa - 1
      BY <2>2, <3>1, <1>3, <1>4 DEF SourceRow, live_swa
    <3> QED BY <2>1, <2>2, <3>2, <3>3, <3>1, <1>3 DEF SourceRow, live_swa, base
  <2>3. CASE ~DoesNotFit(k)
    BY <2>1, <2>3 DEF head, base
  <2> QED BY <2>2, <2>3
<1> HIDE DEF old
<1>8. SwaTypeOK'
  <2>1. rows' \in [AllRows -> None..NCells - 1]
    BY <1>1, <1>2, <1>3, <1>5, <1>6 DEF Write, None, AllRows
  <2>2. /\ head_swa' \in Sinks..SizeSwa /\ pos_base_swa' \in 0..NCells
        /\ n_past' \in 0..NCells /\ n_tokens' \in 0..NUbatch
        /\ cells' \subseteq 0..NCells - 1
    BY <1>1, <1>2, <1>3, <1>5 DEF Inv, SwaTypeOK
  <2> QED BY <1>2, <2>1, <2>2 DEF Inv, SwaTypeOK
<1>9. WindowEndsAtNext' /\ WindowKept' /\ UsableRows'
  <2>1. End' = End + k /\ live_swa' = head - Sinks + k
    BY <1>1, <1>3, <1>5 DEF End, live_swa
  <2> QED BY <1>1, <1>2, <1>3, <1>5, <2>1
          DEF Inv, WindowEndsAtNext, WindowKept, UsableRows
<1>10. RowsHoldPositions'
  <2> SUFFICES ASSUME ~overrun', NEW i \in Sinks..head + k - 1
               PROVE  rows'[i] = base + i - Sinks
    BY <1>1, <1>5 DEF RowsHoldPositions, PosOfRow
  <2>1. i \in AllRows
    BY <1>5 DEF AllRows
  <2>2. n_past = base + head - Sinks
    BY <1>2, <1>5 DEF Inv, WindowEndsAtNext
  <2>3. CASE i < head
    BY <1>1, <1>2, <1>5, <1>7, <2>1, <2>3 DEF Write
  <2>4. CASE i >= head
    BY <1>1, <1>3, <1>5, <2>1, <2>2, <2>4 DEF Write
  <2> QED BY <1>5, <2>3, <2>4
<1>11. FileWhole'
  BY <1>2 DEF Inv, FileWhole, EndOf
<1> QED BY <1>8, <1>9, <1>10, <1>11 DEF Inv

\* A removal that is not refused: the window ends at p0 or where it did, is
\* whole unless nothing was dropped, and its rows are some of those before.
LEMMA CutWindow ==
    ASSUME Inv, NEW p0 \in 0..NCells, Removes(p0), Cut(p0)
    PROVE  /\ head_swa' \in Sinks..head_swa /\ pos_base_swa' \in 0..pos_base_swa
           /\ End \in Nat /\ End' = IF p0 >= End THEN End ELSE p0
           /\ pos_base_swa' = pos_base_swa \/ head_swa' = Sinks
           /\ pos_base_swa' = 0 \/ live_swa' >= Window
           /\ live_swa' \in 0..Capacity /\ End' <= NCells
           /\ p0 = 0 => head_swa' = Sinks /\ End' = 0
<1> USE Parameters DEF End, live_swa
<1>1. /\ head_swa \in Sinks..SizeSwa /\ pos_base_swa \in Nat
      /\ head_swa - Sinks <= Capacity /\ End <= NCells
      /\ pos_base_swa = 0 \/ head_swa - Sinks >= Window
  BY DEF Inv, SwaTypeOK, UsableRows, WindowKept
<1>2. CASE p0 >= End
  <2>1. head_swa' = head_swa /\ pos_base_swa' = pos_base_swa
    BY <1>2 DEF Cut
  <2> QED BY <1>1, <1>2, <2>1
<1>3. CASE p0 < End /\ p0 = 0
  <2>1. head_swa' = Sinks /\ pos_base_swa' = 0
    BY <1>1, <1>3 DEF Cut
  <2> QED BY <1>1, <1>3, <2>1
<1>4. CASE p0 < End /\ p0 # 0
  <2>1. head_swa' = Sinks + p0 - pos_base_swa /\ pos_base_swa' = pos_base_swa
    BY <1>1, <1>4 DEF Cut, RowOf
  <2>2. pos_base_swa = 0 \/ p0 >= pos_base_swa + Window
    BY <1>1, <1>4 DEF Removes, CanCut
  <2> QED BY <1>1, <1>4, <2>1, <2>2
<1> QED BY <1>1, <1>2, <1>3, <1>4

\* What such a removal keeps of Inv, whatever becomes of n_past.
LEMMA CutRest ==
    ASSUME Inv, NEW p0 \in 0..NCells, Removes(p0), Cut(p0), n_past' = p0, n_tokens' = 0,
           UNCHANGED saved
    PROVE  /\ cells' \subseteq 0..NCells - 1 /\ rows' \in [AllRows -> None..NCells - 1]
           /\ head_swa' \in Sinks..SizeSwa /\ pos_base_swa' \in 0..NCells
           /\ n_past' \in 0..NCells /\ n_tokens' \in 0..NUbatch /\ saved' \in File
           /\ WindowKept' /\ UsableRows' /\ FileWhole'
<1> USE Parameters
<1>1. /\ head_swa' \in Sinks..SizeSwa /\ pos_base_swa' \in 0..NCells
      /\ n_past' \in 0..NCells /\ n_tokens' \in 0..NUbatch
  BY CutWindow DEF Inv, SwaTypeOK
<1>2. /\ cells' \subseteq 0..NCells - 1 /\ rows' \in [AllRows -> None..NCells - 1]
      /\ saved' \in File /\ FileWhole'
  BY DEF Inv, SwaTypeOK, Cut, FileWhole, EndOf
<1>3. WindowKept' /\ UsableRows'
  BY CutWindow DEF WindowKept, UsableRows
<1> QED BY <1>1, <1>2, <1>3

\* Cut from the sequence whose window ends at n_past.
LEMMA CutInStep ==
    ASSUME Inv, NEW p0 \in 0..NCells, Removes(p0), Cut(p0), n_past' = p0,
           ~overrun, p0 <= n_past
    PROVE  /\ n_past' = End' /\ cells' = 0..n_past' - 1
           /\ \A i \in Sinks..head_swa' - 1 : rows'[i] = PosOfRow(i)'
<1> USE Parameters
<1>1. n_past = End /\ cells = 0..n_past - 1 /\ n_past \in Nat /\ head_swa \in Nat
  BY DEF Inv, WindowEndsAtNext, SwaTypeOK
<1>2. rows' = rows /\ cells' = cells \cap 0..p0 - 1
  BY DEF Cut
<1>3. n_past' = End' /\ cells' = 0..n_past' - 1
  BY <1>1, <1>2, CutWindow
<1>4. ASSUME NEW i \in Sinks..head_swa' - 1
      PROVE  i \in Sinks..head_swa - 1 /\ pos_base_swa' = pos_base_swa
  BY <1>1, CutWindow
<1>5. \A i \in Sinks..head_swa - 1 : rows[i] = pos_base_swa + i - Sinks
  BY DEF Inv, RowsHoldPositions, PosOfRow
<1> QED BY <1>2, <1>3, <1>4, <1>5 DEF PosOfRow

\* After a removal of everything it does not matter what was before.
LEMMA CutAll ==
    ASSUME Inv, Cut(0), n_past' = 0
    PROVE  /\ n_past' = End' /\ cells' = 0..n_past' - 1
           /\ \A i \in Sinks..head_swa' - 1 : rows'[i] = PosOfRow(i)'
<1> USE Parameters
<1>1. head_swa' = Sinks /\ End' = 0
  BY CutWindow DEF Removes
<1>2. cells' = {}
  BY DEF Cut
<1> QED BY <1>1, <1>2

LEMMA TrimInv ==
    ASSUME Inv, NEW p0 \in 0..NCells, Trim(p0)
    PROVE  Inv'
<1> DEFINE q == IF Removes(p0) THEN p0 ELSE 0
<1>1. q \in 0..NCells /\ Removes(q)
  BY Parameters DEF Removes
<1>2. /\ Cut(q) /\ n_past' = q /\ n_tokens' = 0 /\ UNCHANGED saved
      /\ q = 0 \/ q <= n_past
  BY DEF Trim
<1>3. overrun' = (overrun /\ q # 0)
  BY DEF Trim
<1> HIDE DEF q
<1>4. SwaTypeOK' /\ WindowKept' /\ UsableRows' /\ FileWhole'
  <2>1. overrun' \in BOOLEAN
    BY <1>3, Zenon
  <2> QED BY <1>1, <1>2, <2>1, CutRest, Zenon DEF SwaTypeOK
<1>5. ASSUME ~overrun'
      PROVE  /\ n_past' = End' /\ cells' = 0..n_past' - 1
             /\ \A i \in Sinks..head_swa' - 1 : rows'[i] = PosOfRow(i)'
  <2>1. CASE q = 0
    BY <1>2, <2>1, CutAll, Zenon
  <2>2. CASE q # 0
    BY <1>1, <1>2, <1>3, <1>5, <2>2, CutInStep, Zenon
  <2> QED BY <2>1, <2>2, Zenon
<1> QED BY <1>4, <1>5, Zenon DEF Inv, WindowEndsAtNext, RowsHoldPositions

LEMMA RewindInv ==
    ASSUME Inv, NEW p0 \in 0..NCells, Rewind(p0)
    PROVE  Inv'
<1>1. CASE Removes(p0)
  <2>1. /\ Cut(p0) /\ n_past' = p0 /\ n_tokens' = 0 /\ UNCHANGED saved
    BY <1>1 DEF Rewind
  <2>2. p0 <= n_past
    BY Parameters DEF Rewind, Inv, SwaTypeOK
  <2>3. overrun' = overrun /\ overrun \in BOOLEAN
    BY <1>1, Zenon DEF Rewind, Inv, SwaTypeOK
  <2>4. SwaTypeOK' /\ WindowKept' /\ UsableRows' /\ FileWhole'
    BY <1>1, <2>1, <2>3, CutRest, Zenon DEF SwaTypeOK
  <2>5. ASSUME ~overrun'
        PROVE  /\ n_past' = End' /\ cells' = 0..n_past' - 1
               /\ \A i \in Sinks..head_swa' - 1 : rows'[i] = PosOfRow(i)'
    BY <1>1, <2>1, <2>2, <2>3, <2>5, CutInStep, Zenon
  <2> QED BY <2>4, <2>5, Zenon DEF Inv, WindowEndsAtNext, RowsHoldPositions
<1>2. CASE ~Removes(p0)
  <2>1. /\ UNCHANGED <<cells, rows, head_swa, pos_base_swa, saved>>
        /\ n_past' = p0 /\ n_tokens' = 0
    BY <1>2 DEF Rewind, window
  <2>2. overrun' = TRUE
    BY <1>2, Zenon DEF Rewind
  <2>3. SwaTypeOK'
    BY <2>1, <2>2, Parameters DEF Inv, SwaTypeOK
  <2>4. WindowKept' /\ UsableRows' /\ FileWhole'
    <3>1. live_swa \in Nat
      BY Parameters DEF Inv, SwaTypeOK, live_swa
    <3>2. End' = End /\ live_swa' = live_swa
      BY <2>1 DEF End, live_swa
    <3> QED BY <2>1, <3>1, <3>2 DEF Inv, WindowKept, UsableRows, FileWhole, EndOf
  <2> QED BY <2>2, <2>3, <2>4, Zenon DEF Inv, WindowEndsAtNext, RowsHoldPositions
<1> QED BY <1>1, <1>2

LEMMA ClearInv == Inv /\ Clear => Inv'
<1> SUFFICES ASSUME Inv, Clear PROVE Inv'
  OBVIOUS
<1> USE Parameters
<1>1. NoRows \in [AllRows -> None..NCells - 1]
  BY DEF NoRows, None
<1>2. SwaTypeOK'
  <2>1. /\ head_swa' \in Sinks..SizeSwa /\ pos_base_swa' \in 0..NCells
        /\ n_past' \in 0..NCells /\ n_tokens' \in 0..NUbatch
    BY DEF Clear
  <2>2. /\ cells' \subseteq 0..NCells - 1 /\ rows' \in [AllRows -> None..NCells - 1]
        /\ saved' \in File /\ overrun' \in BOOLEAN
    BY <1>1 DEF Inv, SwaTypeOK, Clear
  <2> QED BY <2>1, <2>2 DEF SwaTypeOK
<1>3. live_swa' = 0 /\ End' = 0
  BY DEF Clear, live_swa, End
<1>4. WindowEndsAtNext' /\ WindowKept' /\ UsableRows'
  BY <1>3 DEF Clear, WindowEndsAtNext, WindowKept, UsableRows
<1>5. RowsHoldPositions' /\ FileWhole'
  BY DEF Inv, Clear, RowsHoldPositions, FileWhole, EndOf
<1> QED BY <1>2, <1>4, <1>5 DEF Inv

LEMMA SaveInv == Inv /\ Save => Inv'
<1> SUFFICES ASSUME Inv, Save PROVE Inv'
  OBVIOUS
<1> USE Parameters
<1>1. SwaTypeOK'
  <2>1. saved' \in File
    BY DEF Inv, SwaTypeOK, Save, File
  <2> QED BY <2>1 DEF Inv, SwaTypeOK, Save, window
<1>2. WindowEndsAtNext' /\ WindowKept' /\ UsableRows' /\ RowsHoldPositions'
  BY DEF Inv, Save, window, WindowEndsAtNext, WindowKept, UsableRows, RowsHoldPositions, PosOfRow,
         End, live_swa
<1>3. FileWhole'
  <2>1. saved' = [cells |-> cells, rows |-> rows,
                  head_swa |-> head_swa, pos_base_swa |-> pos_base_swa]
    BY DEF Save
  <2>2. EndOf(saved') = End /\ ~overrun
    BY <2>1 DEF Inv, SwaTypeOK, EndOf, End, live_swa, Save
  <2> QED BY <2>1, <2>2 DEF Inv, FileWhole, WindowEndsAtNext, WindowKept, UsableRows,
             RowsHoldPositions, PosOfRow, live_swa
<1> QED BY <1>1, <1>2, <1>3 DEF Inv

LEMMA RestoreInv == Inv /\ Restore => Inv'
<1> SUFFICES ASSUME Inv, Restore PROVE Inv'
  OBVIOUS
<1> USE Parameters
<1>1. /\ saved \in File /\ saved.cells # {} /\ Consistent(saved)
      /\ rows \in [AllRows -> None..NCells - 1]
  BY DEF Inv, SwaTypeOK, Restore
<1>2. /\ cells' = saved.cells /\ head_swa' = saved.head_swa
      /\ pos_base_swa' = saved.pos_base_swa /\ n_tokens' = 0 /\ overrun' = FALSE
      /\ saved' = saved /\ n_past' = EndOf(saved)
  BY <1>1 DEF Restore, Restored, Consistent, EndOf, File
<1>3. /\ saved.head_swa - Sinks <= Capacity /\ EndOf(saved) <= NCells
      /\ saved.cells = 0..EndOf(saved) - 1
      /\ saved.pos_base_swa = 0 \/ saved.head_swa - Sinks >= Window
      /\ \A i \in Sinks..saved.head_swa - 1 :
             saved.rows[i] = saved.pos_base_swa + i - Sinks
  BY <1>1 DEF Inv, FileWhole
<1>4. End' = EndOf(saved) /\ live_swa' = saved.head_swa - Sinks /\ EndOf(saved) \in Nat
  BY <1>1, <1>2 DEF End, live_swa, EndOf, File
<1>5. SwaTypeOK'
  <2>1. rows' \in [AllRows -> None..NCells - 1]
    BY <1>1 DEF Restore, File
  <2>2. /\ head_swa' \in Sinks..SizeSwa /\ pos_base_swa' \in 0..NCells
        /\ n_past' \in 0..NCells /\ n_tokens' \in 0..NUbatch
    BY <1>1, <1>2, <1>3, <1>4 DEF File
  <2>3. /\ cells' \subseteq 0..NCells - 1 /\ saved' \in File /\ overrun' \in BOOLEAN
    BY <1>1, <1>2 DEF File
  <2> QED BY <2>1, <2>2, <2>3 DEF SwaTypeOK
<1>6. WindowEndsAtNext' /\ WindowKept' /\ UsableRows'
  BY <1>1, <1>2, <1>3, <1>4 DEF WindowEndsAtNext, WindowKept, UsableRows, File
<1>7. RowsHoldPositions'
  <2> SUFFICES ASSUME NEW i \in Sinks..saved.head_swa - 1
               PROVE  rows'[i] = saved.pos_base_swa + i - Sinks
    BY <1>2 DEF RowsHoldPositions, PosOfRow
  <2>1. i \in AllRows /\ i >= Sinks /\ i < saved.head_swa
    BY <1>1 DEF AllRows, File
  <2> QED BY <2>1, <1>3 DEF Restore
<1>8. FileWhole'
  BY <1>2 DEF Inv, FileWhole, EndOf
<1> QED BY <1>5, <1>6, <1>7, <1>8 DEF Inv

LEMMA RestoreFailsInv == Inv /\ RestoreFails => Inv'
<1> SUFFICES ASSUME Inv, RestoreFails PROVE Inv'
  OBVIOUS
<1> USE Parameters
<1>1. rows' \in [AllRows -> None..NCells - 1]
  BY DEF Inv, SwaTypeOK, RestoreFails, File
<1>2. SwaTypeOK'
  <2>1. /\ head_swa' \in Sinks..SizeSwa /\ pos_base_swa' \in 0..NCells
        /\ n_past' \in 0..NCells /\ n_tokens' \in 0..NUbatch
    BY DEF RestoreFails
  <2>2. /\ cells' \subseteq 0..NCells - 1 /\ saved' \in File /\ overrun' \in BOOLEAN
    BY DEF Inv, SwaTypeOK, RestoreFails
  <2> QED BY <1>1, <2>1, <2>2 DEF SwaTypeOK
<1>3. live_swa' = 0 /\ End' = 0
  BY DEF RestoreFails, live_swa, End
<1>4. WindowEndsAtNext' /\ WindowKept' /\ UsableRows'
  BY <1>3 DEF RestoreFails, WindowEndsAtNext, WindowKept, UsableRows
<1>5. RowsHoldPositions' /\ FileWhole'
  BY DEF Inv, RestoreFails, RowsHoldPositions, FileWhole, EndOf
<1> QED BY <1>2, <1>4, <1>5 DEF Inv

-----------------------------------------------------------------------------

LEMMA NextInv == Inv /\ [Next]_vars => Inv'
<1> SUFFICES ASSUME Inv, [Next]_vars PROVE Inv'
  OBVIOUS
<1>1. ASSUME NEW k \in 1..NUbatch, Decode(k) PROVE Inv'
  BY <1>1, DecodeInv
<1>2. ASSUME NEW p0 \in 0..NCells, Trim(p0) PROVE Inv'
  BY <1>2, TrimInv
<1>3. ASSUME NEW p0 \in 0..NCells, Rewind(p0) PROVE Inv'
  BY <1>3, RewindInv
<1>4. CASE UNCHANGED vars
  BY <1>4 DEF vars, window, Inv, SwaTypeOK, WindowEndsAtNext, WindowKept, RowsHoldPositions,
              PosOfRow, UsableRows, FileWhole, EndOf, End, live_swa
<1> QED BY <1>1, <1>2, <1>3, <1>4, ClearInv, SaveInv, RestoreInv, RestoreFailsInv DEF Next

LEMMA AlwaysInv == Spec => []Inv
BY InitInv, NextInv, PTL DEF Spec

\* llama_kv_cache::head_swa, pos_base_swa and the rows stay within the
\* allocation that llama_swa_compact_rows computes.
THEOREM SwaTypeCorrect == Spec => []SwaTypeOK
<1>1. Inv => SwaTypeOK
  BY DEF Inv
<1> QED BY <1>1, AlwaysInv, PTL

\* llama_kv_cache_compact_swa and llama_kv_cache_seq_rm together: the window
\* ends where the server's next token goes, whatever was dropped or cut.
THEOREM WindowFollowsServer == Spec => []WindowEndsAtNext
<1>1. Inv => WindowEndsAtNext
  BY DEF Inv
<1> QED BY <1>1, AlwaysInv, PTL

\* Once compaction dropped rows, neither it nor a removal leaves fewer than a
\* whole window of them.
THEOREM WindowStaysWhole == Spec => []WindowKept
<1>1. Inv => WindowKept
  BY DEF Inv
<1> QED BY <1>1, AlwaysInv, PTL

\* Each row holds the position that the map row(pos) gives it, after any history
\* of ubatches, compactions, removals and restores.
THEOREM WindowCorrect == Spec => []RowsHoldPositions
<1>1. Inv => RowsHoldPositions
  BY DEF Inv
<1> QED BY <1>1, AlwaysInv, PTL

\* Rounding to the padding, what the view's arithmetic needs of it.
LEMMA Rounding ==
    ASSUME NEW n \in Nat
    PROVE  /\ RoundUp(n) \in Nat /\ n <= RoundUp(n) /\ RoundUp(n) < n + Pad
           /\ n <= Capacity => RoundUp(n) <= Capacity
<1> USE Parameters
<1> DEFINE d == (n + Pad - 1) \div Pad
           q == (SizeSwa - Sinks) \div Pad
<1>1. /\ d \in Nat /\ d * Pad <= n + Pad - 1 /\ n + Pad - 1 < (d + 1) * Pad
  OBVIOUS
<1>2. q \in Nat /\ Capacity = q * Pad
  BY DEF Capacity, RoundDown
<1>3. RoundUp(n) = d * Pad
  BY DEF RoundUp
<1> HIDE DEF d, q
<1>4. d * Pad \in Nat /\ (d + 1) * Pad = d * Pad + Pad
  BY <1>1
<1>5. ASSUME n <= Capacity PROVE d * Pad <= q * Pad
  <2>1. d * Pad < (q + 1) * Pad
    BY <1>1, <1>2, <1>4, <1>5
  <2>2. d < q + 1
    BY <1>1, <1>2, <2>1
  <2> QED BY <1>1, <1>2, <2>2
<1> QED BY <1>1, <1>2, <1>3, <1>4, <1>5

\* The view of build_inp_KQ_mask and the mask of llama_set_inputs: every token
\* of a ubatch attends to exactly the rows of its window, for any paddings.
THEOREM ViewCoversWindow == Spec => []AttendsWindow
<1> USE Parameters
<1>1. ASSUME Inv, n_tokens > 0, ~overrun
      PROVE  /\ View(live_swa) \subseteq Sinks..SizeSwa - 1
             /\ \A pos \in n_past - n_tokens..n_past - 1 :
                   {rows[i] : i \in Attended(pos)} = {p \in 0..pos : pos - p < Window}
  <2> DEFINE n == live_swa
             L == RoundUp(n)
             w == ViewWidth(n)
  <2>1. /\ n \in Nat /\ n <= Capacity /\ pos_base_swa \in Nat
        /\ n_tokens \in Nat /\ n_tokens <= n
        /\ pos_base_swa = 0 \/ n - n_tokens >= Window
    BY <1>1 DEF Inv, SwaTypeOK, UsableRows, live_swa
  <2>2. n_past = pos_base_swa + n
    BY <1>1 DEF Inv, WindowEndsAtNext, End
  <2>3. \A i \in Sinks..Sinks + n - 1 : rows[i] = pos_base_swa + i - Sinks
    BY <1>1 DEF Inv, SwaTypeOK, RowsHoldPositions, PosOfRow, live_swa
  <2>4. L \in Nat /\ n <= L /\ L < n + Pad /\ L <= Capacity
    BY <2>1, Rounding
  <2>5. /\ w \in Nat /\ w <= L
        /\ w = L \/ w >= Window + Pad + n_tokens
    <3>1. Window + Pad + n_tokens \in Nat
      BY <2>1
    <3>2. /\ RoundUp(Window + Pad + n_tokens) \in Nat
          /\ Window + Pad + n_tokens <= RoundUp(Window + Pad + n_tokens)
      BY <3>1, Rounding
    <3> QED BY <2>4, <3>2 DEF ViewWidth, Least
  <2>6. View(live_swa) = Sinks + L - w..Sinks + L - 1
    BY DEF View
  <2> HIDE DEF n, L, w
  <2>7. View(live_swa) \subseteq Sinks..SizeSwa - 1
    BY <2>4, <2>5, <2>6
  <2>8. ASSUME NEW pos \in n_past - n_tokens..n_past - 1
        PROVE  {rows[i] : i \in Attended(pos)} = {p \in 0..pos : pos - p < Window}
    <3>1. /\ pos \in Nat /\ pos < pos_base_swa + n
          /\ pos_base_swa + n - n_tokens <= pos
      BY <2>1, <2>2
    <3>2. ASSUME NEW i \in Attended(pos)
          PROVE  rows[i] \in 0..pos /\ pos - rows[i] < Window
      <4>1. /\ i \in Sinks + L - w..Sinks + L - 1
            /\ pos_base_swa + i - Sinks <= pos
            /\ pos - (pos_base_swa + i - Sinks) < Window
        BY <2>6 DEF Attended, PosOfRow
      <4>2. i \in Sinks..Sinks + n - 1
        BY <2>1, <2>4, <2>5, <3>1, <4>1
      <4> QED BY <2>1, <2>3, <3>1, <4>1, <4>2
    <3>3. ASSUME NEW p \in 0..pos, pos - p < Window
          PROVE  \E i \in Attended(pos) : rows[i] = p
      <4>1. p >= pos_base_swa
        BY <2>1, <3>1, <3>3
      <4> DEFINE i == Sinks + p - pos_base_swa
      <4>2. i \in Sinks..Sinks + n - 1 /\ pos_base_swa + i - Sinks = p
        BY <2>1, <3>1, <4>1
      <4>3. i >= Sinks + L - w
        BY <2>1, <2>4, <2>5, <3>1, <3>3, <4>1
      <4> HIDE DEF i
      <4>4. i \in Sinks + L - w..Sinks + L - 1
        BY <2>1, <2>4, <2>5, <4>2, <4>3
      <4>5. i \in Attended(pos)
        BY <2>6, <3>1, <3>3, <4>1, <4>2, <4>4 DEF Attended, PosOfRow
      <4> QED BY <2>3, <4>2, <4>5
    <3> QED BY <3>2, <3>3
  <2> QED BY <2>7, <2>8
<1>2. Inv => AttendsWindow
  BY <1>1, Zenon DEF AttendsWindow
<1> QED BY <1>2, AlwaysInv, PTL

\* What write_kv_cache saves of the sequence, read_kv_cache accepts.
THEOREM SavedIsRestorable == Spec => []SavedRestorable
<1>1. ASSUME Inv PROVE SavedRestorable
  <2> SUFFICES ASSUME saved.cells # {} PROVE Consistent(saved)
    BY DEF SavedRestorable
  <2>1. saved \in File /\ saved.cells = 0..EndOf(saved) - 1
    BY <1>1 DEF Inv, SwaTypeOK, FileWhole
  <2>2. EndOf(saved) \in Nat
    BY <2>1, Parameters DEF File, EndOf
  <2>3. Cardinality(0..EndOf(saved) - 1) = EndOf(saved)
    BY <2>2, FS_Interval
  <2> QED BY <2>1, <2>3 DEF Consistent, EndOf, File
<1> QED BY <1>1, AlwaysInv, PTL
=============================================================================
