---------------------------- MODULE KvCacheProofs ----------------------------
(***************************************************************************)
(* The unified KV cache stays sound through every history of decodes,      *)
(* sequence operations and state files, for any number of cells, padding,  *)
(* sequences, positions and batches, and the search for a slot is complete. *)
(***************************************************************************)
EXTENDS KvCache, FiniteSetTheorems, FunctionTheorems, WellFoundedInduction,
        NaturalsInduction, TLAPS

-----------------------------------------------------------------------------
(* Numbers and finite sets                                                 *)

\* Of some naturals one is least.
LEMMA LeastNumber ==
    ASSUME NEW N, \A k \in N : k \in Nat, N # {}
    PROVE  \E n \in N : \A k \in N : n <= k
<1> DEFINE Less == {p \in Nat \X Nat : p[1] < p[2]}
<1>1. IsWellFoundedOn(Less, Nat)
  BY NatLessThanWellFounded DEF IsWellFoundedOn, OpToRel
<1>2. N \subseteq Nat OBVIOUS
<1>3. \E n \in N : \A k \in N : <<k, n>> \notin Less
  <2> HIDE DEF Less
  <2> QED BY <1>1, <1>2, WFMin
<1>4. PICK n \in N : \A k \in N : <<k, n>> \notin Less BY <1>3
<1>5. \A k \in N : k \in Nat /\ n \in Nat OBVIOUS
<1>6. \A k \in N : ~(k < n)
  <2> SUFFICES ASSUME NEW k \in N PROVE ~(k < n) OBVIOUS
  <2>1. k \in Nat /\ n \in Nat BY <1>5
  <2>2. k < n => <<k, n>> \in Less BY <2>1
  <2> HIDE DEF Less
  <2> QED BY <1>4, <2>2
<1> QED BY <1>5, <1>6

\* Of some naturals up to a bound one is greatest.
LEMMA GreatestNumber ==
    ASSUME NEW m \in Nat, NEW N, \A k \in N : k \in 0..m, N # {}
    PROVE  \E n \in N : \A k \in N : k <= n
<1> DEFINE Gaps == {m - n : n \in N}
<1>1. \A x \in Gaps : x \in Nat OBVIOUS
<1>2. Gaps # {} OBVIOUS
<1>3. \E x \in Gaps : \A y \in Gaps : x <= y
  <2> HIDE DEF Gaps
  <2> QED BY <1>1, <1>2, LeastNumber
<1>4. PICK n \in N : \A k \in N : m - n <= m - k BY <1>3
<1>5. \A k \in N : k \in Nat OBVIOUS
<1> QED BY <1>4, <1>5

LEMMA MinIs ==
    ASSUME NEW N, \A k \in N : k \in Nat, N # {}
    PROVE  Min(N) \in N /\ \A k \in N : Min(N) <= k
BY LeastNumber DEF Min

LEMMA MaxIs ==
    ASSUME NEW m \in Nat, NEW N, \A k \in N : k \in 0..m, N # {}
    PROVE  Max(N) \in N /\ \A k \in N : k <= Max(N)
<1>1. \E n \in N : \A k \in N : k <= n BY GreatestNumber
<1>2. \E n \in N : \A k \in N : n >= k BY <1>1
<1> QED BY <1>2 DEF Max

LEMMA CellsAreNumbers ==
    /\ NCells \in Nat /\ NCells > 0 /\ Pad \in Nat /\ Pad > 0
    /\ IsFiniteSet(Cells) /\ Cardinality(Cells) = NCells
    /\ \A i \in Cells : i \in Nat /\ i < NCells
    /\ \A i \in Nat : i < NCells => i \in Cells
<1>1. NCells \in Nat /\ NCells > 0 /\ Pad \in Nat /\ Pad > 0 BY KvAssumption
<1>2. IsFiniteSet(0..NCells - 1) /\ Cardinality(0..NCells - 1) = NCells
  BY <1>1, FS_Interval
<1> QED BY <1>1, <1>2 DEF Cells

\* A set of cells has one with r others above it, for each r there can be.
Above(S, i) == {j \in S : j > i}

LEMMA RankIs ==
    ASSUME NEW S, \A i \in S : i \in Cells, NEW r \in Nat, r < Cardinality(S)
    PROVE  \E i \in S : Cardinality(Above(S, i)) = r
<1>1. S \subseteq Cells OBVIOUS
<1>2. IsFiniteSet(S) /\ Cardinality(S) \in Nat
  BY <1>1, CellsAreNumbers, FS_Subset, FS_CardinalityType
<1> DEFINE Missing == {q \in Nat : q < Cardinality(S) /\ ~\E i \in S : Cardinality(Above(S, i)) = q}
<1>3. SUFFICES ASSUME Missing # {} PROVE FALSE OBVIOUS
<1>4. PICK q \in Missing : \A p \in Missing : q <= p
  <2>1. \A p \in Missing : p \in Nat OBVIOUS
  <2> HIDE DEF Missing
  <2> QED BY <1>3, <2>1, LeastNumber
<1>5. S # {} BY <1>2, <1>4, FS_EmptySet
<1>6. \A i \in S : i \in 0..NCells BY CellsAreNumbers
\* The cells left when the q topmost are taken off, and the topmost of them.
<1>7. \E T \in SUBSET S : /\ T # {}
                          /\ Cardinality(S \ T) = q
                          /\ \A i \in T, j \in S \ T : j > i
  <2>1. CASE q = 0
    <3>1. S \ S = {} OBVIOUS
    <3>2. Cardinality(S \ S) = q BY <2>1, <3>1, FS_EmptySet
    <3> QED BY <1>5, <3>2
  <2>2. CASE q # 0
    <3>1. q - 1 \in Nat /\ q - 1 < Cardinality(S) /\ q - 1 \notin Missing BY <1>2, <1>4, <2>2
    <3>2. PICK i \in S : Cardinality(Above(S, i)) = q - 1 BY <3>1
    <3> DEFINE T == {j \in S : j < i}
    <3>3. S \ T = Above(S, i) \cup {i} BY <1>6 DEF Above
    <3>4. i \notin Above(S, i) /\ IsFiniteSet(Above(S, i)) BY <1>2, <1>6, FS_Subset DEF Above
    <3>5. Cardinality(S \ T) = q BY <3>2, <3>3, <3>4, <1>4, FS_AddElement
    <3>6. T # {}
      <4>1. ASSUME T = {} PROVE FALSE
        <5>1. S \ T = S BY <4>1
        <5> QED BY <3>5, <5>1, <1>4, <1>2
      <4> QED BY <4>1
    <3>7. \A k \in T, j \in S \ T : j > k BY <1>6
    <3> HIDE DEF T
    <3>8. T \in SUBSET S BY DEF T
    <3> QED BY <3>5, <3>6, <3>7, <3>8
  <2> QED BY <2>1, <2>2
<1>8. PICK T \in SUBSET S : T # {} /\ Cardinality(S \ T) = q /\ \A i \in T, j \in S \ T : j > i
  BY <1>7
<1>9. \A k \in T : k \in 0..NCells BY <1>6
<1>10. PICK i \in T : \A k \in T : k <= i BY <1>8, <1>9, CellsAreNumbers, GreatestNumber
<1>11. Above(S, i) = S \ T
  <2>1. \A j \in S : j > i <=> j \notin T BY <1>6, <1>8, <1>10
  <2> QED BY <2>1 DEF Above
<1> QED BY <1>4, <1>8, <1>10, <1>11

LEMMA RankedIs ==
    ASSUME NEW S, \A i \in S : i \in Cells, NEW r \in Nat, r < Cardinality(S)
    PROVE  Ranked(S, r) \in S /\ Cardinality(Above(S, Ranked(S, r))) = r
<1>1. \E i \in S : Cardinality(Above(S, i)) = r BY RankIs
<1>2. Ranked(S, r) = CHOOSE i \in S : Cardinality(Above(S, i)) = r BY DEF Ranked, Above
<1> QED BY <1>1, <1>2

-----------------------------------------------------------------------------
(* The search for a slot                                                   *)

\* f is what a loop returns that goes from p to to[p] at the places in goes,
\* and returns ans[p] elsewhere.
Loops(S, goes, to, ans, f) == f = [p \in S |-> IF p \in goes THEN f[to[p]] ELSE ans[p]]

\* The measure of a loop, and a way through it that ends in R.
Falls(D, b, m, goes, to) ==
    /\ b \in Nat
    /\ \A p \in D : m[p] \in 0..b /\ (p \in goes => to[p] \in D /\ m[to[p]] < m[p])
LeadsTo(D, goes, to, ans, Way, R) ==
    \A p \in Way : /\ p \in D
                   /\ p \in goes => to[p] \in Way
                   /\ p \notin goes => ans[p] \in R

\* A loop with a measure that falls has a result.
LEMMA LoopReturns ==
    ASSUME NEW D, NEW b, NEW m, NEW goes, NEW to, NEW ans, Falls(D, b, m, goes, to)
    PROVE  \E f : Loops(D, goes, to, ans, f)
<1> DEFINE Upto(n) == {p \in D : m[p] <= n}
           Bad == {n \in Nat : ~\E f : Loops(Upto(n), goes, to, ans, f)}
<1>0. b \in Nat /\ (\A p \in D : m[p] \in 0..b)
  BY DEF Falls
<1>9. \A p \in D : p \in goes => to[p] \in D /\ m[to[p]] < m[p]
  BY DEF Falls
<1>1. Bad = {}
  <2>1. SUFFICES ASSUME Bad # {} PROVE FALSE OBVIOUS
  <2>2. PICK n \in Bad : \A k \in Bad : n <= k
    <3>1. \A k \in Bad : k \in Nat OBVIOUS
    <3> HIDE DEF Bad
    <3> QED BY <2>1, <3>1, LeastNumber
  <2>3. PICK g : \A p \in D : m[p] < n => g[p] = IF p \in goes THEN g[to[p]] ELSE ans[p]
    <3>1. CASE n = 0 BY <3>1, <1>0, <1>9
    <3>2. CASE n # 0
      <4>1. n - 1 \in Nat /\ n - 1 \notin Bad
        <5>1. n - 1 \in Nat /\ ~(n <= n - 1) BY <2>2, <3>2
        <5> HIDE DEF Bad
        <5> QED BY <2>2, <5>1
      <4>2. PICK g : Loops(Upto(n - 1), goes, to, ans, g) BY <4>1
      <4>3. \A p \in D : m[p] < n => p \in Upto(n - 1) BY <2>2, <1>0, <1>9
      <4> HIDE DEF Upto
      <4>4. \A p \in Upto(n - 1) : g[p] = IF p \in goes THEN g[to[p]] ELSE ans[p]
        BY <4>2 DEF Loops
      <4> QED BY <4>3, <4>4
    <3> QED BY <3>1, <3>2
  <2> DEFINE f == [p \in Upto(n) |-> IF p \in goes THEN g[to[p]] ELSE ans[p]]
  <2>4. \A p \in D : m[p] < n => f[p] = g[p] BY <2>2, <2>3, <1>0, <1>9
  <2>5. \A p \in Upto(n) : p \in goes => m[to[p]] < n /\ to[p] \in D BY <2>2, <1>0, <1>9
  <2>6. \A p \in Upto(n) : f[p] = IF p \in goes THEN g[to[p]] ELSE ans[p] OBVIOUS
  <2>7. f = [p \in Upto(n) |-> f[p]] OBVIOUS
  <2> HIDE DEF f, Upto
  <2>8. \A p \in Upto(n) : f[p] = IF p \in goes THEN f[to[p]] ELSE ans[p] BY <2>4, <2>5, <2>6
  <2>9. Loops(Upto(n), goes, to, ans, f) BY <2>7, <2>8 DEF Loops
  <2> QED BY <2>2, <2>9
<1>2. Upto(b) = D BY <1>0
<1> HIDE DEF Upto
<1> QED BY <1>0, <1>1, <1>2

\* What holds of the answer at each place where a loop ends, and of its way
\* there, holds of its result.
LEMMA LoopResult ==
    ASSUME NEW D, NEW b, NEW m, NEW goes, NEW to, NEW ans, NEW f, NEW Way, NEW R,
           Falls(D, b, m, goes, to), Loops(D, goes, to, ans, f),
           LeadsTo(D, goes, to, ans, Way, R)
    PROVE  \A p \in Way : f[p] \in R
<1> DEFINE Bad == {m[p] : p \in {q \in Way : f[q] \notin R}}
<1>0. b \in Nat /\ (\A p \in D : m[p] \in 0..b)
  BY DEF Falls
<1>9. \A p \in D : p \in goes => to[p] \in D /\ m[to[p]] < m[p]
  BY DEF Falls
<1>10. \A p \in Way : p \in D /\ (p \in goes => to[p] \in Way)
  BY DEF LeadsTo
<1>11. \A p \in Way : p \notin goes => ans[p] \in R
  BY DEF LeadsTo
<1>1. SUFFICES ASSUME Bad # {} PROVE FALSE OBVIOUS
<1>2. PICK n \in Bad : \A k \in Bad : n <= k
  <2>1. \A k \in Bad : k \in Nat BY <1>0, <1>10
  <2> HIDE DEF Bad
  <2> QED BY <1>1, <2>1, LeastNumber
<1>3. PICK p \in Way : n = m[p] /\ f[p] \notin R BY <1>2
<1>4. f[p] = IF p \in goes THEN f[to[p]] ELSE ans[p] BY <1>3, <1>10 DEF Loops
<1>5. p \in goes /\ to[p] \in Way /\ f[to[p]] \notin R BY <1>3, <1>4, <1>10, <1>11
<1>6. m[to[p]] \in Bad /\ m[to[p]] < m[p] BY <1>0, <1>3, <1>5, <1>9, <1>10
<1>7. m[p] \in Nat /\ m[to[p]] \in Nat BY <1>0, <1>3, <1>5, <1>9, <1>10
<1>8. n <= m[to[p]] BY <1>2, <1>6
<1> QED BY <1>3, <1>6, <1>7, <1>8

\* The search as such a loop: where it goes on, and where it ends with what.
Probes == (0..NCells) \X Nat
GoesOn(cells, k, p) ==
    \/ p[1] + k > NCells
    \/ ~FreeRun(cells, p[1], k) /\ p[2] + Past(cells, p[1], k) - p[1] < NCells
OnTo(cells, k, p) ==
    IF p[1] + k > NCells THEN <<0, p[2] + WrapsFrom(p[1])>>
    ELSE <<Past(cells, p[1], k), p[2] + Past(cells, p[1], k) - p[1]>>
Answer(cells, k, p) ==
    IF FreeRun(cells, p[1], k) THEN [found |-> TRUE, head |-> p[1]]
    ELSE [found |-> FALSE, head |-> Past(cells, p[1], k)]

\* What falls: the cells to test, and then a search that has to wrap round.
ToTest(p) == 2 * (IF p[2] < NCells THEN NCells - p[2] ELSE 0) + (IF p[1] > 0 THEN 1 ELSE 0)

CellsTyped(cells) == \A i \in Cells : cells[i].pos \in Int

LEMMA PastIs ==
    ASSUME NEW cells, CellsTyped(cells), NEW k \in 1..NCells, NEW h \in 0..NCells,
           h + k <= NCells, ~FreeRun(cells, h, k)
    PROVE  /\ Past(cells, h, k) \in h + 1..h + k
           /\ cells[Past(cells, h, k) - 1].pos >= 0
<1> DEFINE N == {i \in h..h + k - 1 : cells[i].pos >= 0}
<1>1. NCells \in Nat BY CellsAreNumbers
<1>2. \A i \in h..h + k - 1 : i \in Cells BY <1>1, CellsAreNumbers
<1>3. N # {} BY <1>1, <1>2 DEF FreeRun, CellsTyped
<1>4. \A i \in N : i \in Nat BY <1>1
<1>5. Min(N) \in N
  <2> HIDE DEF N
  <2> QED BY <1>3, <1>4, MinIs
<1>6. Past(cells, h, k) = 1 + Min(N) BY DEF Past
<1>7. Min(N) \in h..h + k - 1 /\ cells[Min(N)].pos >= 0 BY <1>5
<1> HIDE DEF N
<1> QED BY <1>1, <1>6, <1>7

LEMMA ProbeFalls ==
    ASSUME NEW cells, CellsTyped(cells), NEW k \in 1..NCells, NEW p \in Probes,
           GoesOn(cells, k, p)
    PROVE  OnTo(cells, k, p) \in Probes /\ ToTest(OnTo(cells, k, p)) < ToTest(p)
<1>1. NCells \in Nat BY CellsAreNumbers
<1>2. p[1] \in 0..NCells /\ p[2] \in Nat BY DEF Probes
<1> DEFINE h == p[1]  t == p[2]
<1>3. CASE h + k > NCells
  <2>1. OnTo(cells, k, p) = <<0, t + NCells - h>> BY <1>3, <1>1, <1>2 DEF OnTo, WrapsFrom
  <2>2. OnTo(cells, k, p) \in Probes BY <2>1, <1>1, <1>2 DEF Probes
  <2>3. h > 0 BY <1>1, <1>2, <1>3
  <2>4. ToTest(OnTo(cells, k, p)) = 2 * (IF t + NCells - h < NCells THEN NCells - (t + NCells - h) ELSE 0)
    BY <2>1, <1>1, <1>2 DEF ToTest
  <2>5. ToTest(p) = 2 * (IF t < NCells THEN NCells - t ELSE 0) + 1 BY <2>3, <1>1, <1>2 DEF ToTest
  <2> QED BY <2>2, <2>4, <2>5, <1>1, <1>2
<1>4. CASE h + k <= NCells
  <2> DEFINE past == Past(cells, h, k)
  <2>1. ~FreeRun(cells, h, k) /\ t + past - h < NCells BY <1>1, <1>2, <1>4 DEF GoesOn
  <2>2. past \in h + 1..h + k BY <1>2, <1>4, <2>1, PastIs
  <2> HIDE DEF past
  <2>3. OnTo(cells, k, p) = <<past, t + past - h>> BY <1>1, <1>2, <1>4 DEF OnTo, past
  <2>4. OnTo(cells, k, p) \in Probes BY <2>2, <2>3, <1>1, <1>2, <1>4 DEF Probes
  <2>5. ToTest(OnTo(cells, k, p)) = 2 * (NCells - (t + past - h)) + 1
    BY <2>1, <2>2, <2>3, <1>1, <1>2 DEF ToTest
  <2>6. t < NCells BY <2>1, <2>2, <1>1, <1>2
  <2>7. ToTest(p) >= 2 * (NCells - t) BY <2>6, <1>1, <1>2 DEF ToTest
  <2>8. ToTest(p) \in Int BY <2>6, <1>1, <1>2 DEF ToTest
  <2> QED BY <2>2, <2>4, <2>5, <2>7, <2>8, <1>1, <1>2
<1> QED BY <1>1, <1>2, <1>3, <1>4

LEMMA ToTestIs == \A p \in Probes : ToTest(p) \in 0..2 * NCells + 1
BY CellsAreNumbers DEF Probes, ToTest

\* The search is a loop.
Going(cells, k) == {p \in Probes : GoesOn(cells, k, p)}
Onward(cells, k) == [p \in Probes |-> OnTo(cells, k, p)]
Answers(cells, k) == [p \in Probes |-> Answer(cells, k, p)]
Measure == [p \in Probes |-> ToTest(p)]

LEMMA ScanFalls ==
    ASSUME NEW cells, CellsTyped(cells), NEW k \in 1..NCells
    PROVE  Falls(Probes, 2 * NCells + 1, Measure, Going(cells, k), Onward(cells, k))
<1>1. 2 * NCells + 1 \in Nat BY CellsAreNumbers
<1> QED BY <1>1, ProbeFalls, ToTestIs DEF Going, Onward, Measure, Falls

LEMMA ScanLoops ==
    ASSUME NEW cells, CellsTyped(cells), NEW k \in 1..NCells
    PROVE  Loops(Probes, Going(cells, k), Onward(cells, k), Answers(cells, k), Scan(cells, k))
<1> DEFINE Body(f, p) ==
              IF p[1] + k > NCells THEN f[<<0, p[2] + WrapsFrom(p[1])>>]
              ELSE IF FreeRun(cells, p[1], k) THEN [found |-> TRUE, head |-> p[1]]
              ELSE IF p[2] + Past(cells, p[1], k) - p[1] >= NCells
                   THEN [found |-> FALSE, head |-> Past(cells, p[1], k)]
              ELSE f[<<Past(cells, p[1], k), p[2] + Past(cells, p[1], k) - p[1]>>]
           IsScan(f) == f = [p \in (0..NCells) \X Nat |-> Body(f, p)]
           L(f) == Loops(Probes, Going(cells, k), Onward(cells, k), Answers(cells, k), f)
<1>1. Scan(cells, k) = CHOOSE f : IsScan(f) BY DEF Scan
<1>2. ASSUME NEW f, NEW p \in Probes
      PROVE  Body(f, p) = IF p \in Going(cells, k) THEN f[Onward(cells, k)[p]] ELSE Answers(cells, k)[p]
  <2>1. NCells \in Nat /\ p[1] \in 0..NCells /\ p[2] \in Nat BY CellsAreNumbers DEF Probes
  <2>2. CASE p[1] + k > NCells
    BY <2>2 DEF Going, GoesOn, Onward, OnTo
  <2>3. CASE p[1] + k <= NCells /\ FreeRun(cells, p[1], k)
    BY <2>1, <2>3 DEF Going, GoesOn, Answers, Answer
  <2>4. CASE p[1] + k <= NCells /\ ~FreeRun(cells, p[1], k)
    <3>1. Past(cells, p[1], k) \in Int BY <2>1, <2>4, PastIs
    <3> QED BY <2>1, <2>4, <3>1 DEF Going, GoesOn, Onward, OnTo, Answers, Answer
  <2> QED BY <2>1, <2>2, <2>3, <2>4
<1>3. ASSUME NEW f PROVE IsScan(f) <=> L(f)
  <2> HIDE DEF Body
  <2>1. [p \in Probes |-> Body(f, p)]
            = [p \in Probes |-> IF p \in Going(cells, k) THEN f[Onward(cells, k)[p]]
                                ELSE Answers(cells, k)[p]]
    BY <1>2
  <2> QED BY <2>1 DEF Loops, Probes
<1>4. \E f : L(f) BY ScanFalls, LoopReturns
<1> HIDE DEF IsScan, L
<1>5. \E f : IsScan(f) BY <1>3, <1>4
<1>6. IsScan(Scan(cells, k)) BY <1>1, <1>5
<1>7. L(Scan(cells, k)) BY <1>3, <1>6
<1> QED BY <1>7 DEF L

\* What is found is a run of free cells; head stays in the cache.
Slots(cells, k) ==
    {r \in [found : BOOLEAN, head : 0..NCells] : r.found => FreeRun(cells, r.head, k)}

LEMMA ScanFindsSlots ==
    ASSUME NEW cells, CellsTyped(cells), NEW k \in 1..NCells
    PROVE  \A p \in Probes : Scan(cells, k)[p] \in Slots(cells, k)
<1>2. \A p \in Probes : p \notin Going(cells, k) => Answers(cells, k)[p] \in Slots(cells, k)
  <2> SUFFICES ASSUME NEW p \in Probes, p \notin Going(cells, k)
               PROVE  Answer(cells, k, p) \in Slots(cells, k)
    BY DEF Answers
  <2>1. NCells \in Nat /\ p[1] \in 0..NCells /\ p[2] \in Nat BY CellsAreNumbers DEF Probes
  <2>2. p[1] + k <= NCells BY <2>1 DEF Going, GoesOn
  <2>3. CASE FreeRun(cells, p[1], k) BY <2>1, <2>3 DEF Answer, Slots
  <2>4. CASE ~FreeRun(cells, p[1], k)
    <3>1. Past(cells, p[1], k) \in 0..NCells BY <2>1, <2>2, <2>4, PastIs
    <3> QED BY <2>4, <3>1 DEF Answer, Slots
  <2> QED BY <2>3, <2>4
<1>3. \A p \in Probes : p \in Probes /\ (p \in Going(cells, k) => Onward(cells, k)[p] \in Probes)
  BY ScanFalls DEF Falls
<1>4. LeadsTo(Probes, Going(cells, k), Onward(cells, k), Answers(cells, k), Probes, Slots(cells, k))
  BY <1>2, <1>3 DEF LeadsTo
<1> QED BY <1>4, ScanFalls, ScanLoops, LoopResult

\* The search that starts at cell s and has not passed the run at x.
Unpassed(s, x) ==
    {p \in Probes : \/ p[2] = p[1] - s /\ p[1] >= s /\ (x >= p[1] \/ x < s)
                    \/ p[2] = NCells - s + p[1] /\ p[1] <= x /\ x < s}

LEMMA ScanIsComplete ==
    ASSUME NEW cells, CellsTyped(cells), NEW k \in 1..NCells, NEW s \in 0..NCells,
           NEW x \in Cells, FreeRun(cells, x, k)
    PROVE  Scan(cells, k)[<<s, 0>>].found
<1> DEFINE Found == {r \in [found : BOOLEAN, head : 0..NCells] : r.found}
<1>2. NCells \in Nat /\ x \in Nat /\ x + k <= NCells /\ \A i \in x..x + k - 1 : cells[i].pos < 0
  BY CellsAreNumbers DEF FreeRun
\* A step past the first cell in use does not pass the run.
<1>3. ASSUME NEW h \in 0..NCells, h + k <= NCells, ~FreeRun(cells, h, k), x >= h
      PROVE  Past(cells, h, k) <= x
  <2>1. Past(cells, h, k) \in h + 1..h + k /\ cells[Past(cells, h, k) - 1].pos >= 0
    BY <1>3, PastIs
  <2> DEFINE u == Past(cells, h, k) - 1
  <2>2. u \in h..h + k - 1 /\ u \in Cells /\ cells[u].pos >= 0
    BY <2>1, <1>2, <1>3, CellsAreNumbers
  <2>3. u \notin x..x + k - 1 BY <2>2, <1>2 DEF CellsTyped
  <2> QED BY <2>1, <2>2, <2>3, <1>2, <1>3
<1>4. ASSUME NEW p \in Unpassed(s, x)
      PROVE  /\ p \in Going(cells, k) => Onward(cells, k)[p] \in Unpassed(s, x)
             /\ p \notin Going(cells, k) => Answers(cells, k)[p] \in Found
  <2> DEFINE h == p[1]  t == p[2]
  <2>1. p \in Probes /\ h \in 0..NCells /\ t \in Nat BY <1>4 DEF Unpassed, Probes
  <2>2. \/ t = h - s /\ h >= s /\ (x >= h \/ x < s)
        \/ t = NCells - s + h /\ h <= x /\ x < s
    BY <1>4 DEF Unpassed
  <2>3. CASE h + k > NCells
    <3>1. t = h - s /\ h >= s /\ x < s BY <1>2, <2>1, <2>2, <2>3
    <3>2. Onward(cells, k)[p] = <<0, NCells - s>>
      BY <2>1, <2>3, <3>1, <1>2 DEF Onward, OnTo, WrapsFrom
    <3>3. <<0, NCells - s>> \in Unpassed(s, x) BY <3>1, <1>2 DEF Unpassed, Probes
    <3>4. p \in Going(cells, k) BY <2>1, <2>3 DEF Going, GoesOn
    <3> QED BY <3>2, <3>3, <3>4
  <2>4. CASE h + k <= NCells /\ FreeRun(cells, h, k)
    <3>1. p \notin Going(cells, k) BY <1>2, <2>1, <2>4 DEF Going, GoesOn
    <3>2. Answers(cells, k)[p] = [found |-> TRUE, head |-> h]
      BY <2>1, <2>4 DEF Answers, Answer
    <3> QED BY <2>1, <3>1, <3>2
  <2>5. CASE h + k <= NCells /\ ~FreeRun(cells, h, k)
    <3> DEFINE past == Past(cells, h, k)
    <3>1. past \in h + 1..h + k BY <2>1, <2>5, PastIs
    <3>2. x >= h => past <= x BY <1>3, <2>1, <2>5
    <3> HIDE DEF past
    <3>3. t + past - h < NCells BY <1>2, <2>1, <2>2, <2>5, <3>1, <3>2
    <3>4. p \in Going(cells, k) BY <2>1, <2>5, <3>3 DEF Going, GoesOn, past
    <3>5. Onward(cells, k)[p] = <<past, t + past - h>>
      BY <1>2, <2>1, <2>5 DEF Onward, OnTo, past
    <3>6. \/ t + past - h = past - s /\ past >= s /\ (x >= past \/ x < s)
          \/ t + past - h = NCells - s + past /\ past <= x /\ x < s
      BY <1>2, <2>1, <2>2, <3>1, <3>2
    <3>7. past \in 0..NCells /\ t + past - h \in Nat BY <1>2, <2>1, <2>5, <3>1
    <3>8. <<past, t + past - h>> \in Unpassed(s, x) BY <3>6, <3>7 DEF Unpassed, Probes
    <3> QED BY <3>4, <3>5, <3>8
  <2> QED BY <1>2, <2>1, <2>3, <2>4, <2>5
<1>5. <<s, 0>> \in Unpassed(s, x) BY <1>2 DEF Unpassed, Probes
<1>6. LeadsTo(Probes, Going(cells, k), Onward(cells, k), Answers(cells, k), Unpassed(s, x), Found)
  <2> HIDE DEF Found
  <2> QED BY <1>4 DEF LeadsTo, Unpassed
<1>7. \A p \in Unpassed(s, x) : Scan(cells, k)[p] \in Found
  <2> HIDE DEF Found
  <2> QED BY <1>6, ScanFalls, ScanLoops, LoopResult
<1> QED BY <1>5, <1>7

-----------------------------------------------------------------------------
(* What every operation keeps                                              *)

CellT == [pos : Int, delta : Int, seqs : SUBSET Seqs]
Structs ==
    [cells : [Cells -> CellT], rows : [Cells -> Row], head : 0..NCells, used : Int,
     n : 0..NCells, has_shift : BOOLEAN, do_defrag : BOOLEAN]

\* The struct is sound: n is padded, used is exact, a cell has a sequence
\* exactly when it has a position, a pending delta is announced.
Exact(kv) ==
    /\ kv.used = Cardinality(Used(kv.cells))
    /\ \A i \in Cells : kv.cells[i].pos >= -1
    /\ \A i \in Cells : kv.cells[i].pos >= 0 <=> kv.cells[i].seqs # {}
Announced(kv) == \A i \in Cells : kv.cells[i].delta # 0 => kv.has_shift
Sound(kv) == kv \in Structs /\ kv.n % Pad = 0 /\ Exact(kv) /\ Announced(kv)

\* The K of each cell is rotated to its position, up to the pending delta.
Keyed(kv) == \A i \in Used(kv.cells) : kv.rows[i].rope + kv.cells[i].delta = kv.cells[i].pos
Capped(kv) == \A i \in Cells : kv.cells[i].pos <= MaxPos

Keeps(kv, kv2) == Sound(kv2) /\ (Keyed(kv) => Keyed(kv2))
KeepsCap(kv, kv2) == Keeps(kv, kv2) /\ (Capped(kv) => Capped(kv2))

LEMMA UsedIsFinite ==
    \A cells : /\ IsFiniteSet(Used(cells)) /\ Cardinality(Used(cells)) \in Nat
               /\ \A i \in Used(cells) : i \in Cells
<1> SUFFICES ASSUME NEW cells
             PROVE  /\ IsFiniteSet(Used(cells)) /\ Cardinality(Used(cells)) \in Nat
                    /\ \A i \in Used(cells) : i \in Cells
  OBVIOUS
<1>1. Used(cells) \subseteq Cells BY DEF Used
<1> QED BY <1>1, CellsAreNumbers, FS_Subset, FS_CardinalityType

\* Cells that are freed, and cells that are taken, count one each.
LEMMA FewerUsed ==
    ASSUME NEW cells, NEW cells2, NEW F, \A i \in F : i \in Used(cells),
           Used(cells2) = Used(cells) \ F
    PROVE  Cardinality(Used(cells2)) = Cardinality(Used(cells)) - Cardinality(F)
<1>1. Used(cells) \cap F = F OBVIOUS
<1> QED BY <1>1, UsedIsFinite, FS_Difference

LEMMA MoreUsed ==
    ASSUME NEW cells, NEW cells2, NEW F, \A i \in F : i \in Cells /\ i \notin Used(cells),
           Used(cells2) = Used(cells) \cup F
    PROVE  Cardinality(Used(cells2)) = Cardinality(Used(cells)) + Cardinality(F)
<1>1. Used(cells) \cap F = {} OBVIOUS
<1>2. F \subseteq Cells OBVIOUS
<1>3. IsFiniteSet(F) /\ Cardinality(F) \in Nat
  BY <1>2, CellsAreNumbers, FS_Subset, FS_CardinalityType
<1>4. Cardinality(Used(cells) \cap F) = 0 BY <1>1, FS_EmptySet
<1>5. Cardinality(Used(cells) \cup F)
          = Cardinality(Used(cells)) + Cardinality(F) - Cardinality(Used(cells) \cap F)
  BY <1>3, UsedIsFinite, FS_Union
<1> QED BY <1>3, <1>4, <1>5, UsedIsFinite

LEMMA LoweredIs ==
    ASSUME NEW h \in 0..NCells, NEW F, \A i \in F : i \in Cells
    PROVE  Lowered(h, F) \in 0..NCells
<1>1. CASE F = {} BY <1>1 DEF Lowered
<1>2. CASE F # {}
  <2>1. Min(F) \in F BY <1>2, CellsAreNumbers, MinIs
  <2>2. Min(F) \in Nat BY <2>1, CellsAreNumbers
  <2>3. \A k \in {h, Min(F)} : k \in Nat BY <2>2
  <2>4. Min({h, Min(F)}) \in {h, Min(F)} BY <2>3, MinIs
  <2> QED BY <1>2, <2>1, <2>4, CellsAreNumbers DEF Lowered
<1> QED BY <1>1, <1>2

LEMMA FreedCell ==
    ASSUME NEW c, c \in CellT
    PROVE  /\ Freed(c) \in CellT /\ Freed(c).pos = -1
           /\ Freed(c).seqs = {} /\ Freed(c).delta = c.delta
BY DEF Freed, CellT

LEMMA RmKeeps ==
    ASSUME NEW kv, Sound(kv), NEW s \in Seqs \cup {AnySeq}, NEW p0 \in Nat, NEW p1 \in Nat
    PROVE  /\ KeepsCap(kv, SeqRm(kv, s, p0, p1))
           /\ SeqRm(kv, s, p0, p1).rows = kv.rows
           /\ SeqRm(kv, s, p0, p1).has_shift = kv.has_shift
           /\ \A i \in Used(SeqRm(kv, s, p0, p1).cells) :
                 /\ i \in Used(kv.cells)
                 /\ SeqRm(kv, s, p0, p1).cells[i].pos = kv.cells[i].pos
                 /\ SeqRm(kv, s, p0, p1).cells[i].delta = kv.cells[i].delta
                 /\ ~(kv.cells[i].seqs = {s} /\ p0 <= kv.cells[i].pos /\ kv.cells[i].pos < p1)
<1> DEFINE hit   == {i \in Cells : In(kv.cells[i], s, p0, p1)}
           left  == [i \in hit |-> IF s = AnySeq THEN {} ELSE kv.cells[i].seqs \ {s}]
           freed == {i \in hit : left[i] = {}}
           cells2 == [i \in Cells |-> IF i \in hit
                         THEN FreedIfEmpty([kv.cells[i] EXCEPT !.seqs = left[i]]) ELSE kv.cells[i]]
           kv2 == SeqRm(kv, s, p0, p1)
<1>1. kv2 = [kv EXCEPT !.cells = cells2, !.used = kv.used - Cardinality(freed),
                       !.head = Lowered(kv.head, freed)]
  BY DEF SeqRm
<1>2. kv \in Structs /\ kv.cells \in [Cells -> CellT] /\ kv.used = Cardinality(Used(kv.cells))
  BY DEF Sound, Exact, Structs
<1>3. \A i \in Cells : kv.cells[i] \in CellT BY <1>2
<1>4. \A i \in hit : left[i] \in SUBSET Seqs /\ kv.cells[i].seqs # {} /\ kv.cells[i].pos >= 0
  BY <1>3 DEF In, CellT, Sound, Exact
<1>5. \A i \in Cells :
         /\ cells2[i].seqs = IF i \in hit THEN left[i] ELSE kv.cells[i].seqs
         /\ cells2[i].pos = IF i \in freed THEN -1 ELSE kv.cells[i].pos
         /\ cells2[i].delta = kv.cells[i].delta
         /\ cells2[i] \in CellT
  <2> SUFFICES ASSUME NEW i \in Cells
               PROVE  /\ cells2[i].seqs = IF i \in hit THEN left[i] ELSE kv.cells[i].seqs
                      /\ cells2[i].pos = IF i \in freed THEN -1 ELSE kv.cells[i].pos
                      /\ cells2[i].delta = kv.cells[i].delta
                      /\ cells2[i] \in CellT
    OBVIOUS
  <2>1. kv.cells[i] \in CellT BY <1>3
  <2>2. CASE i \notin hit
    <3>1. i \notin freed /\ cells2[i] = kv.cells[i] BY <2>2
    <3> QED BY <2>1, <2>2, <3>1
  <2>3. CASE i \in hit
    <3> DEFINE c == [kv.cells[i] EXCEPT !.seqs = left[i]]
    <3>1. c \in CellT /\ c.seqs = left[i] /\ c.pos = kv.cells[i].pos /\ c.delta = kv.cells[i].delta
      BY <1>4, <2>1, <2>3 DEF CellT
    <3>2. cells2[i] = FreedIfEmpty(c) BY <2>3
    <3>3. i \in freed <=> c.seqs = {} BY <2>3, <3>1
    <3> HIDE DEF c, freed, cells2, left, hit
    <3>4. CASE c.seqs = {} BY <2>3, <3>1, <3>2, <3>3, <3>4, FreedCell DEF FreedIfEmpty
    <3>5. CASE c.seqs # {} BY <2>3, <3>1, <3>2, <3>3, <3>5 DEF FreedIfEmpty
    <3> QED BY <3>4, <3>5
  <2> QED BY <2>2, <2>3
<1>6. cells2 \in [Cells -> CellT] BY <1>5
<1>7. \A i \in freed : i \in Used(kv.cells) /\ i \in Cells BY <1>4 DEF Used
<1>8. Used(cells2) = Used(kv.cells) \ freed BY <1>4, <1>5 DEF Used
<1>21. \A i \in Cells : kv.cells[i].seqs = {s} /\ p0 <= kv.cells[i].pos /\ kv.cells[i].pos < p1
                         => i \in freed
  BY DEF In
<1>14. \A i \in Cells : cells2[i].seqs = {} <=> kv.cells[i].seqs = {} \/ i \in freed
  BY <1>4, <1>5
<1>19. \A i \in Cells : kv.cells[i].pos >= -1 /\ (kv.cells[i].pos >= 0 <=> kv.cells[i].seqs # {})
  BY DEF Sound, Exact
<1> HIDE DEF cells2, freed, kv2, hit, left
<1>9. Cardinality(Used(cells2)) = kv.used - Cardinality(freed) BY <1>2, <1>7, <1>8, FewerUsed
<1>10. Lowered(kv.head, freed) \in 0..NCells BY <1>2, <1>7, LoweredIs DEF Structs
<1>11. kv.used - Cardinality(freed) \in Int BY <1>9, UsedIsFinite
<1>12. kv2 \in Structs BY <1>1, <1>2, <1>6, <1>10, <1>11 DEF Structs
<1>13. /\ kv2.cells = cells2 /\ kv2.rows = kv.rows /\ kv2.n = kv.n
       /\ kv2.has_shift = kv.has_shift /\ kv2.used = kv.used - Cardinality(freed)
  BY <1>1, <1>2 DEF Structs
<1>15. Exact(kv2)
  <2>1. \A i \in Cells : cells2[i].pos >= -1 BY <1>5, <1>19
  <2>2. \A i \in Cells : cells2[i].pos >= 0 <=> cells2[i].seqs # {}
    BY <1>5, <1>14, <1>19
  <2> QED BY <1>9, <1>13, <2>1, <2>2 DEF Exact
<1>16. Announced(kv2) BY <1>5, <1>13 DEF Sound, Announced
<1>17. Keyed(kv) => Keyed(kv2) BY <1>5, <1>8, <1>13 DEF Keyed, Used
<1>18. Capped(kv) => Capped(kv2)
  <2>1. MaxPos \in Nat BY KvAssumption
  <2> QED BY <1>5, <1>13, <2>1 DEF Capped
<1>20. Sound(kv2) BY <1>12, <1>13, <1>15, <1>16 DEF Sound
<1>22. KeepsCap(kv, kv2) BY <1>17, <1>18, <1>20 DEF Keeps, KeepsCap
<1>23. \A i \in Used(cells2) :
         /\ i \in Used(kv.cells) /\ i \in Cells /\ i \notin freed
         /\ cells2[i].pos = kv.cells[i].pos /\ cells2[i].delta = kv.cells[i].delta
  BY <1>5, <1>7, <1>8, UsedIsFinite
<1> QED BY <1>13, <1>21, <1>22, <1>23 DEF kv2

LEMMA SoundFacts ==
    ASSUME NEW kv, Sound(kv)
    PROVE  /\ kv \in Structs /\ kv.cells \in [Cells -> CellT] /\ kv.rows \in [Cells -> Row]
           /\ kv.used = Cardinality(Used(kv.cells)) /\ kv.used \in Nat
           /\ \A i \in Cells : /\ kv.cells[i] \in CellT /\ kv.cells[i].pos \in Int
                               /\ kv.cells[i].delta \in Int /\ kv.cells[i].pos >= -1
           /\ \A i \in Cells : kv.cells[i].pos >= 0 <=> kv.cells[i].seqs # {}
<1>1. kv \in Structs /\ kv.cells \in [Cells -> CellT] /\ kv.rows \in [Cells -> Row]
      /\ kv.used = Cardinality(Used(kv.cells))
  BY DEF Sound, Exact, Structs
<1>2. \A i \in Cells : kv.cells[i] \in CellT BY <1>1
<1>3. \A i \in Cells : kv.cells[i].pos >= -1 /\ (kv.cells[i].pos >= 0 <=> kv.cells[i].seqs # {})
  BY DEF Sound, Exact
<1> QED BY <1>1, <1>2, <1>3, UsedIsFinite DEF CellT

LEMMA CpKeeps ==
    ASSUME NEW kv, Sound(kv), NEW s \in Seqs, NEW t \in Seqs, NEW p0 \in Nat, NEW p1 \in Nat
    PROVE  KeepsCap(kv, SeqCp(kv, s, t, p0, p1))
<1> DEFINE cells2 == [i \in Cells |-> IF In(kv.cells[i], s, p0, p1)
                         THEN [kv.cells[i] EXCEPT !.seqs = @ \cup {t}] ELSE kv.cells[i]]
           kv2 == SeqCp(kv, s, t, p0, p1)
<1>0. kv \in Structs /\ kv.used = Cardinality(Used(kv.cells)) BY SoundFacts
<1>1. kv2 = [kv EXCEPT !.cells = cells2, !.head = 0] BY DEF SeqCp
<1>2. \A i \in Cells : In(kv.cells[i], s, p0, p1) => kv.cells[i].seqs # {}
  BY SoundFacts DEF In
<1>3. ASSUME NEW i \in Cells
      PROVE  /\ cells2[i] \in CellT /\ cells2[i].pos = kv.cells[i].pos
             /\ cells2[i].delta = kv.cells[i].delta
             /\ cells2[i].seqs = {} <=> kv.cells[i].seqs = {}
  <2>1. kv.cells[i] \in CellT BY SoundFacts
  <2> QED BY <1>2, <2>1 DEF CellT
<1>4. cells2 \in [Cells -> CellT] BY <1>3
<1>5. Used(cells2) = Used(kv.cells) BY <1>3 DEF Used
<1> HIDE DEF cells2, kv2
<1>6. kv2 \in Structs
  <2>1. 0 \in 0..NCells BY CellsAreNumbers
  <2> QED BY <1>0, <1>1, <1>4, <2>1 DEF Structs
<1>7. /\ kv2.cells = cells2 /\ kv2.rows = kv.rows /\ kv2.n = kv.n
      /\ kv2.has_shift = kv.has_shift /\ kv2.used = kv.used
  BY <1>0, <1>1 DEF Structs
<1>8. Exact(kv2) BY <1>3, <1>5, <1>7, SoundFacts DEF Exact
<1>9. Announced(kv2) BY <1>3, <1>7 DEF Announced, Sound
<1>10. Keyed(kv) => Keyed(kv2) BY <1>3, <1>5, <1>7, UsedIsFinite DEF Keyed
<1>11. Capped(kv) => Capped(kv2) BY <1>3, <1>7 DEF Capped
<1>12. Sound(kv2) BY <1>6, <1>7, <1>8, <1>9 DEF Sound
<1> QED BY <1>10, <1>11, <1>12 DEF Keeps, KeepsCap, kv2

LEMMA KeepKeeps ==
    ASSUME NEW kv, Sound(kv), NEW s \in Seqs
    PROVE  KeepsCap(kv, SeqKeep(kv, s))
<1> DEFINE others == {i \in Cells : s \notin kv.cells[i].seqs}
           counted == Counted(kv, others)
           cells2 == [i \in Cells |-> IF i \in others THEN Freed(kv.cells[i])
                                     ELSE [kv.cells[i] EXCEPT !.seqs = {s}]]
           kv2 == SeqKeep(kv, s)
<1>0. kv \in Structs /\ kv.used = Cardinality(Used(kv.cells)) BY SoundFacts
<1>1. kv2 = [kv EXCEPT !.cells = cells2, !.used = kv.used - Cardinality(counted),
                       !.head = Lowered(kv.head, others)]
  BY DEF SeqKeep
<1>2. ASSUME NEW i \in Cells
      PROVE  /\ cells2[i] \in CellT
             /\ cells2[i].pos = IF i \in others THEN -1 ELSE kv.cells[i].pos
             /\ cells2[i].delta = kv.cells[i].delta
             /\ cells2[i].seqs = IF i \in others THEN {} ELSE {s}
  <2>1. kv.cells[i] \in CellT BY SoundFacts
  <2>2. CASE i \in others BY <2>1, <2>2, FreedCell
  <2>3. CASE i \notin others BY <2>1, <2>3 DEF CellT
  <2> QED BY <2>2, <2>3
<1>3. cells2 \in [Cells -> CellT] BY <1>2
<1>4. \A i \in Cells : i \notin others => kv.cells[i].seqs # {} /\ kv.cells[i].pos >= 0
  BY SoundFacts
<1>5. \A i \in others : i \in Cells OBVIOUS
<1>6. \A i \in counted : i \in Used(kv.cells) BY <1>5, SoundFacts DEF Used, Counted
<1>7. Used(cells2) = Used(kv.cells) \ counted
  <2>1. \A i \in Cells : cells2[i].seqs # {} <=> i \notin others
    <3> HIDE DEF others, cells2
    <3> QED BY <1>2
  <2>2. \A i \in Cells : i \in counted <=> i \in others /\ kv.cells[i].seqs # {}
    BY <1>5, SoundFacts DEF Counted
  <2> HIDE DEF cells2, counted, others
  <2> QED BY <1>4, <2>1, <2>2 DEF Used
<1> HIDE DEF cells2, kv2, counted
<1>8. Cardinality(Used(cells2)) = kv.used - Cardinality(counted) BY <1>6, <1>7, FewerUsed, <1>0
<1>9. kv.used - Cardinality(counted) \in Int BY <1>8, UsedIsFinite
<1>10. Lowered(kv.head, others) \in 0..NCells
  <2>1. kv.head \in 0..NCells BY SoundFacts DEF Structs
  <2> QED BY <1>5, <2>1, LoweredIs
<1> HIDE DEF others
<1>11. kv2 \in Structs BY <1>1, <1>3, <1>9, <1>10, <1>0 DEF Structs
<1>12. /\ kv2.cells = cells2 /\ kv2.rows = kv.rows /\ kv2.n = kv.n
       /\ kv2.has_shift = kv.has_shift /\ kv2.used = kv.used - Cardinality(counted)
  BY <1>0, <1>1 DEF Structs
<1>13. Exact(kv2)
  <2>1. \A i \in Cells : cells2[i].pos >= -1 /\ (cells2[i].pos >= 0 <=> cells2[i].seqs # {})
    <3> SUFFICES ASSUME NEW i \in Cells
                 PROVE  cells2[i].pos >= -1 /\ (cells2[i].pos >= 0 <=> cells2[i].seqs # {})
      OBVIOUS
    <3>1. CASE i \in others BY <1>2, <3>1
    <3>2. CASE i \notin others
      <4>1. kv.cells[i].pos \in Int BY SoundFacts
      <4> QED BY <1>2, <1>4, <3>2, <4>1
    <3> QED BY <3>1, <3>2
  <2> QED BY <1>8, <1>12, <2>1 DEF Exact
<1>14. Announced(kv2) BY <1>2, <1>12 DEF Announced, Sound
<1>15. Keyed(kv) => Keyed(kv2)
  <2>1. \A i \in Used(cells2) : i \in Cells /\ i \in Used(kv.cells) /\ i \notin others
    BY <1>2, <1>7, UsedIsFinite DEF Used
  <2> QED BY <1>2, <1>12, <2>1 DEF Keyed
<1>16. Capped(kv) => Capped(kv2)
  <2>1. MaxPos \in Nat BY KvAssumption
  <2> QED BY <1>2, <1>12, <2>1 DEF Capped
<1>17. Sound(kv2) BY <1>11, <1>12, <1>13, <1>14 DEF Sound
<1> QED BY <1>15, <1>16, <1>17 DEF Keeps, KeepsCap, kv2

LEMMA AddKeeps ==
    ASSUME NEW kv, Sound(kv), NEW s \in Seqs, NEW p0 \in Nat, NEW p1 \in Nat, NEW d \in Int
    PROVE  Keeps(kv, SeqAdd(kv, s, p0, p1, d))
<1> DEFINE hit   == {i \in Cells : In(kv.cells[i], s, p0, p1)}
           freed == {i \in hit : kv.cells[i].pos + d < 0}
           moved == [i \in hit |-> [kv.cells[i] EXCEPT !.pos = @ + d, !.delta = @ + d]]
           cells2 == [i \in Cells |-> IF i \in freed THEN Freed(moved[i])
                                     ELSE IF i \in hit THEN moved[i] ELSE kv.cells[i]]
           head2 == IF freed = {} THEN 0 ELSE Min(freed)
           kv2 == SeqAdd(kv, s, p0, p1, d)
<1>0. kv \in Structs /\ kv.used = Cardinality(Used(kv.cells)) BY SoundFacts
<1>1. kv2 = [kv EXCEPT !.cells = cells2, !.has_shift = kv.has_shift \/ hit # {},
                       !.used = kv.used - Cardinality(freed), !.head = head2]
  BY DEF SeqAdd
<1>2. ASSUME NEW i \in hit
      PROVE  /\ moved[i] \in CellT /\ moved[i].pos = kv.cells[i].pos + d
             /\ moved[i].delta = kv.cells[i].delta + d /\ moved[i].seqs = kv.cells[i].seqs
             /\ kv.cells[i].seqs # {} /\ kv.cells[i].pos >= 0
  <2>1. kv.cells[i] \in CellT BY SoundFacts
  <2>2. kv.cells[i].seqs # {} /\ kv.cells[i].pos >= 0 BY SoundFacts DEF In
  <2> DEFINE c == kv.cells[i]
  <2>3. moved[i] = [c EXCEPT !.pos = c.pos + d, !.delta = c.delta + d] OBVIOUS
  <2>4. c.pos + d \in Int /\ c.delta + d \in Int BY <2>1 DEF CellT
  <2> HIDE DEF c, moved
  <2>5. c \in CellT BY <2>1 DEF c
  <2>6. /\ moved[i] \in CellT /\ moved[i].pos = c.pos + d
        /\ moved[i].delta = c.delta + d /\ moved[i].seqs = c.seqs
    BY <2>3, <2>4, <2>5 DEF CellT
  <2> QED BY <2>2, <2>6 DEF c
<1> HIDE DEF moved
<1>3. ASSUME NEW i \in Cells
      PROVE  /\ cells2[i] \in CellT
             /\ cells2[i].pos = IF i \in freed THEN -1
                                ELSE IF i \in hit THEN kv.cells[i].pos + d ELSE kv.cells[i].pos
             /\ cells2[i].delta = IF i \in hit THEN kv.cells[i].delta + d ELSE kv.cells[i].delta
             /\ cells2[i].seqs = IF i \in freed THEN {} ELSE kv.cells[i].seqs
  <2>1. CASE i \in freed BY <1>2, <2>1, FreedCell
  <2>2. CASE i \in hit /\ i \notin freed BY <1>2, <2>2
  <2>3. CASE i \notin hit BY <2>3, SoundFacts
  <2> QED BY <2>1, <2>2, <2>3
<1>4. cells2 \in [Cells -> CellT] BY <1>3
<1>5. \A i \in freed : i \in Cells /\ i \in hit /\ i \in Used(kv.cells) BY <1>2 DEF Used
<1>6. Used(cells2) = Used(kv.cells) \ freed BY <1>3 DEF Used
<1>7. \A i \in hit : i \notin freed => kv.cells[i].pos + d >= 0 BY SoundFacts
<1> HIDE DEF cells2, kv2, freed
<1>8. Cardinality(Used(cells2)) = kv.used - Cardinality(freed) BY <1>5, <1>6, FewerUsed, <1>0
<1>9. kv.used - Cardinality(freed) \in Int BY <1>8, UsedIsFinite
<1>10. head2 \in 0..NCells
  <2>1. CASE freed = {} BY <2>1, CellsAreNumbers
  <2>2. CASE freed # {}
    <3>1. Min(freed) \in freed BY <1>5, <2>2, CellsAreNumbers, MinIs
    <3> QED BY <1>5, <2>2, <3>1, CellsAreNumbers
  <2> QED BY <2>1, <2>2
<1> HIDE DEF head2
<1>11. kv.has_shift \in BOOLEAN BY SoundFacts DEF Structs
<1> DEFINE shift2 == kv.has_shift \/ hit # {}
<1>12. shift2 \in BOOLEAN BY <1>11
<1>13. \A i \in hit : shift2 OBVIOUS
<1>14. kv.has_shift => shift2 OBVIOUS
<1> HIDE DEF shift2
<1>15. kv2 = [kv EXCEPT !.cells = cells2, !.has_shift = shift2,
                        !.used = kv.used - Cardinality(freed), !.head = head2]
  BY <1>1 DEF shift2
<1>16. kv2 \in Structs BY <1>4, <1>9, <1>10, <1>12, <1>15, <1>0 DEF Structs
<1>17. /\ kv2.cells = cells2 /\ kv2.rows = kv.rows /\ kv2.n = kv.n
       /\ kv2.has_shift = shift2 /\ kv2.used = kv.used - Cardinality(freed)
  BY <1>0, <1>15 DEF Structs
<1>18. \A i \in hit : kv.cells[i].seqs # {} BY <1>2
<1> HIDE DEF hit
<1>19. Exact(kv2)
  <2>1. \A i \in Cells : cells2[i].pos >= -1 BY <1>3, <1>7, SoundFacts
  <2>2. \A i \in Cells : cells2[i].pos >= 0 <=> cells2[i].seqs # {}
    BY <1>3, <1>5, <1>7, <1>18, SoundFacts
  <2> QED BY <1>8, <1>17, <2>1, <2>2 DEF Exact
<1>20. Announced(kv2) BY <1>3, <1>13, <1>14, <1>17 DEF Announced, Sound
<1>21. Keyed(kv) => Keyed(kv2)
  <2> SUFFICES ASSUME Keyed(kv), NEW i \in Used(cells2)
               PROVE  kv.rows[i].rope + cells2[i].delta = cells2[i].pos
    BY <1>17 DEF Keyed
  <2>1. i \in Cells /\ i \in Used(kv.cells) /\ i \notin freed BY <1>6, UsedIsFinite
  <2>2. kv.rows[i].rope + kv.cells[i].delta = kv.cells[i].pos BY <2>1 DEF Keyed
  <2>3. kv.rows[i].rope \in Int
    <3>1. kv.rows[i] \in Row BY <2>1, SoundFacts
    <3> QED BY <3>1 DEF Row
  <2>4. kv.cells[i].pos \in Int /\ kv.cells[i].delta \in Int BY <2>1, SoundFacts
  <2> QED BY <1>3, <2>1, <2>2, <2>3, <2>4
<1>22. Sound(kv2) BY <1>16, <1>17, <1>19, <1>20 DEF Sound
<1> QED BY <1>21, <1>22 DEF Keeps, kv2

LEMMA Quotient ==
    ASSUME NEW a \in Nat, NEW d \in Nat, d > 0
    PROVE  a \div d \in Nat /\ a \div d <= a
<1>1. a \div d \in Int /\ d * (a \div d) <= a /\ a < d * (a \div d) + d OBVIOUS
<1> DEFINE q == a \div d
<1> HIDE DEF q
<1>2. q \in Int /\ d * q <= a /\ a < d * q + d BY <1>1 DEF q
<1>3. q >= 0
  <2>1. ASSUME q <= -1 PROVE FALSE
    <3>1. d * q <= -d BY <1>2, <2>1
    <3> QED BY <1>2, <3>1
  <2> QED BY <1>2, <2>1
<1>4. q <= d * q BY <1>2, <1>3
<1> QED BY <1>2, <1>3, <1>4 DEF q

LEMMA DivKeeps ==
    ASSUME NEW kv, Sound(kv), NEW s \in Seqs, NEW p0 \in Nat, NEW p1 \in Nat
    PROVE  KeepsCap(kv, SeqDiv(kv, s, p0, p1))
<1> DEFINE hit == {i \in Cells : In(kv.cells[i], s, p0, p1)}
           shift2 == kv.has_shift \/ hit # {}
           quot(i) == kv.cells[i].pos \div Divisor
           cells2 == [i \in Cells |-> IF i \in hit
                         THEN [kv.cells[i] EXCEPT !.pos = @ \div Divisor,
                                  !.delta = @ + kv.cells[i].pos \div Divisor - kv.cells[i].pos]
                         ELSE kv.cells[i]]
           kv2 == SeqDiv(kv, s, p0, p1)
<1>0. kv \in Structs /\ kv.used = Cardinality(Used(kv.cells)) BY SoundFacts
<1>1. kv2 = [kv EXCEPT !.cells = cells2, !.has_shift = shift2] BY DEF SeqDiv
<1>2. \A i \in hit : kv.cells[i].pos \in Nat BY SoundFacts DEF In
<1>3. \A i \in hit : quot(i) \in Nat /\ quot(i) <= kv.cells[i].pos
  <2>1. Divisor \in Nat /\ Divisor > 0 BY KvAssumption
  <2> QED BY <1>2, <2>1, Quotient
<1>4. ASSUME NEW i \in Cells
      PROVE  /\ cells2[i] \in CellT
             /\ cells2[i].pos = IF i \in hit THEN quot(i) ELSE kv.cells[i].pos
             /\ cells2[i].delta = IF i \in hit THEN kv.cells[i].delta + quot(i) - kv.cells[i].pos
                                  ELSE kv.cells[i].delta
             /\ cells2[i].seqs = kv.cells[i].seqs
  <2> DEFINE c == kv.cells[i]  q == quot(i)
  <2>1. c \in CellT BY SoundFacts
  <2>2. CASE i \notin hit BY <2>1, <2>2
  <2>3. CASE i \in hit
    <3>1. q \in Int /\ c.delta + q - c.pos \in Int BY <1>3, <2>1, <2>3 DEF CellT
    <3>2. cells2[i] = [c EXCEPT !.pos = q, !.delta = c.delta + q - c.pos] BY <2>3
    <3> HIDE DEF c, q, cells2, hit
    <3>3. /\ cells2[i] \in CellT /\ cells2[i].pos = q
          /\ cells2[i].delta = c.delta + q - c.pos /\ cells2[i].seqs = c.seqs
      BY <2>1, <3>1, <3>2 DEF CellT
    <3> QED BY <2>3, <3>3 DEF c, q
  <2> QED BY <2>2, <2>3
<1>5. kv.has_shift \in BOOLEAN BY <1>0 DEF Structs
<1>6. shift2 \in BOOLEAN /\ (\A i \in hit : shift2) /\ (kv.has_shift => shift2) BY <1>5
<1>7. \A i \in hit : i \in Cells OBVIOUS
<1> HIDE DEF cells2, kv2, shift2, hit, quot
<1>8. cells2 \in [Cells -> CellT] BY <1>4 DEF cells2
<1>9. Used(cells2) = Used(kv.cells) BY <1>4 DEF Used
<1>10. kv2 \in Structs BY <1>0, <1>1, <1>6, <1>8 DEF Structs
<1>11. /\ kv2.cells = cells2 /\ kv2.rows = kv.rows /\ kv2.n = kv.n
       /\ kv2.has_shift = shift2 /\ kv2.used = kv.used
  BY <1>0, <1>1 DEF Structs
<1>12. Exact(kv2)
  <2>1. \A i \in Cells : cells2[i].pos >= -1 /\ (cells2[i].pos >= 0 <=> cells2[i].seqs # {})
    <3> SUFFICES ASSUME NEW i \in Cells
                 PROVE  cells2[i].pos >= -1 /\ (cells2[i].pos >= 0 <=> cells2[i].seqs # {})
      OBVIOUS
    <3>1. kv.cells[i].pos >= -1 /\ (kv.cells[i].pos >= 0 <=> kv.cells[i].seqs # {})
      BY SoundFacts
    <3>2. CASE i \in hit BY <1>2, <1>3, <1>4, <3>1, <3>2
    <3>3. CASE i \notin hit BY <1>4, <3>1, <3>3
    <3> QED BY <3>2, <3>3
  <2> QED BY <1>0, <1>9, <1>11, <2>1 DEF Exact
<1>13. Announced(kv2) BY <1>4, <1>6, <1>11 DEF Announced, Sound
<1>14. Keyed(kv) => Keyed(kv2)
  <2> SUFFICES ASSUME Keyed(kv), NEW i \in Used(cells2)
               PROVE  kv.rows[i].rope + cells2[i].delta = cells2[i].pos
    BY <1>11 DEF Keyed
  <2>1. i \in Cells /\ i \in Used(kv.cells) BY <1>9, UsedIsFinite
  <2>2. kv.rows[i].rope + kv.cells[i].delta = kv.cells[i].pos BY <2>1 DEF Keyed
  <2>3. kv.rows[i].rope \in Int
    <3>1. kv.rows[i] \in Row BY <2>1, SoundFacts
    <3> QED BY <3>1 DEF Row
  <2>4. kv.cells[i].pos \in Int /\ kv.cells[i].delta \in Int BY <2>1, SoundFacts
  <2>5. CASE i \in hit
    <3>1. quot(i) \in Int BY <1>3, <2>5
    <3> QED BY <1>4, <2>1, <2>2, <2>3, <2>4, <2>5, <3>1
  <2>6. CASE i \notin hit BY <1>4, <2>1, <2>2, <2>6
  <2> QED BY <2>5, <2>6
<1>15. Capped(kv) => Capped(kv2)
  <2> SUFFICES ASSUME Capped(kv), NEW i \in Cells PROVE cells2[i].pos <= MaxPos
    BY <1>11 DEF Capped
  <2>1. kv.cells[i].pos <= MaxPos /\ MaxPos \in Nat BY KvAssumption DEF Capped
  <2>2. CASE i \in hit BY <1>2, <1>3, <1>4, <2>1, <2>2
  <2>3. CASE i \notin hit BY <1>4, <2>1, <2>3
  <2> QED BY <2>2, <2>3
<1>16. Sound(kv2) BY <1>10, <1>11, <1>12, <1>13 DEF Sound
<1> QED BY <1>14, <1>15, <1>16 DEF Keeps, KeepsCap, kv2

LEMMA NoneUsed ==
    ASSUME NEW cells, \A i \in Cells : cells[i].seqs = {}
    PROVE  Used(cells) = {} /\ Cardinality(Used(cells)) = 0
<1>1. Used(cells) = {} BY DEF Used
<1> QED BY <1>1, FS_EmptySet

LEMMA ClearedIsEmpty ==
    ASSUME NEW kv, Sound(kv)
    PROVE  /\ Sound(Cleared(kv)) /\ Keyed(Cleared(kv)) /\ Capped(Cleared(kv))
           /\ Used(Cleared(kv).cells) = {} /\ Cleared(kv).head = 0
           /\ Cleared(kv).has_shift = kv.has_shift
<1> DEFINE cells2 == [i \in Cells |-> Freed(kv.cells[i])]
           rows2 == [i \in Cells |-> NoRow]
           kv2 == Cleared(kv)
<1>0. kv \in Structs BY SoundFacts
<1>1. kv2 = [kv EXCEPT !.cells = cells2, !.rows = rows2, !.head = 0, !.used = 0] BY DEF Cleared
<1>2. ASSUME NEW i \in Cells
      PROVE  /\ cells2[i] \in CellT /\ cells2[i].pos = -1 /\ cells2[i].seqs = {}
             /\ cells2[i].delta = kv.cells[i].delta
  <2>1. kv.cells[i] \in CellT BY SoundFacts
  <2> QED BY <2>1, FreedCell
<1>3. cells2 \in [Cells -> CellT] BY <1>2
<1>4. rows2 \in [Cells -> Row] BY DEF Row, NoRow
<1>5. 0 \in 0..NCells BY CellsAreNumbers
<1> HIDE DEF cells2, rows2, kv2
<1>6. Used(cells2) = {} /\ Cardinality(Used(cells2)) = 0 BY <1>2, NoneUsed
<1>14. kv = [cells |-> kv.cells, rows |-> kv.rows, head |-> kv.head, used |-> kv.used, n |-> kv.n,
             has_shift |-> kv.has_shift, do_defrag |-> kv.do_defrag]
  BY <1>0 DEF Structs
<1>15. kv2 = [cells |-> cells2, rows |-> rows2, head |-> 0, used |-> 0, n |-> kv.n,
              has_shift |-> kv.has_shift, do_defrag |-> kv.do_defrag]
  BY <1>1, <1>14
<1>16. kv.n \in 0..NCells /\ kv.has_shift \in BOOLEAN /\ kv.do_defrag \in BOOLEAN
  BY <1>0 DEF Structs
<1>7. kv2 \in Structs BY <1>3, <1>4, <1>5, <1>15, <1>16 DEF Structs
<1>8. /\ kv2.cells = cells2 /\ kv2.n = kv.n /\ kv2.head = 0
      /\ kv2.has_shift = kv.has_shift /\ kv2.used = 0
  BY <1>0, <1>1 DEF Structs
<1>9. Exact(kv2)
  <2>1. \A i \in Cells : cells2[i].pos >= -1 /\ (cells2[i].pos >= 0 <=> cells2[i].seqs # {})
    BY <1>2
  <2>2. kv2.used = Cardinality(Used(kv2.cells)) BY <1>6, <1>8
  <2> QED BY <1>8, <2>1, <2>2 DEF Exact
<1>10. Announced(kv2) BY <1>2, <1>8 DEF Announced, Sound
<1>11. Keyed(kv2) BY <1>6, <1>8 DEF Keyed
<1>12. Capped(kv2)
  <2>1. -1 <= MaxPos BY KvAssumption
  <2> QED BY <1>2, <1>8, <2>1 DEF Capped
<1>13. Sound(kv2) BY <1>7, <1>8, <1>9, <1>10 DEF Sound
<1> QED BY <1>6, <1>8, <1>11, <1>12, <1>13 DEF kv2

LEMMA ReadableKeeps ==
    ASSUME NEW kv, Sound(kv)
    PROVE  /\ KeepsCap(kv, Readable(kv)) /\ Readable(kv).cells = kv.cells
           /\ Readable(kv).has_shift = kv.has_shift
<1> DEFINE rows2 == [i \in Cells |-> IF kv.cells[i].seqs = {} THEN NoRow ELSE kv.rows[i]]
           kv2 == Readable(kv)
<1>0. kv \in Structs /\ kv.rows \in [Cells -> Row] BY SoundFacts
<1>1. kv2 = [kv EXCEPT !.rows = rows2] BY DEF Readable
<1>2. rows2 \in [Cells -> Row]
  <2>1. NoRow \in Row BY DEF Row, NoRow
  <2> QED BY <1>0, <2>1
<1>3. \A i \in Used(kv.cells) : rows2[i] = kv.rows[i] BY DEF Used
<1> HIDE DEF rows2, kv2
<1>4. kv2 \in Structs BY <1>0, <1>1, <1>2 DEF Structs
<1>5. /\ kv2.cells = kv.cells /\ kv2.rows = rows2 /\ kv2.n = kv.n
      /\ kv2.has_shift = kv.has_shift /\ kv2.used = kv.used
  BY <1>0, <1>1 DEF Structs
<1>6. Exact(kv2) BY <1>5 DEF Exact, Sound
<1>7. Announced(kv2) BY <1>5 DEF Announced, Sound
<1>8. Keyed(kv) => Keyed(kv2) BY <1>3, <1>5 DEF Keyed
<1>9. Capped(kv) => Capped(kv2) BY <1>5 DEF Capped
<1>10. Sound(kv2) BY <1>4, <1>5, <1>6, <1>7 DEF Sound
<1> QED BY <1>5, <1>8, <1>9, <1>10 DEF Keeps, KeepsCap, kv2

\* After the K shift nothing is pending.
Settled(kv) == \A i \in Cells : kv.cells[i].delta = 0

LEMMA ShiftKeeps ==
    ASSUME NEW kv, Sound(kv)
    PROVE  KeepsCap(kv, KShift(kv)) /\ Settled(KShift(kv))
<1> DEFINE rows2 == [i \in Cells |-> [kv.rows[i] EXCEPT !.rope = @ + kv.cells[i].delta]]
           cells2 == [i \in Cells |-> [kv.cells[i] EXCEPT !.delta = 0]]
           kv2 == KShift(kv)
<1>0. /\ kv \in Structs /\ kv.used = Cardinality(Used(kv.cells))
      /\ kv.cells \in [Cells -> CellT] /\ kv.rows \in [Cells -> Row]
  BY SoundFacts
<1>1. kv2 = [kv EXCEPT !.rows = rows2, !.cells = cells2, !.has_shift = FALSE] BY DEF KShift
<1>2. ASSUME NEW i \in Cells
      PROVE  /\ cells2[i] \in CellT /\ cells2[i].pos = kv.cells[i].pos
             /\ cells2[i].seqs = kv.cells[i].seqs /\ cells2[i].delta = 0
  <2> DEFINE c == kv.cells[i]
  <2>1. c \in CellT /\ cells2[i] = [c EXCEPT !.delta = 0] BY <1>0
  <2> HIDE DEF c, cells2
  <2>2. /\ cells2[i] \in CellT /\ cells2[i].pos = c.pos
        /\ cells2[i].seqs = c.seqs /\ cells2[i].delta = 0
    BY <2>1 DEF CellT
  <2> QED BY <2>2 DEF c
<1>3. ASSUME NEW i \in Cells
      PROVE  rows2[i] \in Row /\ rows2[i].rope = kv.rows[i].rope + kv.cells[i].delta
  <2> DEFINE r == kv.rows[i]  d == kv.cells[i].delta
  <2>1. r \in Row /\ d \in Int /\ rows2[i] = [r EXCEPT !.rope = r.rope + d]
    BY <1>0, SoundFacts
  <2> HIDE DEF r, d, rows2
  <2>2. rows2[i] \in Row /\ rows2[i].rope = r.rope + d BY <2>1 DEF Row
  <2> QED BY <2>2 DEF r, d
<1>4. cells2 \in [Cells -> CellT] BY <1>2
<1>5. rows2 \in [Cells -> Row] BY <1>3
<1> HIDE DEF rows2, cells2, kv2
<1>6. kv2 \in Structs BY <1>0, <1>1, <1>4, <1>5 DEF Structs
<1>7. /\ kv2.cells = cells2 /\ kv2.rows = rows2 /\ kv2.n = kv.n
      /\ kv2.has_shift = FALSE /\ kv2.used = kv.used
  BY <1>0, <1>1 DEF Structs
<1>8. Used(cells2) = Used(kv.cells) BY <1>2 DEF Used
<1>9. Exact(kv2) BY <1>0, <1>2, <1>7, <1>8, SoundFacts DEF Exact
<1>10. Announced(kv2) /\ Settled(kv2) BY <1>2, <1>7 DEF Announced, Settled
<1>11. Keyed(kv) => Keyed(kv2)
  <2> SUFFICES ASSUME Keyed(kv), NEW i \in Used(cells2)
               PROVE  rows2[i].rope + cells2[i].delta = cells2[i].pos
    BY <1>7 DEF Keyed
  <2>1. i \in Cells /\ i \in Used(kv.cells) BY <1>8, UsedIsFinite
  <2>2. kv.rows[i].rope + kv.cells[i].delta = kv.cells[i].pos BY <2>1 DEF Keyed
  <2>3. kv.cells[i].pos \in Int BY <2>1, SoundFacts
  <2> QED BY <1>2, <1>3, <2>1, <2>2, <2>3
<1>12. Capped(kv) => Capped(kv2) BY <1>2, <1>7 DEF Capped
<1>13. Sound(kv2) BY <1>6, <1>7, <1>9, <1>10 DEF Sound
<1> QED BY <1>10, <1>11, <1>12, <1>13 DEF Keeps, KeepsCap, kv2

-----------------------------------------------------------------------------
(* Defragmenting                                                           *)

LEMMA RunIs ==
    ASSUME NEW H, NEW i \in Nat, NEW j \in Nat
    PROVE  SameRun(H, i, j) <=>
              \A x \in Nat : (i <= x /\ x <= j) \/ (j <= x /\ x <= i) => x \in H
BY DEF SameRun

\* The holes are filled in an order, the first with the topmost cell.
LEMMA FillingOrder ==
    ASSUME NEW H, \A x \in H : x \in Nat,
           NEW i \in H, NEW j \in H, j \in FilledAbove(H, i)
    PROVE  /\ i \notin FilledAbove(H, j) /\ i # j
           /\ \A x \in FilledAbove(H, j) : x \in FilledAbove(H, i)
<1>1. i \in Nat /\ j \in Nat OBVIOUS
<1>2. SameRun(H, i, j) <=> SameRun(H, j, i) BY DEF SameRun
<1>3. IF SameRun(H, i, j) THEN j > i ELSE j < i BY DEF FilledAbove
<1>4. i # j
  <2>1. CASE SameRun(H, i, j) BY <2>1, <1>1, <1>3
  <2>2. CASE ~SameRun(H, i, j) BY <2>2, <1>1, <1>3
  <2> QED BY <2>1, <2>2
<1>5. i \notin FilledAbove(H, j)
  <2>1. CASE SameRun(H, i, j) BY <2>1, <1>1, <1>2, <1>3 DEF FilledAbove
  <2>2. CASE ~SameRun(H, i, j) BY <2>2, <1>1, <1>2, <1>3 DEF FilledAbove
  <2> QED BY <2>1, <2>2
<1>6. ASSUME NEW x \in FilledAbove(H, j) PROVE x \in FilledAbove(H, i)
  <2>1. x \in H /\ x \in Nat BY DEF FilledAbove
  <2>2. IF SameRun(H, j, x) THEN x > j ELSE x < j BY DEF FilledAbove
  <2> DEFINE Between(a, b) == \A y \in Nat : (a <= y /\ y <= b) \/ (b <= y /\ y <= a) => y \in H
  <2>3. /\ SameRun(H, i, j) <=> Between(i, j)
        /\ SameRun(H, j, x) <=> Between(j, x)
        /\ SameRun(H, i, x) <=> Between(i, x)
    BY <1>1, <2>1, RunIs
  <2>4. IF Between(i, x) THEN x > i ELSE x < i
    <3>1. CASE Between(i, j) /\ Between(j, x)
      <4>1. j > i /\ x > j BY <1>3, <2>2, <2>3, <3>1
      <4>2. Between(i, x) BY <1>1, <2>1, <3>1, <4>1
      <4> HIDE DEF Between
      <4> QED BY <1>1, <2>1, <4>1, <4>2
    <3>2. CASE Between(i, j) /\ ~Between(j, x)
      <4>1. j > i /\ x < j BY <1>3, <2>2, <2>3, <3>2
      <4>2. ~Between(i, x)
        <5>1. ASSUME Between(i, x) PROVE Between(j, x)
          <6> SUFFICES ASSUME NEW y \in Nat, x <= y, y <= j PROVE y \in H BY <1>1, <2>1, <4>1
          <6>1. CASE y <= i BY <1>1, <2>1, <5>1, <6>1
          <6>2. CASE i <= y BY <1>1, <2>1, <3>2, <6>2
          <6> QED BY <1>1, <6>1, <6>2
        <5> QED BY <3>2, <5>1
      <4>3. x < i
        <5>1. ASSUME i <= x PROVE FALSE
          <6>1. Between(j, x) BY <1>1, <2>1, <3>2, <4>1, <5>1
          <6> QED BY <3>2, <6>1
        <5> QED BY <1>1, <2>1, <5>1
      <4> HIDE DEF Between
      <4> QED BY <4>2, <4>3
    <3>3. CASE ~Between(i, j) /\ Between(j, x)
      <4>1. j < i /\ x > j BY <1>3, <2>2, <2>3, <3>3
      <4>2. x < i
        <5>1. ASSUME i <= x PROVE FALSE
          <6>1. Between(i, j) BY <1>1, <2>1, <3>3, <4>1, <5>1
          <6> QED BY <3>3, <6>1
        <5> QED BY <1>1, <2>1, <5>1
      <4>3. ~Between(i, x)
        <5>1. ASSUME Between(i, x) PROVE Between(i, j)
          <6> SUFFICES ASSUME NEW y \in Nat, j <= y, y <= i PROVE y \in H BY <1>1, <4>1
          <6>1. CASE y <= x BY <1>1, <2>1, <3>3, <4>1, <6>1
          <6>2. CASE x <= y BY <1>1, <2>1, <5>1, <6>2
          <6> QED BY <2>1, <6>1, <6>2
        <5> QED BY <3>3, <5>1
      <4> HIDE DEF Between
      <4> QED BY <4>2, <4>3
    <3>4. CASE ~Between(i, j) /\ ~Between(j, x)
      <4>1. j < i /\ x < j BY <1>3, <2>2, <2>3, <3>4
      <4>2. ~Between(i, x)
        <5>1. ASSUME Between(i, x) PROVE Between(i, j) BY <1>1, <2>1, <4>1, <5>1
        <5> QED BY <3>4, <5>1
      <4> HIDE DEF Between
      <4> QED BY <1>1, <2>1, <4>1, <4>2
    <3> HIDE DEF Between
    <3> QED BY <3>1, <3>2, <3>3, <3>4
  <2> HIDE DEF Between
  <2> QED BY <2>1, <2>3, <2>4 DEF FilledAbove
<1> QED BY <1>4, <1>5, <1>6

LEMMA FillingTotal ==
    ASSUME NEW H, \A x \in H : x \in Nat, NEW i \in H, NEW j \in H, i # j
    PROVE  j \in FilledAbove(H, i) \/ i \in FilledAbove(H, j)
<1>1. i \in Nat /\ j \in Nat OBVIOUS
<1>2. SameRun(H, i, j) <=> SameRun(H, j, i) BY DEF SameRun
<1>3. i < j \/ j < i BY <1>1
<1>4. CASE SameRun(H, i, j) BY <1>2, <1>3, <1>4 DEF FilledAbove
<1>5. CASE ~SameRun(H, i, j) BY <1>2, <1>3, <1>5 DEF FilledAbove
<1> QED BY <1>4, <1>5

LEMMA HolesAre ==
    ASSUME NEW kv, Sound(kv)
    PROVE  /\ \A i \in Holes(kv) : i \in Cells /\ i \in Nat /\ i \notin Used(kv.cells)
           /\ \A i \in Beyond(kv) : i \in Cells /\ i \in Used(kv.cells)
           /\ IsFiniteSet(Holes(kv)) /\ IsFiniteSet(Beyond(kv))
           /\ Cardinality(Holes(kv)) = Cardinality(Beyond(kv))
<1> DEFINE n == kv.used  U == Used(kv.cells)  L == 0..n - 1
<1>1. n = Cardinality(U) /\ n \in Nat BY SoundFacts
<1>2. U \subseteq Cells BY UsedIsFinite
<1>3. IsFiniteSet(U) /\ n <= NCells BY <1>1, <1>2, CellsAreNumbers, FS_Subset
<1>4. IsFiniteSet(L) /\ Cardinality(L) = n
  <2>1. IsFiniteSet(0..n - 1) /\ Cardinality(0..n - 1) = IF 0 > n - 1 THEN 0 ELSE n - 1 - 0 + 1
    BY <1>1, FS_Interval
  <2> QED BY <1>1, <2>1
<1>5. \A i \in L : i \in Cells /\ i \in Nat BY <1>1, <1>3, CellsAreNumbers
<1>6. Holes(kv) = L \ U
  <2>1. \A i \in L : i \in U <=> kv.cells[i].seqs # {} BY <1>5 DEF Used
  <2> QED BY <2>1 DEF Holes
<1>7. Beyond(kv) = U \ L
  <2>1. \A i \in U : i \in Nat BY <1>2, CellsAreNumbers
  <2> QED BY <1>1, <2>1 DEF Beyond
<1> HIDE DEF L, n, U
<1>8. IsFiniteSet(L \ U) /\ Cardinality(L \ U) = n - Cardinality(L \cap U)
  BY <1>3, <1>4, FS_Difference
<1>9. IsFiniteSet(U \ L) /\ Cardinality(U \ L) = n - Cardinality(U \cap L)
  BY <1>1, <1>3, <1>4, FS_Difference
<1>10. L \cap U = U \cap L OBVIOUS
<1>11. Cardinality(Holes(kv)) = Cardinality(Beyond(kv)) BY <1>6, <1>7, <1>8, <1>9, <1>10
<1>12. \A i \in Holes(kv) : i \in Cells /\ i \in Nat /\ i \notin Used(kv.cells)
  BY <1>5, <1>6 DEF U
<1>13. \A i \in Beyond(kv) : i \in Cells /\ i \in Used(kv.cells) BY <1>2, <1>7 DEF U
<1> QED BY <1>6, <1>7, <1>8, <1>9, <1>11, <1>12, <1>13

\* Each hole has a cell of its own among the last ones in use.
LEMMA SourceIs ==
    ASSUME NEW kv, Sound(kv), NEW i \in Holes(kv)
    PROVE  /\ Source(kv, i) \in Beyond(kv)
           /\ Cardinality(Above(Beyond(kv), Source(kv, i)))
                 = Cardinality(FilledAbove(Holes(kv), i))
<1> DEFINE H == Holes(kv)  B == Beyond(kv)  A == FilledAbove(H, i)
<1>1. A \subseteq H BY DEF FilledAbove
<1>2. i \notin A
  <2>1. ASSUME i \in A PROVE FALSE
    <3>1. \A x \in H : x \in Nat BY HolesAre
    <3> HIDE DEF H
    <3> QED BY <2>1, <3>1, FillingOrder DEF H
  <2> QED BY <2>1
<1>3. IsFiniteSet(H) BY HolesAre
<1>4. IsFiniteSet(A) /\ Cardinality(A) \in Nat /\ Cardinality(H) \in Nat
      /\ Cardinality(A) <= Cardinality(H) /\ (Cardinality(H) = Cardinality(A) => H = A)
  BY <1>1, <1>3, FS_Subset, FS_CardinalityType
<1>5. Cardinality(A) < Cardinality(B) BY <1>2, <1>4, HolesAre
<1>6. \A x \in B : x \in Cells BY HolesAre
<1>7. Source(kv, i) = Ranked(B, Cardinality(A)) BY DEF Source
<1> HIDE DEF A, B, H
<1>8. Ranked(B, Cardinality(A)) \in B
      /\ Cardinality(Above(B, Ranked(B, Cardinality(A)))) = Cardinality(A)
  BY <1>4, <1>5, <1>6, RankedIs
<1> QED BY <1>7, <1>8 DEF A, B, H

LEMMA SourcesDiffer ==
    ASSUME NEW kv, Sound(kv), NEW i \in Holes(kv), NEW j \in Holes(kv), i # j
    PROVE  Source(kv, i) # Source(kv, j)
<1> DEFINE H == Holes(kv)
<1>1. \A x \in H : x \in Nat BY HolesAre
<1>2. IsFiniteSet(H) BY HolesAre
<1> HIDE DEF H
<1>3. ASSUME NEW a \in H, NEW b \in H, b \in FilledAbove(H, a)
      PROVE  Cardinality(FilledAbove(H, b)) # Cardinality(FilledAbove(H, a))
  <2>1. \A x \in FilledAbove(H, b) : x \in FilledAbove(H, a) BY <1>1, <1>3, FillingOrder
  <2>2. FilledAbove(H, a) \subseteq H BY DEF FilledAbove
  <2>3. IsFiniteSet(FilledAbove(H, a)) BY <1>2, <2>2, FS_Subset
  <2>4. b \notin FilledAbove(H, b)
    <3>1. ASSUME b \in FilledAbove(H, b) PROVE FALSE BY <1>1, <1>3, <3>1, FillingOrder
    <3> QED BY <3>1
  <2>5. FilledAbove(H, b) \in SUBSET FilledAbove(H, a) BY <2>1
  <2>6. FilledAbove(H, a) # FilledAbove(H, b) BY <1>3, <2>4
  <2> QED BY <2>3, <2>5, <2>6, FS_Subset
<1>4. j \in FilledAbove(H, i) \/ i \in FilledAbove(H, j) BY <1>1, FillingTotal DEF H
<1>5. Cardinality(FilledAbove(H, i)) # Cardinality(FilledAbove(H, j)) BY <1>3, <1>4 DEF H
<1> QED BY <1>5, SourceIs DEF H

LEMMA DefragKeeps ==
    ASSUME NEW kv, Sound(kv), NEW filled, \A i \in filled : i \in Holes(kv)
    PROVE  /\ KeepsCap(kv, Defragged(kv, filled))
           /\ Settled(kv) => Settled(Defragged(kv, filled))
<1> DEFINE From == {Source(kv, h) : h \in filled}
           src(i) == Source(kv, i)
           cells2 == [i \in Cells |-> IF i \in filled THEN kv.cells[src(i)]
                                      ELSE IF i \in From THEN EmptyCell ELSE kv.cells[i]]
           rows2 == [i \in Cells |-> IF i \in filled THEN kv.rows[src(i)] ELSE kv.rows[i]]
           head2 == IF filled = {} THEN kv.head ELSE kv.used
           kv2 == Defragged(kv, filled)
<1>0. /\ kv \in Structs /\ kv.used = Cardinality(Used(kv.cells)) /\ kv.used \in Nat
      /\ kv.cells \in [Cells -> CellT] /\ kv.rows \in [Cells -> Row]
  BY SoundFacts
<1>1. kv2 = [kv EXCEPT !.cells = cells2, !.rows = rows2, !.head = head2, !.do_defrag = FALSE]
  BY DEF Defragged, RowSource
<1>2. \A i \in filled : i \in Cells /\ i \notin Used(kv.cells) BY HolesAre
<1>3. \A i \in filled : src(i) \in Cells /\ src(i) \in Used(kv.cells) BY SourceIs, HolesAre
<1>4. \A i \in filled, j \in filled : i # j => src(i) # src(j) BY SourcesDiffer
<1>5. \A i \in Cells : cells2[i] = IF i \in filled THEN kv.cells[src(i)]
                                   ELSE IF i \in From THEN EmptyCell ELSE kv.cells[i]
  OBVIOUS
<1>6. \A i \in Cells : rows2[i] = IF i \in filled THEN kv.rows[src(i)] ELSE kv.rows[i]
  OBVIOUS
<1>7. \A i \in From : i \in Cells /\ i \in Used(kv.cells) BY <1>3
<1>8. Cardinality(From) = Cardinality(filled) /\ IsFiniteSet(filled)
  <2>1. filled \subseteq Cells BY <1>2
  <2>2. IsFiniteSet(filled) BY <2>1, CellsAreNumbers, FS_Subset
  <2> DEFINE f == [h \in filled |-> Source(kv, h)]
  <2>3. f \in Bijection(filled, From)
    <3>1. f \in [filled -> From] OBVIOUS
    <3>2. \A a, b \in filled : f[a] = f[b] => a = b BY <1>4
    <3>3. \A t \in From : \E h \in filled : f[h] = t OBVIOUS
    <3> HIDE DEF f, From
    <3> QED BY <3>1, <3>2, <3>3, Fun_IsBij
  <2>4. ExistsBijection(filled, From) BY <2>3 DEF ExistsBijection
  <2> QED BY <2>2, <2>4, FS_Bijection
<1>9. EmptyCell \in CellT /\ EmptyCell.seqs = {} /\ EmptyCell.pos = -1 /\ EmptyCell.delta = 0
  BY DEF EmptyCell, CellT
<1>10. cells2 \in [Cells -> CellT]
  <2>1. \A i \in Cells : cells2[i] \in CellT BY <1>0, <1>3, <1>5, <1>9
  <2> QED BY <2>1
<1>11. rows2 \in [Cells -> Row]
  <2>1. \A i \in Cells : rows2[i] \in Row BY <1>0, <1>3, <1>6
  <2> QED BY <2>1
<1>12. head2 \in 0..NCells
  <2>1. Used(kv.cells) \subseteq Cells BY UsedIsFinite
  <2>2. kv.used <= NCells BY <1>0, <2>1, CellsAreNumbers, FS_Subset
  <2>3. kv.head \in 0..NCells BY <1>0 DEF Structs
  <2> QED BY <1>0, <2>2, <2>3, CellsAreNumbers
<1> HIDE DEF cells2, rows2, head2, kv2, From, src
<1>13. Used(cells2) = (Used(kv.cells) \ From) \cup filled
  <2>1. \A i \in filled : kv.cells[src(i)].seqs # {} BY <1>3 DEF Used
  <2>2. \A i \in Cells : i \in Used(cells2) <=> i \in filled \/ (i \in Used(kv.cells) /\ i \notin From)
    BY <1>5, <1>9, <2>1 DEF Used
  <2>3. \A i \in Used(cells2) : i \in Cells BY UsedIsFinite
  <2>4. \A i \in Used(kv.cells) : i \in Cells BY UsedIsFinite
  <2> QED BY <1>2, <2>2, <2>3, <2>4
<1>14. Cardinality(Used(cells2)) = kv.used
  <2> DEFINE mid == [i \in Cells |-> IF i \in From THEN EmptyCell ELSE kv.cells[i]]
  <2>1. Used(mid) = Used(kv.cells) \ From BY <1>9 DEF Used
  <2> HIDE DEF mid
  <2>7. \A i \in From : i \in Used(kv.cells) BY <1>7
  <2>8. Cardinality(Used(mid)) = Cardinality(Used(kv.cells)) - Cardinality(From)
    BY <2>1, <2>7, FewerUsed
  <2>2. Cardinality(Used(mid)) = kv.used - Cardinality(From) BY <1>0, <2>8
  <2>3. Used(cells2) = Used(mid) \cup filled BY <1>13, <2>1
  <2>4. \A i \in filled : i \in Cells /\ i \notin Used(mid) BY <1>2, <2>1
  <2>5. Cardinality(Used(cells2)) = Cardinality(Used(mid)) + Cardinality(filled)
    BY <2>3, <2>4, MoreUsed
  <2>6. Cardinality(filled) \in Nat BY <1>8, FS_CardinalityType
  <2> QED BY <1>0, <1>8, <2>2, <2>5, <2>6
<1>15. kv2 \in Structs
  <2>1. FALSE \in BOOLEAN OBVIOUS
  <2> QED BY <1>0, <1>1, <1>10, <1>11, <1>12, <2>1 DEF Structs
<1>16. /\ kv2.cells = cells2 /\ kv2.rows = rows2 /\ kv2.n = kv.n
       /\ kv2.has_shift = kv.has_shift /\ kv2.used = kv.used
  BY <1>0, <1>1 DEF Structs
<1>17. Exact(kv2)
  <2>1. \A i \in Cells : cells2[i].pos >= -1 /\ (cells2[i].pos >= 0 <=> cells2[i].seqs # {})
    <3>1. \A i \in Cells : kv.cells[i].pos >= -1 /\ (kv.cells[i].pos >= 0 <=> kv.cells[i].seqs # {})
      BY SoundFacts
    <3> QED BY <1>3, <1>5, <1>9, <3>1
  <2> QED BY <1>14, <1>16, <2>1 DEF Exact
<1>18. Announced(kv2)
  <2>1. \A i \in Cells : kv.cells[i].delta # 0 => kv.has_shift BY DEF Announced, Sound
  <2> QED BY <1>3, <1>5, <1>9, <1>16, <2>1 DEF Announced
<1>19. Keyed(kv) => Keyed(kv2)
  <2> SUFFICES ASSUME Keyed(kv), NEW i \in Used(cells2)
               PROVE  rows2[i].rope + cells2[i].delta = cells2[i].pos
    BY <1>16 DEF Keyed
  <2>1. i \in Cells BY UsedIsFinite
  <2>2. CASE i \in filled BY <1>3, <1>5, <1>6, <2>1, <2>2 DEF Keyed
  <2>3. CASE i \notin filled
    <3>1. i \in Used(kv.cells) /\ i \notin From BY <1>13, <2>3
    <3> QED BY <1>5, <1>6, <2>1, <2>3, <3>1 DEF Keyed
  <2> QED BY <2>2, <2>3
<1>20. Capped(kv) => Capped(kv2)
  <2>1. -1 <= MaxPos BY KvAssumption
  <2> QED BY <1>3, <1>5, <1>9, <1>16, <2>1 DEF Capped
<1>21. Settled(kv) => Settled(kv2) BY <1>3, <1>5, <1>9, <1>16 DEF Settled
<1>22. Sound(kv2) BY <1>15, <1>16, <1>17, <1>18 DEF Sound
<1> QED BY <1>19, <1>20, <1>21, <1>22 DEF Keeps, KeepsCap, kv2

LEMMA UpdatesKeep ==
    ASSUME NEW kv, Sound(kv), NEW kv2 \in Updates(kv)
    PROVE  KeepsCap(kv, kv2) /\ Settled(kv2)
<1> DEFINE shifted == IF kv.has_shift THEN KShift(kv) ELSE kv
<1>1. KeepsCap(kv, shifted) /\ Settled(shifted)
  <2>1. CASE kv.has_shift BY <2>1, ShiftKeeps
  <2>2. CASE ~kv.has_shift
    <3>1. Settled(kv) BY <2>2 DEF Sound, Announced, Settled
    <3> QED BY <2>2, <3>1 DEF KeepsCap, Keeps
  <2> QED BY <2>1, <2>2
<1>2. kv2 = shifted \/ \E f \in Fillings(shifted) : kv2 = Defragged(shifted, f)
  BY DEF Updates
<1> HIDE DEF shifted
<1>3. CASE kv2 = shifted BY <1>1, <1>3
<1>4. ASSUME NEW f \in Fillings(shifted), kv2 = Defragged(shifted, f)
      PROVE  KeepsCap(kv, kv2) /\ Settled(kv2)
  <2>1. \A i \in f : i \in Holes(shifted) BY DEF Fillings
  <2>2. Sound(shifted) BY <1>1 DEF KeepsCap, Keeps
  <2>3. KeepsCap(shifted, kv2) /\ Settled(kv2) BY <1>1, <1>4, <2>1, <2>2, DefragKeeps
  <2> QED BY <1>1, <2>3 DEF KeepsCap, Keeps
<1> QED BY <1>2, <1>3, <1>4

-----------------------------------------------------------------------------
(* A batch in its slot                                                     *)

TokT == [pos : Nat, seqs : SUBSET Seqs, row : Row]
Toks == {toks \in Seq(TokT) : \A j \in 1..Len(toks) : toks[j].seqs # {}}

LEMMA SlotIs ==
    ASSUME NEW kv, Sound(kv), NEW h \in 0..NCells, NEW k \in Nat, k > 0,
           NEW slot, slot = FindSlot([kv EXCEPT !.head = h], k)
    PROVE  /\ slot.found \in BOOLEAN /\ slot.head \in 0..NCells
           /\ slot.found => FreeRun(kv.cells, slot.head, k)
<1> DEFINE at == [kv EXCEPT !.head = h]
<1>0. kv \in Structs /\ NCells \in Nat BY SoundFacts, CellsAreNumbers
<1>1. at.cells = kv.cells /\ at.head = h BY <1>0 DEF Structs
<1>2. slot = IF k > NCells THEN [found |-> FALSE, head |-> h] ELSE Scan(kv.cells, k)[<<h, 0>>]
  BY <1>1 DEF FindSlot
<1>3. CASE k > NCells
  <2>1. slot = [found |-> FALSE, head |-> h] BY <1>2, <1>3
  <2>2. slot.found = FALSE BY <2>1
  <2>3. slot.head = h BY <2>1
  <2> QED BY <2>2, <2>3
<1>4. CASE k <= NCells
  <2>1. CellsTyped(kv.cells) BY SoundFacts DEF CellsTyped
  <2>2. k \in 1..NCells /\ <<h, 0>> \in Probes BY <1>0, <1>4 DEF Probes
  <2>3. Scan(kv.cells, k)[<<h, 0>>] \in Slots(kv.cells, k) BY <2>1, <2>2, ScanFindsSlots
  <2>4. slot \in Slots(kv.cells, k) BY <1>0, <1>2, <1>4, <2>3
  <2> QED BY <2>4 DEF Slots
<1> QED BY <1>0, <1>3, <1>4

LEMMA HeadKeeps ==
    ASSUME NEW kv, Sound(kv), NEW h \in 0..NCells, NEW kv2, kv2 = [kv EXCEPT !.head = h]
    PROVE  /\ KeepsCap(kv, kv2) /\ kv2.cells = kv.cells /\ kv2.rows = kv.rows
           /\ kv2.head = h /\ kv2.has_shift = kv.has_shift
<1>0. kv \in Structs BY SoundFacts
<1>1. /\ kv2 \in Structs /\ kv2.cells = kv.cells /\ kv2.rows = kv.rows /\ kv2.n = kv.n
      /\ kv2.used = kv.used /\ kv2.has_shift = kv.has_shift /\ kv2.head = h
  BY <1>0 DEF Structs
<1>2. Exact(kv2) /\ Announced(kv2) BY <1>1 DEF Exact, Announced, Sound
<1>3. Sound(kv2) BY <1>1, <1>2 DEF Sound
<1> QED BY <1>1, <1>3 DEF Keeps, KeepsCap, Keyed, Capped

\* The cells of a slot.
InSlot(kv, toks) == {i \in Cells : i - kv.head \in 0..Len(toks) - 1}
TokenAt(kv, toks, i) == toks[i - kv.head + 1]

LEMMA SlotCells ==
    ASSUME NEW kv, Sound(kv), NEW toks \in Toks, FreeRun(kv.cells, kv.head, Len(toks))
    PROVE  /\ \A i \in InSlot(kv, toks) : /\ i \in Cells /\ i \notin Used(kv.cells)
                                          /\ TokenAt(kv, toks, i) \in TokT
                                          /\ TokenAt(kv, toks, i).seqs # {}
           /\ Cardinality(InSlot(kv, toks)) = Len(toks)
<1> DEFINE n == Len(toks)  h == kv.head
<1>1. n \in Nat /\ h \in 0..NCells /\ NCells \in Nat /\ h + n <= NCells
  BY SoundFacts, CellsAreNumbers DEF Structs, FreeRun, Toks
<1>2. InSlot(kv, toks) = h..h + n - 1
  <2>1. \A i \in Int : i \in Cells <=> 0 <= i /\ i < NCells BY CellsAreNumbers DEF Cells
  <2>2. \A i \in Cells : i \in Int BY CellsAreNumbers
  <2> HIDE DEF n, h
  <2>3. \A i \in h..h + n - 1 : i \in Cells /\ i - h \in 0..n - 1 BY <1>1, <2>1
  <2>4. \A i \in Cells : i - h \in 0..n - 1 => i \in h..h + n - 1 BY <1>1, <2>2
  <2> QED BY <2>3, <2>4 DEF InSlot, n, h
<1>3. Cardinality(h..h + n - 1) = n
  <2> HIDE DEF n, h
  <2>1. Cardinality(h..h + n - 1) = IF h > h + n - 1 THEN 0 ELSE h + n - 1 - h + 1
    BY <1>1, FS_Interval
  <2> QED BY <1>1, <2>1
<1>4. ASSUME NEW i \in InSlot(kv, toks)
      PROVE  /\ i \in Cells /\ i \notin Used(kv.cells)
             /\ TokenAt(kv, toks, i) \in TokT /\ TokenAt(kv, toks, i).seqs # {}
  <2>1. i \in Cells /\ i - h \in 0..n - 1 /\ i \in h..h + n - 1 BY <1>2 DEF InSlot
  <2>2. kv.cells[i].pos < 0 BY <2>1 DEF FreeRun
  <2>6. kv.cells[i].pos \in Int /\ (kv.cells[i].pos >= 0 <=> kv.cells[i].seqs # {})
    BY <2>1, SoundFacts
  <2>7. ~(kv.cells[i].pos >= 0) BY <2>2, <2>6
  <2>3. i \notin Used(kv.cells) BY <2>6, <2>7 DEF Used
  <2>4. i - h + 1 \in 1..n BY <1>1, <2>1
  <2>5. toks[i - h + 1] \in TokT /\ toks[i - h + 1].seqs # {} BY <2>4 DEF Toks
  <2> QED BY <2>1, <2>3, <2>5 DEF TokenAt
<1> QED BY <1>2, <1>3, <1>4

LEMMA PlacedKeeps ==
    ASSUME NEW kv, Sound(kv), NEW toks \in Toks, FreeRun(kv.cells, kv.head, Len(toks)),
           NEW put, put = Placed(kv, toks)
    PROVE  /\ Sound(put) /\ put.rows = kv.rows /\ put.has_shift = kv.has_shift
           /\ put.head = kv.head
           /\ Used(put.cells) = Used(kv.cells) \cup InSlot(kv, toks)
           /\ \A i \in Cells : i \notin InSlot(kv, toks) => put.cells[i] = kv.cells[i]
           /\ \A i \in InSlot(kv, toks) : /\ put.cells[i].pos = TokenAt(kv, toks, i).pos
                                          /\ put.cells[i].seqs = TokenAt(kv, toks, i).seqs
                                          /\ put.cells[i].delta = kv.cells[i].delta
<1> DEFINE here == InSlot(kv, toks)
           tok(i) == TokenAt(kv, toks, i)
           cells2 == [i \in Cells |-> IF i \in here
                         THEN [kv.cells[i] EXCEPT !.pos = tok(i).pos, !.seqs = @ \cup tok(i).seqs]
                         ELSE kv.cells[i]]
<1>0. /\ kv \in Structs /\ kv.used = Cardinality(Used(kv.cells)) /\ kv.used \in Nat
      /\ kv.cells \in [Cells -> CellT]
  BY SoundFacts
<1>1. put = [kv EXCEPT !.cells = cells2, !.used = kv.used + Len(toks)]
  <2>1. cells2 = [i \in Cells |-> IF i - kv.head \in 0..Len(toks) - 1
                     THEN [kv.cells[i] EXCEPT !.pos = toks[i - kv.head + 1].pos,
                                              !.seqs = @ \cup toks[i - kv.head + 1].seqs]
                     ELSE kv.cells[i]]
    BY DEF InSlot, TokenAt
  <2> HIDE DEF cells2
  <2> QED BY <2>1 DEF Placed
<1>2. \A i \in here : i \in Cells /\ i \notin Used(kv.cells) /\ tok(i) \in TokT /\ tok(i).seqs # {}
  BY SlotCells
<1>3. ASSUME NEW i \in here
      PROVE  /\ cells2[i] \in CellT /\ cells2[i].pos = tok(i).pos
             /\ cells2[i].seqs = tok(i).seqs /\ cells2[i].delta = kv.cells[i].delta
  <2> DEFINE c == kv.cells[i]  p == tok(i).pos  S == c.seqs \cup tok(i).seqs
  <2>1. c \in CellT /\ c.seqs = {} BY <1>0, <1>2 DEF Used
  <2>2. p \in Int /\ S \in SUBSET Seqs /\ S = tok(i).seqs BY <1>2, <2>1 DEF TokT
  <2>3. cells2[i] = [c EXCEPT !.pos = p, !.seqs = S] BY <1>2
  <2> HIDE DEF c, p, S, cells2
  <2>4. cells2[i] \in CellT /\ cells2[i].pos = p /\ cells2[i].seqs = S /\ cells2[i].delta = c.delta
    BY <2>1, <2>2, <2>3 DEF CellT
  <2> QED BY <2>2, <2>4 DEF c, p
<1>4. \A i \in Cells : i \notin here => cells2[i] = kv.cells[i] OBVIOUS
<1> HIDE DEF cells2, here, tok
<1>5. cells2 \in [Cells -> CellT] BY <1>0, <1>3, <1>4 DEF cells2
<1>6. Used(cells2) = Used(kv.cells) \cup here
  <2>1. \A i \in Cells : i \in Used(cells2) <=> i \in Used(kv.cells) \/ i \in here
    BY <1>2, <1>3, <1>4 DEF Used
  <2>2. \A i \in Used(cells2) : i \in Cells BY UsedIsFinite
  <2>3. \A i \in Used(kv.cells) : i \in Cells BY UsedIsFinite
  <2> QED BY <1>2, <2>1, <2>2, <2>3
<1>7. Cardinality(Used(cells2)) = kv.used + Len(toks)
  <2>1. \A i \in here : i \in Cells /\ i \notin Used(kv.cells) BY <1>2
  <2>2. Cardinality(Used(cells2)) = Cardinality(Used(kv.cells)) + Cardinality(here)
    BY <1>6, <2>1, MoreUsed
  <2>3. Cardinality(here) = Len(toks) BY SlotCells DEF here
  <2> QED BY <1>0, <2>2, <2>3
<1>8. kv.used + Len(toks) \in Int BY <1>7, UsedIsFinite
<1>9. put \in Structs BY <1>0, <1>1, <1>5, <1>8 DEF Structs
<1>10. /\ put.cells = cells2 /\ put.rows = kv.rows /\ put.n = kv.n /\ put.head = kv.head
       /\ put.has_shift = kv.has_shift /\ put.used = kv.used + Len(toks)
  BY <1>0, <1>1 DEF Structs
<1>11. Exact(put)
  <2>1. \A i \in Cells : cells2[i].pos >= -1 /\ (cells2[i].pos >= 0 <=> cells2[i].seqs # {})
    <3> SUFFICES ASSUME NEW i \in Cells
                 PROVE  cells2[i].pos >= -1 /\ (cells2[i].pos >= 0 <=> cells2[i].seqs # {})
      OBVIOUS
    <3>1. CASE i \in here
      <4>1. tok(i).pos \in Nat BY <1>2, <3>1 DEF TokT
      <4> QED BY <1>2, <1>3, <3>1, <4>1
    <3>2. CASE i \notin here BY <1>4, <3>2, SoundFacts
    <3> QED BY <3>1, <3>2
  <2>2. put.used = Cardinality(Used(put.cells)) BY <1>7, <1>10
  <2> QED BY <1>10, <2>1, <2>2 DEF Exact
<1>12. Announced(put)
  <2>1. \A i \in Cells : kv.cells[i].delta # 0 => kv.has_shift BY DEF Announced, Sound
  <2> QED BY <1>3, <1>4, <1>10, <2>1 DEF Announced
<1>13. Sound(put) BY <1>9, <1>10, <1>11, <1>12 DEF Sound
<1> QED BY <1>3, <1>4, <1>6, <1>10, <1>13 DEF here, tok

\* A batch with its rows: the K of each token is rotated to its position.
Rotated(toks) == \A j \in 1..Len(toks) : toks[j].row.rope = toks[j].pos
Bound(toks) == \A j \in 1..Len(toks) : toks[j].pos <= MaxPos

LEMMA WrittenKeeps ==
    ASSUME NEW kv, Sound(kv), NEW toks \in Toks, FreeRun(kv.cells, kv.head, Len(toks)),
           NEW done, done = Written(Placed(kv, toks), RowsOf(toks))
    PROVE  /\ Sound(done) /\ done.has_shift = kv.has_shift
           /\ done.cells = Placed(kv, toks).cells
           /\ Keyed(kv) /\ Settled(kv) /\ Rotated(toks) => Keyed(done)
           /\ Capped(kv) /\ Bound(toks) => Capped(done)
<1> DEFINE here == InSlot(kv, toks)
           put == Placed(kv, toks)
           tok(i) == TokenAt(kv, toks, i)
           rows2 == [i \in Cells |-> IF i \in here THEN tok(i).row ELSE kv.rows[i]]
<1>0. kv \in Structs /\ kv.rows \in [Cells -> Row] BY SoundFacts
<1>1. /\ Sound(put) /\ put.rows = kv.rows /\ put.has_shift = kv.has_shift
      /\ put.head = kv.head /\ Used(put.cells) = Used(kv.cells) \cup here
      /\ \A i \in Cells : i \notin here => put.cells[i] = kv.cells[i]
      /\ \A i \in here : /\ put.cells[i].pos = tok(i).pos
                         /\ put.cells[i].delta = kv.cells[i].delta
  BY PlacedKeeps
<1>2. \A i \in here : i \in Cells /\ tok(i) \in TokT /\ i - kv.head + 1 \in 1..Len(toks)
  <2>1. \A i \in here : i \in Cells /\ tok(i) \in TokT BY SlotCells
  <2>2. \A i \in here : i - kv.head + 1 \in 1..Len(toks)
    <3>1. kv.head \in Int /\ Len(toks) \in Int BY <1>0, CellsAreNumbers DEF Structs, Toks
    <3> QED BY <3>1, CellsAreNumbers DEF InSlot
  <2> QED BY <2>1, <2>2
<1>3. done = [put EXCEPT !.rows = rows2]
  <2>1. \A i \in here : RowsOf(toks)[i - kv.head + 1] = tok(i).row
    BY <1>2 DEF RowsOf, TokenAt, Toks
  <2>2. Len(RowsOf(toks)) = Len(toks) BY DEF RowsOf, Toks
  <2>3. [i \in Cells |-> IF i - kv.head \in 0..Len(toks) - 1
                         THEN RowsOf(toks)[i - kv.head + 1] ELSE kv.rows[i]] = rows2
    BY <2>1 DEF InSlot
  <2> HIDE DEF put, rows2
  <2>4. done = Written(put, RowsOf(toks)) BY DEF put
  <2> QED BY <1>1, <2>2, <2>3, <2>4 DEF Written
<1>4. \A i \in Cells : rows2[i] = IF i \in here THEN tok(i).row ELSE kv.rows[i] OBVIOUS
<1>5. rows2 \in [Cells -> Row] BY <1>0, <1>2 DEF TokT
<1>6. \A i \in here : tok(i).row.rope = toks[i - kv.head + 1].row.rope
                      /\ tok(i).pos = toks[i - kv.head + 1].pos
  BY DEF TokenAt
<1>7. \A i \in here : tok(i).pos \in Int BY <1>2 DEF TokT
<1> HIDE DEF rows2, here, put, tok
<1>8. put \in Structs BY <1>1, SoundFacts
<1>9. done \in Structs BY <1>3, <1>5, <1>8 DEF Structs
<1>10. /\ done.cells = put.cells /\ done.rows = rows2 /\ done.n = put.n
       /\ done.has_shift = put.has_shift /\ done.used = put.used
  BY <1>3, <1>8 DEF Structs
<1>11. Exact(done) /\ Announced(done) BY <1>1, <1>10 DEF Exact, Announced, Sound
<1>12. Sound(done) BY <1>1, <1>9, <1>10, <1>11 DEF Sound
<1>13. Keyed(kv) /\ Settled(kv) /\ Rotated(toks) => Keyed(done)
  <2> SUFFICES ASSUME Keyed(kv), Settled(kv), Rotated(toks), NEW i \in Used(put.cells)
               PROVE  rows2[i].rope + put.cells[i].delta = put.cells[i].pos
    BY <1>10 DEF Keyed
  <2>1. i \in Cells BY UsedIsFinite
  <2>2. CASE i \in here
    <3>1. tok(i).row.rope = tok(i).pos BY <1>2, <1>6, <2>2 DEF Rotated
    <3>2. put.cells[i].delta = 0 BY <1>1, <2>1, <2>2 DEF Settled
    <3> QED BY <1>1, <1>4, <1>7, <2>1, <2>2, <3>1, <3>2
  <2>3. CASE i \notin here
    <3>1. i \in Used(kv.cells) BY <1>1, <2>3
    <3> QED BY <1>1, <1>4, <2>1, <2>3, <3>1 DEF Keyed
  <2> QED BY <2>2, <2>3
<1>14. Capped(kv) /\ Bound(toks) => Capped(done)
  <2> SUFFICES ASSUME Capped(kv), Bound(toks), NEW i \in Cells
               PROVE  put.cells[i].pos <= MaxPos
    BY <1>10 DEF Capped
  <2>1. CASE i \in here BY <1>1, <1>2, <1>6, <2>1 DEF Bound
  <2>2. CASE i \notin here BY <1>1, <2>2 DEF Capped
  <2> QED BY <2>1, <2>2
<1> QED BY <1>1, <1>10, <1>12, <1>13, <1>14 DEF put

-----------------------------------------------------------------------------
(* Decoding                                                                *)

LEMMA MultipleOf ==
    ASSUME NEW d \in Nat, NEW p \in Nat, p > 0
    PROVE  d * p \in Nat /\ (d * p) % p = 0
<1> DEFINE a == d * p  q == a \div p  r == a % p
<1>1. a \in Nat OBVIOUS
<1>2. q \in Int /\ r \in 0..p - 1 /\ a = q * p + r
  <2> HIDE DEF a
  <2> QED BY <1>1
<1> HIDE DEF q, r
<1>3. (d - q) * p = r BY <1>2
<1>4. ~(d - q >= 1) BY <1>2, <1>3
<1>5. ~(d - q <= -1) BY <1>2, <1>3
<1>6. d = q BY <1>2, <1>4, <1>5
<1>7. r = 0 BY <1>2, <1>3, <1>6
<1> QED BY <1>1, <1>7 DEF r

LEMMA AttendedIs ==
    ASSUME NEW cells
    PROVE  Attended(cells) \in 0..NCells /\ Attended(cells) % Pad = 0
<1> DEFINE used == {i \in Cells : cells[i].pos >= 0 /\ cells[i].seqs # {}}
           strides == {i \in used : (i + 1) % Pad = 0}
           near == {i \in used : i < Max(strides) + Pad}
<1>1. CellMax(cells) \in 0..NCells
  <2>1. CASE strides = {} BY <2>1, CellsAreNumbers DEF CellMax
  <2>2. CASE strides # {}
    <3>1. \A i \in used : i \in Cells /\ i \in Nat /\ i \in 0..NCells BY CellsAreNumbers
    <3>2. Max(strides) \in strides
      <4>1. \A i \in strides : i \in 0..NCells BY <3>1
      <4> HIDE DEF strides
      <4> QED BY <2>2, <4>1, CellsAreNumbers, MaxIs
    <3>3. Max(strides) \in near
      <4> DEFINE m == Max(strides)
      <4>1. m \in used /\ m \in Nat BY <3>1, <3>2
      <4> HIDE DEF m
      <4>2. m < m + Pad BY <4>1, CellsAreNumbers
      <4> QED BY <4>1, <4>2 DEF m
    <3>4. Max(near) \in near
      <4>1. \A i \in near : i \in 0..NCells BY <3>1
      <4> HIDE DEF near
      <4> QED BY <3>3, <4>1, CellsAreNumbers, MaxIs
    <3>5. CellMax(cells) = 1 + Max(near) BY <2>2 DEF CellMax
    <3>6. Max(near) \in Nat /\ Max(near) < NCells
      BY <3>1, <3>4, CellsAreNumbers
    <3> QED BY <3>5, <3>6, CellsAreNumbers
  <2> QED BY <2>1, <2>2
<1> DEFINE d == (CellMax(cells) + Pad - 1) \div Pad  padded == Padded(CellMax(cells))
<1>2. d \in Nat BY <1>1, CellsAreNumbers
<1>3. padded = d * Pad BY DEF Padded
<1> HIDE DEF d
<1>4. padded \in Nat /\ padded % Pad = 0 BY <1>2, <1>3, CellsAreNumbers, MultipleOf
<1>5. Pad % Pad = 0 /\ NCells % Pad = 0 BY KvAssumption
<1> DEFINE m == Max({Pad, padded})
<1> HIDE DEF padded
<1>6. m \in {Pad, padded}
  <2>1. Pad \in 0..Pad + padded /\ padded \in 0..Pad + padded /\ Pad + padded \in Nat
    BY <1>4, CellsAreNumbers
  <2>2. \A k \in {Pad, padded} : k \in 0..Pad + padded BY <2>1
  <2> QED BY <2>1, <2>2, MaxIs
<1>7. m \in Nat /\ m % Pad = 0 BY <1>4, <1>5, <1>6, CellsAreNumbers
<1>8. Attended(cells) = Min({NCells, m}) BY DEF Attended, padded
<1> HIDE DEF m
<1>9. Min({NCells, m}) \in {NCells, m} /\ \A k \in {NCells, m} : Min({NCells, m}) <= k
  <2>1. \A k \in {NCells, m} : k \in Nat BY <1>7, CellsAreNumbers
  <2> QED BY <2>1, MinIs
<1> QED BY <1>5, <1>7, <1>8, <1>9, CellsAreNumbers

LEMMA NextPosIs ==
    ASSUME Sound(kv_self), Capped(kv_self), NEW s \in Seqs
    PROVE  NextPos(s) \in Nat
<1> DEFINE P == PositionsOf(s)
<1>1. CASE P = {} BY <1>1 DEF NextPos
<1>2. CASE P # {}
  <2>1. \A p \in P : p \in 0..MaxPos
    <3>1. \A i \in Cells : s \in kv_self.cells[i].seqs => kv_self.cells[i].pos \in 0..MaxPos
      <4>1. MaxPos \in Nat BY KvAssumption
      <4>2. \A i \in Cells : /\ kv_self.cells[i].pos \in Int /\ kv_self.cells[i].pos <= MaxPos
                             /\ kv_self.cells[i].pos >= 0 <=> kv_self.cells[i].seqs # {}
        BY SoundFacts DEF Capped
      <4> QED BY <4>1, <4>2
    <3> QED BY <3>1 DEF PositionsOf
  <2> HIDE DEF P
  <2>2. Max(P) \in 0..MaxPos BY <1>2, <2>1, KvAssumption, MaxIs
  <2> QED BY <1>2, <2>2 DEF NextPos, P
<1> QED BY <1>1, <1>2

LEMMA TokensAre ==
    ASSUME Sound(kv_self), Capped(kv_self), NEW b \in Batches
    PROVE  /\ TokensOf(b) \in Toks /\ Rotated(TokensOf(b)) /\ Bound(TokensOf(b))
           /\ Len(TokensOf(b)) = Len(b) /\ Len(b) \in 1..MaxBatch
<1>0. MaxBatch \in Nat /\ MaxPos \in Nat BY KvAssumption
<1>1. PICK n \in 1..MaxBatch : b \in [1..n -> Seqs] BY DEF Batches
<1>2. DOMAIN b = 1..n /\ Len(b) = n /\ \A j \in 1..n : b[j] \in Seqs BY <1>0, <1>1
<1> DEFINE before(j) == {m \in 1..j - 1 : b[m] = b[j]}
           toks == TokensOf(b)
           pos(j) == NextPos(b[j]) + Cardinality(before(j))
<1>3. ASSUME NEW j \in 1..n
      PROVE  pos(j) \in Nat /\ pos(j) <= MaxPos
  <2> DEFINE s == b[j]  all == {m \in DOMAIN b : b[m] = s}
  <2>1. s \in Seqs /\ j \in all BY <1>2
  <2>2. IsFiniteSet(1..n) BY <1>1, FS_Interval
  <2>3. IsFiniteSet(all) BY <1>2, <2>2, FS_Subset
  <2>4. \A m \in before(j) : m \in all /\ m # j BY <1>0, <1>1, <1>2
  <2>5. before(j) \subseteq all \ {j} BY <2>4
  <2>6. NextPos(s) + Cardinality(all) <= MaxPos + 1 BY <2>1 DEF Batches
  <2>7. NextPos(s) \in Nat BY <2>1, NextPosIs
  <2> HIDE DEF all, s, before
  <2>8. IsFiniteSet(all \ {j}) /\ Cardinality(all \ {j}) = Cardinality(all) - 1
    BY <2>1, <2>3, FS_RemoveElement
  <2>9. Cardinality(before(j)) <= Cardinality(all \ {j}) BY <2>5, <2>8, FS_Subset
  <2>10. Cardinality(before(j)) \in Nat /\ Cardinality(all) \in Nat
    BY <2>3, <2>5, <2>8, FS_Subset, FS_CardinalityType
  <2> QED BY <1>0, <2>6, <2>7, <2>8, <2>9, <2>10 DEF s
<1> HIDE DEF pos
<1>4. toks = [j \in 1..n |-> NewToken(b[j], pos(j))] BY <1>2 DEF TokensOf, pos
<1>5. ASSUME NEW j \in 1..n
      PROVE  /\ toks[j] \in TokT /\ toks[j].seqs # {} /\ toks[j].row.rope = toks[j].pos
             /\ toks[j].pos <= MaxPos
  <2>1. toks[j] = [pos |-> pos(j), seqs |-> {b[j]}, row |-> [tok |-> b[j], rope |-> pos(j)]]
    BY <1>4 DEF NewToken
  <2>2. b[j] \in Seqs /\ pos(j) \in Nat /\ pos(j) <= MaxPos BY <1>2, <1>3
  <2>3. {b[j]} \in SUBSET Seqs /\ [tok |-> b[j], rope |-> pos(j)] \in Row BY <2>2 DEF Row
  <2> QED BY <2>1, <2>2, <2>3 DEF TokT
<1> HIDE DEF toks
<1>6. n \in Nat /\ toks \in [1..n -> TokT] BY <1>1, <1>4, <1>5
<1>7. toks \in Seq(TokT) /\ Len(toks) = n BY <1>6
<1>8. toks \in Toks BY <1>5, <1>7 DEF Toks
<1> QED BY <1>1, <1>2, <1>5, <1>7, <1>8 DEF Rotated, Bound, toks

\* The fields that are set when the batch is in its slot.
LEMMA FieldsKeep ==
    ASSUME NEW kv, Sound(kv), NEW n \in 0..NCells, n % Pad = 0, NEW h \in 0..NCells,
           NEW d \in BOOLEAN,
           NEW kv2, kv2 = [kv EXCEPT !.n = n, !.head = h, !.do_defrag = d]
    PROVE  KeepsCap(kv, kv2)
<1>0. kv \in Structs BY SoundFacts
<1>1. /\ kv2 \in Structs /\ kv2.cells = kv.cells /\ kv2.rows = kv.rows /\ kv2.n = n
      /\ kv2.used = kv.used /\ kv2.has_shift = kv.has_shift
  BY <1>0 DEF Structs
<1>2. Exact(kv2) /\ Announced(kv2) BY <1>1 DEF Exact, Announced, Sound
<1>3. Sound(kv2) BY <1>1, <1>2 DEF Sound
<1> QED BY <1>1, <1>3 DEF Keeps, KeepsCap, Keyed, Capped

\* A state the model reaches: no position above MaxPos.
Good(kv) == Sound(kv) /\ Capped(kv)

LEMMA SearchFrom ==
    ASSUME NEW kv, Good(kv), Settled(kv), NEW k \in Nat, k > 0, NEW slot,
           slot = FindSlot([kv EXCEPT !.head = HeadForSearch(kv, k)], k),
           NEW at, at = [kv EXCEPT !.head = slot.head]
    PROVE  /\ Good(at) /\ Settled(at) /\ (Keyed(kv) => Keyed(at))
           /\ slot.head \in 0..NCells /\ at.head = slot.head
           /\ slot.found => FreeRun(at.cells, at.head, k)
<1>1. HeadForSearch(kv, k) \in 0..NCells
  <2>1. kv.head \in 0..NCells BY SoundFacts DEF Good, Structs
  <2> QED BY <2>1, CellsAreNumbers DEF HeadForSearch
<1>2. Sound(kv) BY DEF Good
<1> DEFINE h == HeadForSearch(kv, k)
<1>3. h \in 0..NCells /\ slot = FindSlot([kv EXCEPT !.head = h], k) BY <1>1
<1> HIDE DEF h
<1>4. slot.head \in 0..NCells /\ (slot.found => FreeRun(kv.cells, slot.head, k))
  BY <1>2, <1>3, SlotIs
<1>5. KeepsCap(kv, at) /\ at.cells = kv.cells /\ at.head = slot.head BY <1>2, <1>4, HeadKeeps
<1> QED BY <1>4, <1>5 DEF KeepsCap, Keeps, Good, Settled

LEMMA DecodeKeeps ==
    ASSUME Good(kv_self), NEW b \in Batches, Decode(b)
    PROVE  Good(kv_self') /\ (Keyed(kv_self) => Keyed(kv_self'))
<1> DEFINE toks == TokensOf(b)
           slot(kv) == FindSlot([kv EXCEPT !.head = HeadForSearch(kv, Len(b))], Len(b))
           at(kv) == [kv EXCEPT !.head = slot(kv).head]
           put(kv) == Placed(at(kv), toks)
           done(kv) == Written(put(kv), RowsOf(toks))
           next(kv) == IF slot(kv).head + Len(b) >= NCells THEN 0 ELSE slot(kv).head + Len(b)
           kv1(kv) == [done(kv) EXCEPT !.n = Attended(put(kv).cells), !.head = next(kv)]
<1>1. PICK kv \in Updates(kv_self) :
         /\ slot(kv).found
         /\ \E defrag \in {FALSE, TRUE} :
               kv_self' = Readable([kv1(kv) EXCEPT !.do_defrag = kv1(kv).do_defrag \/ defrag])
  BY DEF Decode
<1>2. toks \in Toks /\ Rotated(toks) /\ Bound(toks) /\ Len(toks) = Len(b) /\ Len(b) \in 1..MaxBatch
  BY TokensAre DEF Good
<1>3. Len(b) \in Nat /\ Len(b) > 0 BY <1>2
<1>4. Good(kv) /\ Settled(kv) /\ (Keyed(kv_self) => Keyed(kv))
  BY UpdatesKeep DEF Good, KeepsCap, Keeps
<1> DEFINE len == Len(b)
<1>14. PICK sl : sl = FindSlot([kv EXCEPT !.head = HeadForSearch(kv, len)], len) OBVIOUS
<1>15. PICK a : a = [kv EXCEPT !.head = sl.head] OBVIOUS
<1>16. slot(kv) = sl /\ at(kv) = a /\ sl.found BY <1>1, <1>14, <1>15
<1>5. /\ Good(a) /\ Settled(a) /\ (Keyed(kv) => Keyed(a)) /\ sl.head \in 0..NCells
      /\ FreeRun(a.cells, a.head, Len(toks))
  <2>1. len \in Nat /\ len > 0 /\ Len(toks) = len BY <1>2, <1>3
  <2> HIDE DEF slot, at, len, toks
  <2>2. Good(kv) /\ Settled(kv) /\ sl.found BY <1>4, <1>16
  <2>3. Good(a) /\ Settled(a) BY <1>14, <1>15, <2>1, <2>2, SearchFrom
  <2>4. Keyed(kv) => Keyed(a) BY <1>14, <1>15, <2>1, <2>2, SearchFrom
  <2>5. sl.head \in 0..NCells BY <1>14, <1>15, <2>1, <2>2, SearchFrom
  <2>7. sl.found => FreeRun(a.cells, a.head, len)
    <3>1. len \in Nat /\ len > 0 BY <2>1
    <3> QED BY <1>14, <1>15, <2>2, <3>1, SearchFrom
  <2>6. FreeRun(a.cells, a.head, len) BY <2>2, <2>7
  <2> QED BY <2>1, <2>3, <2>4, <2>5, <2>6
<1>17. PICK defrag \in {FALSE, TRUE} :
          kv_self' = Readable([kv1(kv) EXCEPT !.do_defrag = kv1(kv).do_defrag \/ defrag])
  BY <1>1
<1> DEFINE d == done(kv)  n == Attended(put(kv).cells)  h == next(kv)
<1>6. Good(d) /\ (Keyed(kv) => Keyed(d))
  <2>1. d = Written(Placed(a, toks), RowsOf(toks)) BY <1>16
  <2> HIDE DEF d, toks
  <2>2. Sound(a) /\ Capped(a) BY <1>5 DEF Good
  <2>3. /\ Sound(d) /\ (Keyed(a) /\ Settled(a) /\ Rotated(toks) => Keyed(d))
        /\ (Capped(a) /\ Bound(toks) => Capped(d))
    BY <1>2, <1>5, <2>1, <2>2, WrittenKeeps
  <2> QED BY <1>2, <1>5, <2>2, <2>3 DEF Good
<1>7. n \in 0..NCells /\ n % Pad = 0 BY AttendedIs
<1>8. h \in 0..NCells
  <2>1. h = IF sl.head + len >= NCells THEN 0 ELSE sl.head + len BY <1>16
  <2> HIDE DEF h
  <2> QED BY <1>3, <1>5, <2>1, CellsAreNumbers
<1> DEFINE f == d.do_defrag \/ defrag
<1>9. kv_self' = Readable([d EXCEPT !.n = n, !.head = h, !.do_defrag = f])
  <2>1. d \in Structs BY <1>6, SoundFacts DEF Good
  <2> HIDE DEF d, n, h
  <2>2. LET k == [d EXCEPT !.n = n, !.head = h]
        IN  k.do_defrag = d.do_defrag
    BY <2>1 DEF Structs
  <2>3. kv_self' = LET k == [d EXCEPT !.n = n, !.head = h]
                   IN  Readable([k EXCEPT !.do_defrag = k.do_defrag \/ defrag])
    BY <1>17 DEF d, n, h
  <2> QED BY <2>1, <2>2, <2>3 DEF Structs
<1>10. f \in BOOLEAN
  <2>1. d.do_defrag \in BOOLEAN BY <1>6, SoundFacts DEF Good, Structs
  <2> QED BY <2>1
<1> DEFINE e == [d EXCEPT !.n = n, !.head = h, !.do_defrag = f]
<1>11. KeepsCap(d, e)
  <2>1. e = [d EXCEPT !.n = n, !.head = h, !.do_defrag = f] OBVIOUS
  <2> HIDE DEF e, d, n, h, f
  <2> QED BY <1>6, <1>7, <1>8, <1>10, <2>1, FieldsKeep DEF Good
<1>12. kv_self' = Readable(e) BY <1>9
<1> HIDE DEF e, d, f, h, n, toks
<1>13. Sound(e) BY <1>11 DEF KeepsCap, Keeps
<1>18. KeepsCap(e, kv_self') BY <1>12, <1>13, ReadableKeeps
<1> QED BY <1>4, <1>5, <1>6, <1>11, <1>18 DEF KeepsCap, Keeps, Good

LEMMA DecodeFailsKeeps ==
    ASSUME Good(kv_self), NEW b \in Batches, DecodeFails(b)
    PROVE  Good(kv_self') /\ (Keyed(kv_self) => Keyed(kv_self'))
<1>1. PICK kv \in Updates(kv_self) :
         \E slot : /\ slot = FindSlot([kv EXCEPT !.head = HeadForSearch(kv, Len(b))], Len(b))
                   /\ kv_self' = Readable([kv EXCEPT !.head = slot.head])
  BY DEF DecodeFails
<1>2. PICK slot : /\ slot = FindSlot([kv EXCEPT !.head = HeadForSearch(kv, Len(b))], Len(b))
                  /\ kv_self' = Readable([kv EXCEPT !.head = slot.head])
  BY <1>1
<1>3. Len(b) \in Nat /\ Len(b) > 0
  <2>1. Len(b) \in 1..MaxBatch BY TokensAre DEF Good
  <2> QED BY <2>1
<1>4. Good(kv) /\ Settled(kv) /\ (Keyed(kv_self) => Keyed(kv))
  BY UpdatesKeep DEF Good, KeepsCap, Keeps
<1>5. PICK at : at = [kv EXCEPT !.head = slot.head] /\ kv_self' = Readable(at) BY <1>2
<1>6. Good(at) /\ (Keyed(kv) => Keyed(at)) BY <1>2, <1>3, <1>4, <1>5, SearchFrom
<1>7. Sound(at) BY <1>6 DEF Good
<1>8. KeepsCap(at, kv_self') BY <1>5, <1>7, ReadableKeeps
<1> QED BY <1>4, <1>6, <1>8 DEF KeepsCap, Keeps, Good

-----------------------------------------------------------------------------
(* State files                                                             *)

SavedT == [pos : 0..MaxPos, row : Row, seqs : SUBSET Seqs]
FileOK(file) ==
    /\ file.whole \in BOOLEAN /\ file.cells \in Seq(SavedT) /\ Len(file.cells) <= NCells
    /\ file.whole => \A j \in 1..Len(file.cells) : file.cells[j].seqs # {}

LEMMA CellsInAre ==
    ASSUME NEW I, \A i \in I : i \in Cells
    PROVE  /\ Cardinality(I) \in 0..NCells /\ DOMAIN CellsIn(I) = 1..Cardinality(I)
           /\ \A k \in 1..Cardinality(I) : CellsIn(I)[k] \in I
<1>1. I \subseteq Cells OBVIOUS
<1>2. Cardinality(I) \in Nat /\ Cardinality(I) <= NCells
  BY <1>1, CellsAreNumbers, FS_Subset, FS_CardinalityType
<1>3. ASSUME NEW k \in 1..Cardinality(I) PROVE CellsIn(I)[k] \in I
  <2> DEFINE r == Cardinality(I) - k
  <2>1. r \in Nat /\ r < Cardinality(I) BY <1>2
  <2> HIDE DEF r
  <2>2. Ranked(I, r) \in I BY <2>1, RankedIs
  <2> QED BY <2>2 DEF CellsIn, r
<1>4. DOMAIN CellsIn(I) = 1..Cardinality(I) BY DEF CellsIn
<1> QED BY <1>2, <1>3, <1>4, CellsAreNumbers

LEMMA SaveKeeps ==
    ASSUME Good(kv_self), NEW whole \in BOOLEAN, NEW s, Save(whole, s)
    PROVE  /\ FileOK(saved')
           /\ ~kv_self.has_shift /\ Keyed(kv_self) => Rotated(saved'.cells)
<1> DEFINE I == {i \in Used(kv_self.cells) : whole \/ s \in kv_self.cells[i].seqs}
           cells == CellsIn(I)
           n == Cardinality(I)
           Entry(i) == [pos |-> kv_self.cells[i].pos, row |-> kv_self.rows[i],
                        seqs |-> IF whole THEN kv_self.cells[i].seqs ELSE {}]
<1>1. \A i \in I : i \in Cells /\ i \in Used(kv_self.cells) BY UsedIsFinite
<1>2. n \in 0..NCells /\ DOMAIN cells = 1..n /\ \A k \in 1..n : cells[k] \in I
  <2> HIDE DEF I
  <2> QED BY <1>1, CellsInAre
<1>3. saved' = [whole |-> whole, cells |-> [k \in 1..n |-> Entry(cells[k])]]
  BY <1>2 DEF Save
<1>4. ASSUME NEW i \in I
      PROVE  /\ Entry(i) \in SavedT /\ (whole => Entry(i).seqs # {})
             /\ ~kv_self.has_shift /\ Keyed(kv_self) => Entry(i).row.rope = Entry(i).pos
  <2>0. Sound(kv_self) /\ Capped(kv_self) /\ MaxPos \in Nat BY KvAssumption DEF Good
  <2>1. i \in Cells /\ i \in Used(kv_self.cells) /\ kv_self.cells[i].seqs # {} BY <1>1 DEF Used
  <2>2. /\ kv_self.cells[i] \in CellT /\ kv_self.rows[i] \in Row
        /\ kv_self.cells[i].pos \in Int /\ kv_self.cells[i].pos >= 0
    BY <2>0, <2>1, SoundFacts
  <2>3. kv_self.cells[i].pos \in 0..MaxPos BY <2>0, <2>1, <2>2 DEF Capped
  <2>4. (IF whole THEN kv_self.cells[i].seqs ELSE {}) \in SUBSET Seqs BY <2>2 DEF CellT
  <2>5. Entry(i) \in SavedT BY <2>2, <2>3, <2>4 DEF SavedT
  <2>6. whole => Entry(i).seqs # {} BY <2>1
  <2>7. ASSUME ~kv_self.has_shift, Keyed(kv_self) PROVE kv_self.rows[i].rope = kv_self.cells[i].pos
    <3>1. kv_self.cells[i].delta = 0 BY <2>0, <2>1, <2>7 DEF Sound, Announced
    <3>2. kv_self.rows[i].rope + kv_self.cells[i].delta = kv_self.cells[i].pos
      BY <2>1, <2>7 DEF Keyed
    <3>3. kv_self.rows[i].rope \in Int BY <2>2 DEF Row
    <3> QED BY <2>2, <3>1, <3>2, <3>3
  <2> QED BY <2>5, <2>6, <2>7
<1> DEFINE f == [k \in 1..n |-> Entry(cells[k])]
<1>5. \A k \in 1..n : f[k] = Entry(cells[k]) OBVIOUS
<1> HIDE DEF Entry, I, n, cells, f
<1>6. n \in Nat /\ n <= NCells BY <1>2, CellsAreNumbers
<1>7. f \in [1..n -> SavedT]
  <2>1. f = [k \in 1..n |-> Entry(cells[k])] BY DEF f
  <2> QED BY <1>2, <1>4, <2>1
<1>8. f \in Seq(SavedT) /\ Len(f) = n BY <1>6, <1>7
<1>9. saved'.whole = whole /\ saved'.cells = f BY <1>3 DEF f
<1>10. FileOK(saved')
  <2>1. whole => \A j \in 1..n : f[j].seqs # {} BY <1>2, <1>4, <1>5
  <2> QED BY <1>6, <1>8, <1>9, <2>1 DEF FileOK
<1>11. ASSUME ~kv_self.has_shift, Keyed(kv_self) PROVE Rotated(saved'.cells)
  <2>1. \A j \in 1..n : f[j].row.rope = f[j].pos BY <1>2, <1>4, <1>5, <1>11
  <2> QED BY <1>8, <1>9, <2>1 DEF Rotated
<1> QED BY <1>10, <1>11

\* The saved cells as the tokens that are put back.
LEMMA FileTokens ==
    ASSUME NEW cells, cells \in Seq(SavedT), NEW toks,
           toks \in [1..Len(cells) -> TokT],
           \A j \in 1..Len(cells) : /\ toks[j].pos = cells[j].pos /\ toks[j].row = cells[j].row
                                    /\ toks[j].seqs # {}
    PROVE  /\ toks \in Toks /\ Len(toks) = Len(cells) /\ Bound(toks)
           /\ Rotated(cells) => Rotated(toks)
<1>1. Len(cells) \in Nat OBVIOUS
<1>2. toks \in Seq(TokT) /\ Len(toks) = Len(cells) BY <1>1
<1>3. toks \in Toks BY <1>2 DEF Toks
<1>4. \A j \in 1..Len(cells) : cells[j].pos <= MaxPos
  <2>1. \A j \in 1..Len(cells) : cells[j] \in SavedT OBVIOUS
  <2>2. \A c \in SavedT : c.pos <= MaxPos BY KvAssumption DEF SavedT
  <2> QED BY <2>1, <2>2
<1> QED BY <1>2, <1>3, <1>4 DEF Bound, Rotated

LEMMA RestoreAllKeeps ==
    ASSUME Good(kv_self), FileOK(saved), RestoreAll
    PROVE  /\ Good(kv_self')
           /\ ~kv_self.has_shift /\ Rotated(saved.cells) => Keyed(kv_self')
<1>0. Sound(kv_self) /\ MaxPos \in Nat BY KvAssumption DEF Good
<1>1. PICK kv : kv = Cleared(kv_self) OBVIOUS
<1>2. PICK toks : toks = saved.cells OBVIOUS
<1>3. /\ Sound(kv) /\ Keyed(kv) /\ Capped(kv) /\ Used(kv.cells) = {} /\ kv.head = 0
      /\ kv.has_shift = kv_self.has_shift
  BY <1>0, <1>1, ClearedIsEmpty
<1>4. toks \in Seq(SavedT) /\ Len(toks) \in 0..NCells /\ \A j \in 1..Len(toks) : toks[j].seqs # {}
  BY <1>2, CellsAreNumbers DEF FileOK, RestoreAll
<1>5. toks \in Toks /\ Bound(toks)
  <2>1. \A j \in 1..Len(toks) : toks[j] \in SavedT BY <1>4
  <2>2. \A j \in 1..Len(toks) : toks[j] \in TokT BY <1>0, <2>1 DEF TokT, SavedT
  <2>3. toks \in [1..Len(toks) -> TokT] BY <1>4, <2>2
  <2> QED BY <1>4, <2>3, FileTokens
<1>6. FreeRun(kv.cells, kv.head, Len(toks))
  <2>1. \A i \in Cells : kv.cells[i].pos < 0
    <3>1. \A i \in Cells : kv.cells[i].seqs = {} BY <1>3 DEF Used
    <3> QED BY <1>3, <3>1, SoundFacts
  <2>2. \A i \in 0..Len(toks) - 1 : i \in Cells BY <1>4, CellsAreNumbers
  <2> QED BY <1>3, <1>4, <2>1, <2>2, CellsAreNumbers DEF FreeRun
<1>7. PICK put : put = Placed(kv, toks) OBVIOUS
<1>8. Sound(put) BY <1>3, <1>5, <1>6, <1>7, PlacedKeeps
<1>9. PICK done : done \in {Written(put, RowsOf(toks)), Cleared(put)} /\ kv_self' = Readable(done)
  BY <1>1, <1>2, <1>7 DEF RestoreAll
<1>10. Good(done) /\ (~kv_self.has_shift /\ Rotated(toks) => Keyed(done))
  <2>1. CASE done = Cleared(put) BY <1>8, <2>1, ClearedIsEmpty DEF Good
  <2>2. CASE done = Written(put, RowsOf(toks))
    <3>1. /\ Sound(done) /\ (Keyed(kv) /\ Settled(kv) /\ Rotated(toks) => Keyed(done))
          /\ (Capped(kv) /\ Bound(toks) => Capped(done))
      BY <1>3, <1>5, <1>6, <1>7, <2>2, WrittenKeeps
    <3>2. ~kv_self.has_shift => Settled(kv) BY <1>3 DEF Sound, Announced, Settled
    <3> QED BY <1>3, <1>5, <3>1, <3>2 DEF Good
  <2> QED BY <1>9, <2>1, <2>2
<1>11. Sound(done) BY <1>10 DEF Good
<1>12. KeepsCap(done, kv_self') BY <1>9, <1>11, ReadableKeeps
<1> QED BY <1>2, <1>10, <1>12 DEF KeepsCap, Keeps, Good

LEMMA RestoreSeqKeeps ==
    ASSUME Good(kv_self), FileOK(saved), NEW s \in Seqs, RestoreSeq(s)
    PROVE  /\ Good(kv_self')
           /\ ~kv_self.has_shift /\ Keyed(kv_self) /\ Rotated(saved.cells) => Keyed(kv_self')
<1>0. Sound(kv_self) /\ MaxPos \in Nat BY KvAssumption DEF Good
<1>1. PICK kv : kv = SeqRm(kv_self, s, 0, MaxPos + 1) OBVIOUS
<1>2. PICK toks : toks = [k \in DOMAIN saved.cells |-> [saved.cells[k] EXCEPT !.seqs = {s}]] OBVIOUS
<1>3. /\ Good(kv) /\ kv.has_shift = kv_self.has_shift /\ (Keyed(kv_self) => Keyed(kv))
      /\ ~kv_self.has_shift => Settled(kv)
  <2>1. 0 \in Nat /\ MaxPos + 1 \in Nat BY <1>0
  <2>2. KeepsCap(kv_self, kv) /\ kv.has_shift = kv_self.has_shift BY <1>0, <1>1, <2>1, RmKeeps
  <2>3. Good(kv) /\ (Keyed(kv_self) => Keyed(kv)) BY <2>2 DEF Good, KeepsCap, Keeps
  <2> QED BY <2>2, <2>3 DEF Good, Sound, Announced, Settled
<1>4. saved.cells \in Seq(SavedT) /\ Len(saved.cells) \in Nat /\ Len(saved.cells) > 0
  BY DEF FileOK, RestoreSeq
<1>5. ASSUME NEW j \in 1..Len(saved.cells)
      PROVE  /\ toks[j] \in TokT /\ toks[j].seqs = {s}
             /\ toks[j].pos = saved.cells[j].pos /\ toks[j].row = saved.cells[j].row
             /\ toks[j].pos \in 0..MaxPos
  <2> DEFINE c == saved.cells[j]
  <2>1. c \in SavedT /\ toks[j] = [c EXCEPT !.seqs = {s}] BY <1>2, <1>4
  <2> HIDE DEF c
  <2>2. c.pos \in 0..MaxPos /\ c.row \in Row BY <2>1 DEF SavedT
  <2>3. toks[j] = [pos |-> c.pos, row |-> c.row, seqs |-> {s}] BY <2>1 DEF SavedT
  <2>4. c.pos \in Nat /\ {s} \in SUBSET Seqs BY <1>0, <2>2
  <2>5. toks[j] \in TokT BY <2>2, <2>3, <2>4 DEF TokT
  <2> QED BY <2>2, <2>3, <2>5 DEF c
<1>6. /\ toks \in Toks /\ Len(toks) \in Nat /\ Len(toks) > 0 /\ Bound(toks)
      /\ Len(toks) = Len(saved.cells) /\ (Rotated(saved.cells) => Rotated(toks))
  <2>4. DOMAIN saved.cells = 1..Len(saved.cells) BY <1>4
  <2>5. toks = [k \in 1..Len(saved.cells) |-> [saved.cells[k] EXCEPT !.seqs = {s}]]
    BY <1>2, <2>4
  <2>6. toks = [k \in 1..Len(saved.cells) |-> toks[k]] BY <2>5
  <2>1. toks \in [1..Len(saved.cells) -> TokT] BY <1>5, <2>6
  <2>2. \A j \in 1..Len(saved.cells) : /\ toks[j].pos = saved.cells[j].pos
                                       /\ toks[j].row = saved.cells[j].row /\ toks[j].seqs # {}
    BY <1>5
  <2>3. /\ toks \in Toks /\ Len(toks) = Len(saved.cells) /\ Bound(toks)
        /\ Rotated(saved.cells) => Rotated(toks)
    BY <1>4, <2>1, <2>2, FileTokens
  <2> QED BY <1>4, <2>3
<1>7. PICK slot : slot = FindSlot(kv, Len(toks)) OBVIOUS
<1>8. slot.head \in 0..NCells /\ (slot.found => FreeRun(kv.cells, slot.head, Len(toks)))
  <2>1. Sound(kv) /\ kv.head \in 0..NCells BY <1>3, SoundFacts DEF Good, Structs
  <2>2. [kv EXCEPT !.head = kv.head] = kv BY <2>1, SoundFacts DEF Structs
  <2>3. slot = FindSlot([kv EXCEPT !.head = kv.head], Len(toks)) BY <1>7, <2>2
  <2> DEFINE h == kv.head  n == Len(toks)
  <2>4. h \in 0..NCells /\ n \in Nat /\ n > 0 /\ slot = FindSlot([kv EXCEPT !.head = h], n)
    BY <1>6, <2>1, <2>3
  <2> HIDE DEF h, n
  <2>5. slot.head \in 0..NCells /\ (slot.found => FreeRun(kv.cells, slot.head, n))
    BY <2>1, <2>4, SlotIs
  <2> QED BY <2>5 DEF n
<1>9. PICK at : at = [kv EXCEPT !.head = slot.head] OBVIOUS
<1>10. /\ Good(at) /\ (Keyed(kv) => Keyed(at)) /\ (Settled(kv) => Settled(at))
       /\ at.cells = kv.cells /\ at.head = slot.head
  <2> DEFINE h == slot.head
  <2>1. h \in 0..NCells /\ at = [kv EXCEPT !.head = h] /\ Sound(kv) BY <1>3, <1>8, <1>9 DEF Good
  <2> HIDE DEF h
  <2>2. KeepsCap(kv, at) /\ at.cells = kv.cells /\ at.head = h BY <2>1, HeadKeeps
  <2> QED BY <1>3, <2>2 DEF h, KeepsCap, Keeps, Good, Settled
<1>11. PICK put : put = Placed(at, toks) OBVIOUS
<1>12. \/ slot.found /\ kv_self' = Readable(Written(put, RowsOf(toks)))
       \/ slot.found /\ kv_self' = Readable(SeqRm(put, s, 0, MaxPos + 1))
       \/ ~slot.found /\ kv_self' = Readable(at)
  BY <1>1, <1>2, <1>7, <1>9, <1>11 DEF RestoreSeq
<1> DEFINE Back(kv2) ==
             /\ Good(kv2)
             /\ ~kv_self.has_shift /\ Keyed(kv_self) /\ Rotated(saved.cells) => Keyed(kv2)
<1>13. ASSUME NEW kv2, Back(kv2), kv_self' = Readable(kv2)
       PROVE  Back(kv_self')
  <2>1. Sound(kv2) BY <1>13 DEF Good
  <2>2. KeepsCap(kv2, kv_self') BY <1>13, <2>1, ReadableKeeps
  <2> QED BY <1>13, <2>2 DEF KeepsCap, Keeps, Good
<1>14. Back(at) BY <1>3, <1>10
<1>15. ASSUME slot.found
       PROVE  Back(Written(put, RowsOf(toks))) /\ Back(SeqRm(put, s, 0, MaxPos + 1))
  <2>1. FreeRun(at.cells, at.head, Len(toks)) BY <1>8, <1>10, <1>15
  <2>2. Sound(at) /\ Capped(at) BY <1>10 DEF Good
  <2>3. Back(Written(put, RowsOf(toks)))
    <3>1. PICK done : done = Written(Placed(at, toks), RowsOf(toks)) OBVIOUS
    <3>2. /\ Sound(done) /\ (Keyed(at) /\ Settled(at) /\ Rotated(toks) => Keyed(done))
          /\ (Capped(at) /\ Bound(toks) => Capped(done))
      BY <1>6, <2>1, <2>2, <3>1, WrittenKeeps
    <3>3. Back(done) BY <1>3, <1>6, <1>10, <2>2, <3>2 DEF Good
    <3> QED BY <1>11, <3>1, <3>3
  <2>4. Back(SeqRm(put, s, 0, MaxPos + 1))
    <3>1. /\ Sound(put) /\ put.rows = at.rows
          /\ Used(put.cells) = Used(at.cells) \cup InSlot(at, toks)
          /\ \A i \in Cells : i \notin InSlot(at, toks) => put.cells[i] = at.cells[i]
          /\ \A i \in InSlot(at, toks) : /\ put.cells[i].pos = TokenAt(at, toks, i).pos
                                         /\ put.cells[i].seqs = TokenAt(at, toks, i).seqs
      BY <1>6, <1>11, <2>1, <2>2, PlacedKeeps
    <3>2. \A i \in InSlot(at, toks) :
             i \in Cells /\ TokenAt(at, toks, i).seqs = {s} /\ TokenAt(at, toks, i).pos \in 0..MaxPos
      <4>1. at.head \in Int /\ Len(toks) \in Int
        BY <1>6, <1>8, <1>10, CellsAreNumbers
      <4>2. \A i \in InSlot(at, toks) : i \in Cells /\ i - at.head + 1 \in 1..Len(saved.cells)
        BY <1>6, <4>1, CellsAreNumbers DEF InSlot
      <4> QED BY <1>5, <4>2 DEF TokenAt
    <3>3. PICK kv2 : kv2 = SeqRm(put, s, 0, MaxPos + 1) OBVIOUS
    <3>4. /\ KeepsCap(put, kv2) /\ kv2.rows = put.rows
          /\ \A i \in Used(kv2.cells) :
                /\ i \in Used(put.cells) /\ kv2.cells[i].pos = put.cells[i].pos
                /\ kv2.cells[i].delta = put.cells[i].delta
                /\ ~(put.cells[i].seqs = {s} /\ 0 <= put.cells[i].pos
                                             /\ put.cells[i].pos < MaxPos + 1)
      <4> DEFINE q == MaxPos + 1
      <4>1. 0 \in Nat /\ q \in Nat /\ kv2 = SeqRm(put, s, 0, q) BY <1>0, <3>3
      <4> HIDE DEF q
      <4>2. /\ KeepsCap(put, kv2) /\ kv2.rows = put.rows
            /\ \A i \in Used(kv2.cells) :
                  /\ i \in Used(put.cells) /\ kv2.cells[i].pos = put.cells[i].pos
                  /\ kv2.cells[i].delta = put.cells[i].delta
                  /\ ~(put.cells[i].seqs = {s} /\ 0 <= put.cells[i].pos /\ put.cells[i].pos < q)
        BY <3>1, <4>1, RmKeeps
      <4> QED BY <4>2 DEF q
    <3>5. \A i \in Used(kv2.cells) : i \in Cells /\ i \notin InSlot(at, toks)
      <4>1. \A i \in InSlot(at, toks) : put.cells[i].seqs = {s} /\ put.cells[i].pos \in 0..MaxPos
        BY <3>1, <3>2
      <4>2. \A i \in InSlot(at, toks) : 0 <= put.cells[i].pos /\ put.cells[i].pos < MaxPos + 1
        BY <1>0, <4>1
      <4> QED BY <3>4, <4>1, <4>2, UsedIsFinite
    <3>6. Keyed(at) => Keyed(kv2)
      <4>1. \A i \in Used(kv2.cells) : i \in Used(at.cells) /\ put.cells[i] = at.cells[i]
        BY <3>1, <3>4, <3>5
      <4> QED BY <3>1, <3>4, <4>1 DEF Keyed
    <3>7. Capped(put)
      <4>1. \A i \in InSlot(at, toks) : put.cells[i].pos <= MaxPos BY <1>0, <3>1, <3>2
      <4> QED BY <2>2, <3>1, <4>1 DEF Capped
    <3>8. Back(kv2) BY <1>3, <1>10, <3>4, <3>6, <3>7 DEF KeepsCap, Keeps, Good
    <3> QED BY <3>3, <3>8
  <2> QED BY <2>3, <2>4
<1> HIDE DEF Back
<1>16. Back(kv_self') BY <1>12, <1>13, <1>14, <1>15
<1> QED BY <1>16 DEF Back

-----------------------------------------------------------------------------
(* The invariant                                                           *)

\* The struct and the file are sound in every state; the keys match as long
\* as no state was saved or restored with a shift pending.
Inv ==
    /\ Good(kv_self) /\ FileOK(saved)
    /\ unsettled \/ (Keyed(kv_self) /\ Rotated(saved.cells))
    /\ unsettled \in BOOLEAN /\ ops \in 0..MaxOps

LEMMA Initially == Init => Inv
<1> SUFFICES ASSUME Init PROVE Inv OBVIOUS
<1>1. PICK cells : cells = [i \in Cells |-> EmptyCell] OBVIOUS
<1>2. PICK rows : rows = [i \in Cells |-> NoRow] OBVIOUS
<1>3. kv_self = [cells |-> cells, rows |-> rows, head |-> 0, used |-> 0, n |-> 0,
                 has_shift |-> FALSE, do_defrag |-> FALSE]
  BY <1>1, <1>2 DEF Init
<1>4. cells \in [Cells -> CellT] BY <1>1 DEF EmptyCell, CellT
<1>5. rows \in [Cells -> Row] BY <1>2 DEF NoRow, Row
<1>6. \A i \in Cells : cells[i].pos = -1 /\ cells[i].delta = 0 /\ cells[i].seqs = {}
  BY <1>1 DEF EmptyCell
<1>7. Used(cells) = {} /\ Cardinality(Used(cells)) = 0 BY <1>6, NoneUsed
<1>8. 0 \in 0..NCells /\ 0 % Pad = 0 /\ -1 <= MaxPos BY KvAssumption, CellsAreNumbers
<1>9. kv_self \in Structs BY <1>3, <1>4, <1>5, <1>8 DEF Structs
<1>10. /\ kv_self.cells = cells /\ kv_self.rows = rows /\ kv_self.used = 0 /\ kv_self.n = 0
  BY <1>3
<1>11. Exact(kv_self)
  <2>1. \A i \in Cells : cells[i].pos >= -1 /\ (cells[i].pos >= 0 <=> cells[i].seqs # {}) BY <1>6
  <2> QED BY <1>7, <1>10, <2>1 DEF Exact
<1>12. Announced(kv_self) BY <1>6, <1>10 DEF Announced
<1>13. Good(kv_self)
  <2>1. Sound(kv_self) BY <1>8, <1>9, <1>10, <1>11, <1>12 DEF Sound
  <2>2. Capped(kv_self) BY <1>6, <1>8, <1>10 DEF Capped
  <2> QED BY <2>1, <2>2 DEF Good
<1>14. Keyed(kv_self) BY <1>7, <1>10 DEF Keyed
<1>15. saved.whole = FALSE /\ saved.cells = <<>> BY DEF Init
<1>16. FileOK(saved)
  <2>1. <<>> \in Seq(SavedT) /\ Len(<<>>) = 0 OBVIOUS
  <2>2. Len(saved.cells) <= NCells /\ saved.cells \in Seq(SavedT)
    BY <1>15, <2>1, CellsAreNumbers
  <2> QED BY <1>15, <2>2 DEF FileOK
<1>17. Rotated(saved.cells) BY <1>15 DEF Rotated
<1>18. unsettled \in BOOLEAN /\ ops \in 0..MaxOps
  <2>1. unsettled = FALSE /\ ops = 0 BY DEF Init
  <2>2. 0 \in 0..MaxOps BY KvAssumption
  <2>3. unsettled \in BOOLEAN BY <2>1
  <2> QED BY <2>1, <2>2, <2>3
<1> QED BY <1>13, <1>14, <1>16, <1>17, <1>18 DEF Inv

\* An operation on sequences, by what its own lemma says of it.
LEMMA BecomesKeeps ==
    ASSUME Good(kv_self), NEW kv, Becomes(kv), Keeps(kv_self, kv)
    PROVE  Good(kv_self') /\ (Keyed(kv_self) => Keyed(kv_self'))
<1>1. Sound(kv) /\ (Keyed(kv_self) => Keyed(kv)) BY DEF Keeps
<1>2. Capped(kv) BY DEF Becomes, Bounded, Capped
<1>3. kv_self' = Readable(kv) BY DEF Becomes
<1>4. KeepsCap(kv, kv_self') BY <1>1, <1>3, ReadableKeeps
<1> QED BY <1>1, <1>2, <1>4 DEF KeepsCap, Keeps, Good

LEMMA SeqOpKeeps ==
    ASSUME Good(kv_self), SeqOp
    PROVE  Good(kv_self') /\ (Keyed(kv_self) => Keyed(kv_self'))
<1>0. Sound(kv_self) /\ kv_self \in Structs BY SoundFacts DEF Good
<1>1. PICK top : top = MaxPos + 1 OBVIOUS
<1>2. 0 \in Nat /\ top \in Nat BY <1>1, KvAssumption
<1>3. \A r \in Ranges : r[1] \in Nat /\ r[2] \in Nat BY KvAssumption DEF Ranges
<1>4. \/ Becomes(Cleared(kv_self))
      \/ Becomes([kv_self EXCEPT !.do_defrag = TRUE])
      \/ \E s \in Seqs : Becomes(SeqKeep(kv_self, s))
      \/ \E s, t \in Seqs : Becomes(SeqCp(kv_self, s, t, 0, top))
      \/ \E r \in Ranges, s \in Seqs \cup {AnySeq} : Becomes(SeqRm(kv_self, s, r[1], r[2]))
      \/ \E r \in Ranges, s \in Seqs, d \in Deltas : Becomes(SeqAdd(kv_self, s, r[1], r[2], d))
      \/ \E r \in Ranges, s \in Seqs : Becomes(SeqDiv(kv_self, s, r[1], r[2]))
  BY <1>1 DEF SeqOp
<1>5. CASE Becomes(Cleared(kv_self))
  <2>1. Keeps(kv_self, Cleared(kv_self)) BY <1>0, ClearedIsEmpty DEF Keeps
  <2> QED BY <1>5, <2>1, BecomesKeeps
<1>6. CASE Becomes([kv_self EXCEPT !.do_defrag = TRUE])
  <2>1. PICK kv : kv = [kv_self EXCEPT !.do_defrag = TRUE] OBVIOUS
  <2>2. /\ kv \in Structs /\ kv.cells = kv_self.cells /\ kv.rows = kv_self.rows
        /\ kv.n = kv_self.n /\ kv.used = kv_self.used /\ kv.has_shift = kv_self.has_shift
    BY <1>0, <2>1 DEF Structs
  <2>3. Exact(kv) /\ Announced(kv) BY <1>0, <2>2 DEF Exact, Announced, Sound
  <2>4. Keeps(kv_self, kv) BY <1>0, <2>2, <2>3 DEF Keeps, Sound, Keyed
  <2> QED BY <1>6, <2>1, <2>4, BecomesKeeps
<1>7. ASSUME NEW s \in Seqs, Becomes(SeqKeep(kv_self, s))
      PROVE  Good(kv_self') /\ (Keyed(kv_self) => Keyed(kv_self'))
  <2>1. Keeps(kv_self, SeqKeep(kv_self, s)) BY <1>0, KeepKeeps DEF KeepsCap
  <2> QED BY <1>7, <2>1, BecomesKeeps
<1>8. ASSUME NEW s \in Seqs, NEW t \in Seqs, Becomes(SeqCp(kv_self, s, t, 0, top))
      PROVE  Good(kv_self') /\ (Keyed(kv_self) => Keyed(kv_self'))
  <2>1. Keeps(kv_self, SeqCp(kv_self, s, t, 0, top)) BY <1>0, <1>2, CpKeeps DEF KeepsCap
  <2> QED BY <1>8, <2>1, BecomesKeeps
<1>9. ASSUME NEW p \in Nat, NEW q \in Nat, NEW s \in Seqs \cup {AnySeq},
             Becomes(SeqRm(kv_self, s, p, q))
      PROVE  Good(kv_self') /\ (Keyed(kv_self) => Keyed(kv_self'))
  <2>1. Keeps(kv_self, SeqRm(kv_self, s, p, q)) BY <1>0, RmKeeps DEF KeepsCap
  <2> QED BY <1>9, <2>1, BecomesKeeps
<1>10. ASSUME NEW p \in Nat, NEW q \in Nat, NEW s \in Seqs, NEW d \in Deltas,
              Becomes(SeqAdd(kv_self, s, p, q, d))
       PROVE  Good(kv_self') /\ (Keyed(kv_self) => Keyed(kv_self'))
  <2>1. d \in Int BY KvAssumption
  <2>2. Keeps(kv_self, SeqAdd(kv_self, s, p, q, d)) BY <1>0, <2>1, AddKeeps
  <2> QED BY <1>10, <2>2, BecomesKeeps
<1>11. ASSUME NEW p \in Nat, NEW q \in Nat, NEW s \in Seqs, Becomes(SeqDiv(kv_self, s, p, q))
       PROVE  Good(kv_self') /\ (Keyed(kv_self) => Keyed(kv_self'))
  <2>1. Keeps(kv_self, SeqDiv(kv_self, s, p, q)) BY <1>0, DivKeeps DEF KeepsCap
  <2> QED BY <1>11, <2>1, BecomesKeeps
<1> QED BY <1>3, <1>4, <1>5, <1>6, <1>7, <1>8, <1>9, <1>10, <1>11

LEMMA StateOpKeeps ==
    ASSUME Inv, StateOp
    PROVE  /\ Good(kv_self') /\ FileOK(saved')
           /\ unsettled' \/ (Keyed(kv_self') /\ Rotated(saved'.cells))
           /\ unsettled' \in BOOLEAN
<1>1. /\ Good(kv_self) /\ FileOK(saved) /\ unsettled \in BOOLEAN /\ kv_self.has_shift \in BOOLEAN
      /\ unsettled \/ (Keyed(kv_self) /\ Rotated(saved.cells))
  BY SoundFacts DEF Inv, Good, Structs
<1>2. unsettled' = (unsettled \/ kv_self.has_shift)
  BY DEF StateOp, Save, RestoreAll, RestoreSeq
<1>3. unsettled' \in BOOLEAN BY <1>1, <1>2
<1>4. ~unsettled' => /\ ~kv_self.has_shift /\ Keyed(kv_self) /\ Rotated(saved.cells)
  BY <1>1, <1>2
<1>5. ASSUME NEW whole \in BOOLEAN, NEW s, Save(whole, s)
      PROVE  /\ Good(kv_self') /\ FileOK(saved')
             /\ unsettled' \/ (Keyed(kv_self') /\ Rotated(saved'.cells))
  <2>1. kv_self' = kv_self BY <1>5 DEF Save
  <2>2. FileOK(saved') /\ (~kv_self.has_shift /\ Keyed(kv_self) => Rotated(saved'.cells))
    BY <1>1, <1>5, SaveKeeps
  <2>3. ~unsettled' => Keyed(kv_self') /\ Rotated(saved'.cells) BY <1>4, <2>1, <2>2
  <2>4. Good(kv_self') BY <1>1, <2>1
  <2> QED BY <2>2, <2>3, <2>4
<1>6. ASSUME RestoreAll
      PROVE  /\ Good(kv_self') /\ FileOK(saved')
             /\ unsettled' \/ (Keyed(kv_self') /\ Rotated(saved'.cells))
  <2>1. saved' = saved BY <1>6 DEF RestoreAll
  <2>2. Good(kv_self') /\ (~kv_self.has_shift /\ Rotated(saved.cells) => Keyed(kv_self'))
    BY <1>1, <1>6, RestoreAllKeeps
  <2> QED BY <1>1, <1>4, <2>1, <2>2
<1>7. ASSUME NEW s \in Seqs, RestoreSeq(s)
      PROVE  /\ Good(kv_self') /\ FileOK(saved')
             /\ unsettled' \/ (Keyed(kv_self') /\ Rotated(saved'.cells))
  <2>1. saved' = saved BY <1>7 DEF RestoreSeq
  <2>2. /\ Good(kv_self')
        /\ ~kv_self.has_shift /\ Keyed(kv_self) /\ Rotated(saved.cells) => Keyed(kv_self')
    BY <1>1, <1>7, RestoreSeqKeeps
  <2> QED BY <1>1, <1>4, <2>1, <2>2
<1>8. \/ \E whole \in BOOLEAN, s \in Seqs \cup {AnySeq} : Save(whole, s)
      \/ RestoreAll \/ \E s \in Seqs : RestoreSeq(s)
  BY DEF StateOp
<1> QED BY <1>3, <1>5, <1>6, <1>7, <1>8

LEMMA StepsKeep == Inv /\ [Next]_vars => Inv'
<1> SUFFICES ASSUME Inv, [Next]_vars PROVE Inv' OBVIOUS
<1>1. /\ Good(kv_self) /\ FileOK(saved) /\ unsettled \in BOOLEAN /\ ops \in 0..MaxOps
      /\ unsettled \/ (Keyed(kv_self) /\ Rotated(saved.cells))
  BY DEF Inv
<1> DEFINE Kept == Good(kv_self') /\ (Keyed(kv_self) => Keyed(kv_self'))
           Rest == UNCHANGED <<saved, unsettled>>
           Counts == ops' \in 0..MaxOps
<1>2. ASSUME Kept, Rest, Counts PROVE Inv'
  <2>1. saved' = saved /\ unsettled' = unsettled BY <1>2
  <2> QED BY <1>1, <1>2, <2>1 DEF Inv
<1>3. CASE UNCHANGED vars
  <2>1. kv_self' = kv_self /\ saved' = saved /\ unsettled' = unsettled /\ ops' = ops
    BY <1>3 DEF vars
  <2> QED BY <1>1, <1>2, <2>1
<1>4. ASSUME NEW b \in Batches, Decode(b) \/ DecodeFails(b), UNCHANGED <<saved, unsettled, ops>>
      PROVE  Inv'
  <2>1. Kept BY <1>1, <1>4, DecodeKeeps, DecodeFailsKeeps
  <2>2. Rest /\ ops' = ops BY <1>4
  <2> QED BY <1>1, <1>2, <2>1, <2>2
<1>5. ASSUME NEW kv \in Updates(kv_self), Becomes(kv), UNCHANGED <<saved, unsettled, ops>>
      PROVE  Inv'
  <2>1. Keeps(kv_self, kv) BY <1>1, UpdatesKeep DEF KeepsCap, Good
  <2>2. Kept BY <1>1, <1>5, <2>1, BecomesKeeps
  <2>3. Rest /\ ops' = ops BY <1>5
  <2> QED BY <1>1, <1>2, <2>2, <2>3
<1>6. ASSUME ops < MaxOps, ops' = ops + 1 PROVE Counts BY <1>1, <1>6, KvAssumption
<1>7. ASSUME ops < MaxOps, ops' = ops + 1, StateOp PROVE Inv'
  <2>1. /\ Good(kv_self') /\ FileOK(saved') /\ unsettled' \in BOOLEAN
        /\ unsettled' \/ (Keyed(kv_self') /\ Rotated(saved'.cells))
    BY <1>7, StateOpKeeps
  <2>2. Counts BY <1>6, <1>7
  <2> QED BY <2>1, <2>2 DEF Inv
<1>8. ASSUME ops < MaxOps, ops' = ops + 1, SeqOp, UNCHANGED <<saved, unsettled>> PROVE Inv'
  <2>1. Kept BY <1>1, <1>8, SeqOpKeeps
  <2>2. Rest /\ Counts BY <1>6, <1>8
  <2> QED BY <1>2, <2>1, <2>2
<1>9. \/ \E b \in Batches : (Decode(b) \/ DecodeFails(b)) /\ UNCHANGED <<saved, unsettled, ops>>
      \/ \E kv \in Updates(kv_self) : Becomes(kv) /\ UNCHANGED <<saved, unsettled, ops>>
      \/ ops < MaxOps /\ ops' = ops + 1 /\ StateOp
      \/ ops < MaxOps /\ ops' = ops + 1 /\ SeqOp /\ UNCHANGED <<saved, unsettled>>
      \/ UNCHANGED vars
  BY DEF Next
<1> QED BY <1>3, <1>4, <1>5, <1>7, <1>8, <1>9

LEMMA Always == Spec => []Inv
BY Initially, StepsKeep, PTL DEF Spec

-----------------------------------------------------------------------------
(* What follows                                                            *)

\* Every field keeps its type through decodes, sequence operations, shifts,
\* defragmentation and state files: positions never leave -1..MaxPos, head
\* stays in the cache, n stays a multiple of the padding.
THEOREM KvTypeCorrect == Spec => []KvTypeOK
<1>1. Inv => KvTypeOK
  <2> SUFFICES ASSUME Inv PROVE KvTypeOK OBVIOUS
  <2>1. Sound(kv_self) /\ Capped(kv_self) /\ MaxPos \in Nat BY KvAssumption DEF Inv, Good
  <2>2. kv_self \in Structs /\ kv_self.n % Pad = 0 BY <2>1 DEF Sound
  <2>3. ASSUME NEW i \in Cells
        PROVE  kv_self.cells[i] \in [pos : -1..MaxPos, delta : Int, seqs : SUBSET Seqs]
    <3>1. PICK c : c = kv_self.cells[i] OBVIOUS
    <3>2. c \in CellT /\ c.pos >= -1 /\ c.pos <= MaxPos BY <2>1, <3>1, SoundFacts DEF Capped
    <3>3. c.pos \in -1..MaxPos BY <2>1, <3>2 DEF CellT
    <3> QED BY <3>1, <3>2, <3>3 DEF CellT
  <2>4. \A i \in Cells : kv_self.rows[i] \in Row BY <2>1, SoundFacts
  <2> QED BY <2>2, <2>3, <2>4 DEF KvTypeOK, Structs, Inv
<1> QED BY <1>1, Always, PTL

\* used is the number of cells in use after every operation, also one that
\* fails half-way, and a cell has a sequence exactly when it has a position.
THEOREM UsedIsExact == Spec => []UsedExact
<1>1. Inv => UsedExact
  <2> SUFFICES ASSUME Inv PROVE UsedExact OBVIOUS
  <2>1. Sound(kv_self) BY DEF Inv, Good
  <2> QED BY <2>1, SoundFacts DEF UsedExact, Used
<1> QED BY <1>1, Always, PTL

\* The K of every cell in use is rotated to its position up to the shift that
\* is pending for it and announced, through shifts, divisions, moves, copies
\* and state files.
THEOREM KeysFollowPositions == Spec => []KeysMatchPositions
<1>1. Inv => KeysMatchPositions
  <2> SUFFICES ASSUME Inv, ~unsettled, NEW i \in Used(kv_self.cells)
               PROVE  /\ kv_self.rows[i].rope + kv_self.cells[i].delta = kv_self.cells[i].pos
                      /\ kv_self.cells[i].delta # 0 => kv_self.has_shift
    BY DEF KeysMatchPositions
  <2>1. i \in Cells BY UsedIsFinite
  <2>2. Keyed(kv_self) /\ Announced(kv_self) BY DEF Inv, Good, Sound
  <2> QED BY <2>1, <2>2 DEF Keyed, Announced
<1> QED BY <1>1, Always, PTL

\* The search that wraps round once finds a slot exactly when there is one,
\* in every state and from any head.
THEOREM SearchIsComplete == Spec => []SearchComplete
<1>1. Inv => SearchComplete
  <2> SUFFICES ASSUME Inv, NEW k \in 1..MaxBatch
               PROVE  FindSlot(kv_self, k).found <=> \E h \in Cells : FreeRun(kv_self.cells, h, k)
    BY DEF SearchComplete
  <2>0. k \in Nat /\ k > 0 /\ NCells \in Nat BY KvAssumption
  <2>1. Sound(kv_self) BY DEF Inv, Good
  <2>2. CASE k > NCells
    <3>1. FindSlot(kv_self, k).found = FALSE BY <2>2 DEF FindSlot
    <3>2. ~\E h \in Cells : FreeRun(kv_self.cells, h, k)
      BY <2>0, <2>2, CellsAreNumbers DEF FreeRun
    <3> QED BY <3>1, <3>2
  <2>3. CASE k <= NCells
    <3>1. PICK cells : cells = kv_self.cells OBVIOUS
    <3>2. PICK s : s = kv_self.head OBVIOUS
    <3>3. CellsTyped(cells) /\ s \in 0..NCells /\ k \in 1..NCells /\ <<s, 0>> \in Probes
      BY <2>0, <2>1, <2>3, <3>1, <3>2, SoundFacts DEF CellsTyped, Structs, Probes
    <3>4. PICK r : r = Scan(cells, k)[<<s, 0>>] OBVIOUS
    <3>5. FindSlot(kv_self, k) = r BY <2>0, <2>3, <3>1, <3>2, <3>4 DEF FindSlot
    <3>6. r \in Slots(cells, k) BY <3>3, <3>4, ScanFindsSlots
    <3>7. ASSUME r.found PROVE \E h \in Cells : FreeRun(cells, h, k)
      <4>1. FreeRun(cells, r.head, k) /\ r.head \in 0..NCells BY <3>6, <3>7 DEF Slots
      <4>2. r.head \in Cells BY <2>0, <4>1, CellsAreNumbers DEF FreeRun
      <4> QED BY <4>1, <4>2
    <3>8. ASSUME NEW h \in Cells, FreeRun(cells, h, k) PROVE r.found
      BY <3>3, <3>4, <3>8, ScanIsComplete
    <3> QED BY <3>1, <3>5, <3>7, <3>8
  <2> QED BY <2>0, <2>2, <2>3
<1> QED BY <1>1, Always, PTL
=============================================================================
