----------------------------- MODULE ServerProofs -----------------------------
(***************************************************************************)
(* The server's loop and its clients, for any number of clients, tasks and *)
(* slots and any sizes of contexts and batches: a task is in one place,    *)
(* the loop never sleeps on work, a batch is well formed, no task of a     *)
(* waiting reader is forgotten, and Server implements TaskService.         *)
(***************************************************************************)
EXTENDS Server, FiniteSetTheorems, FunctionTheorems, SequenceTheorems,
        WellFoundedInduction, NaturalsInduction, TLAPS

-----------------------------------------------------------------------------
(* Finite sets of numbers                                                  *)

\* Of some naturals one is least, and Min finds it.
LEMMA LeastNumber ==
    ASSUME NEW N, \A k \in N : k \in Nat, N # {}
    PROVE  \E n \in N : \A k \in N : n <= k
<1> DEFINE Less == {p \in Nat \X Nat : p[1] < p[2]}
<1>1. IsWellFoundedOn(Less, Nat)
  BY NatLessThanWellFounded DEF IsWellFoundedOn, OpToRel
<1>2. N \subseteq Nat OBVIOUS
<1>3. \E n \in N : \A k \in N : <<k, n>> \notin Less
  <2> HIDE DEF Less
  <2> QED BY <1>1, <1>2, WFMin
<1>4. PICK n \in N : \A k \in N : <<k, n>> \notin Less BY <1>3
<1>5. \A k \in N : k \in Nat /\ n \in Nat OBVIOUS
<1>6. \A k \in N : ~(k < n)
  <2> SUFFICES ASSUME NEW k \in N PROVE ~(k < n) OBVIOUS
  <2>1. k \in Nat /\ n \in Nat BY <1>5
  <2>2. k < n => <<k, n>> \in Less BY <2>1
  <2> HIDE DEF Less
  <2> QED BY <1>4, <2>2
<1> QED BY <1>5, <1>6

\* Min finds the least of some naturals.
LEMMA MinIs ==
    ASSUME NEW N, \A k \in N : k \in Nat, N # {}
    PROVE  Min(N) \in N /\ \A k \in N : Min(N) <= k
BY LeastNumber DEF Min

\* The numbers of S up to i; Nth counts the numbers of S from below.
UpTo(S, i) == {j \in S : j <= i}
Counts(S, n) == \A i \in S : i \in 1..n

\* Counting the numbers of S from below gives a greater number a greater count.
LEMMA UpToIs ==
    ASSUME NEW n \in Nat, NEW S, Counts(S, n), NEW i \in S
    PROVE  /\ IsFiniteSet(S) /\ Cardinality(S) \in Nat
           /\ Cardinality(UpTo(S, i)) \in 1..Cardinality(S)
           /\ \A j \in S : i < j => Cardinality(UpTo(S, i)) < Cardinality(UpTo(S, j))
<1>0. \A k \in S : k \in Nat /\ k <= n BY DEF Counts
<1>1. IsFiniteSet(S)
  <2>1. S \in SUBSET Nat BY <1>0
  <2> QED BY <1>0, <2>1, FS_BoundedSetOfNaturals
<1>2. Cardinality(S) \in Nat BY <1>1, FS_CardinalityType
<1>3. \A k \in S : /\ IsFiniteSet(UpTo(S, k)) /\ Cardinality(UpTo(S, k)) \in Nat
                   /\ Cardinality(UpTo(S, k)) <= Cardinality(S)
  BY <1>1, FS_Subset, FS_CardinalityType DEF UpTo
<1>4. Cardinality(UpTo(S, i)) # 0
  <2>1. i \in UpTo(S, i) BY <1>0 DEF UpTo
  <2> QED BY <1>3, <2>1, FS_EmptySet
<1>5. ASSUME NEW j \in S, i < j
      PROVE  Cardinality(UpTo(S, i)) < Cardinality(UpTo(S, j))
  <2>1. j \in UpTo(S, j) BY <1>0 DEF UpTo
  <2>2. \A k \in UpTo(S, i) : k \in UpTo(S, j) \ {j} BY <1>0, <1>5 DEF UpTo
  <2>3. UpTo(S, i) \in SUBSET (UpTo(S, j) \ {j}) BY <2>2
  <2>4. /\ IsFiniteSet(UpTo(S, j) \ {j})
        /\ Cardinality(UpTo(S, j) \ {j}) = Cardinality(UpTo(S, j)) - 1
    BY <1>3, <2>1, FS_RemoveElement
  <2>5. Cardinality(UpTo(S, i)) <= Cardinality(UpTo(S, j)) - 1 BY <2>3, <2>4, FS_Subset
  <2> QED BY <1>3, <2>5
<1> QED BY <1>1, <1>2, <1>3, <1>4, <1>5

\* Nth lists the numbers of S, each one once.
LEMMA NthIs ==
    ASSUME NEW n \in Nat, NEW S, Counts(S, n)
    PROVE  /\ Cardinality(S) \in Nat
           /\ \A k \in 1..Cardinality(S) : Nth(S, k) \in S
           /\ \A k, m \in 1..Cardinality(S) : Nth(S, k) = Nth(S, m) => k = m
           /\ \A i \in S : \E k \in 1..Cardinality(S) : Nth(S, k) = i
<1>1. IsFiniteSet(S) /\ Cardinality(S) \in Nat
  <2>1. S \in SUBSET Nat /\ \A k \in S : k <= n BY DEF Counts
  <2> QED BY <2>1, FS_BoundedSetOfNaturals, FS_CardinalityType
<1>2. PICK f : f = [i \in S |-> Cardinality(UpTo(S, i))] OBVIOUS
<1>3. \A i \in S : f[i] = Cardinality(UpTo(S, i)) BY <1>2
<1>4. f \in [S -> 1..Cardinality(S)] BY <1>2, UpToIs
<1>5. \A i, j \in S : f[i] = f[j] => i = j
  <2> SUFFICES ASSUME NEW i \in S, NEW j \in S, f[i] = f[j] PROVE i = j OBVIOUS
  <2>1. i \in Nat /\ j \in Nat BY DEF Counts
  <2>2. f[i] \in Nat /\ f[j] \in Nat BY <1>1, <1>3, UpToIs
  <2>3. ~(i < j) BY <1>3, <2>2, UpToIs
  <2>4. ~(j < i) BY <1>3, <2>2, UpToIs
  <2> QED BY <2>1, <2>3, <2>4
<1>6. f \in Injection(S, 1..Cardinality(S)) BY <1>4, <1>5 DEF Injection, IsInjective
<1>7. IsFiniteSet(1..Cardinality(S)) /\ Cardinality(1..Cardinality(S)) = Cardinality(S)
  BY <1>1, FS_Interval
<1>8. f \in Surjection(S, 1..Cardinality(S)) BY <1>6, <1>7, FS_Injection
<1>9. \A k \in 1..Cardinality(S) : \E i \in S : f[i] = k BY <1>8 DEF Surjection
<1>10. \A k \in 1..Cardinality(S) : Nth(S, k) \in S /\ f[Nth(S, k)] = k
  <2> SUFFICES ASSUME NEW k \in 1..Cardinality(S) PROVE Nth(S, k) \in S /\ f[Nth(S, k)] = k
    OBVIOUS
  <2>1. \E i \in S : Cardinality(UpTo(S, i)) = k BY <1>3, <1>9
  <2>2. Nth(S, k) \in S /\ Cardinality(UpTo(S, Nth(S, k))) = k BY <2>1 DEF Nth, UpTo
  <2> QED BY <1>3, <2>2
<1>11. \A i \in S : f[i] \in 1..Cardinality(S) /\ Nth(S, f[i]) = i
  <2> SUFFICES ASSUME NEW i \in S PROVE f[i] \in 1..Cardinality(S) /\ Nth(S, f[i]) = i OBVIOUS
  <2>1. f[i] \in 1..Cardinality(S) BY <1>4
  <2>2. Nth(S, f[i]) \in S /\ f[Nth(S, f[i])] = f[i] BY <1>10, <2>1
  <2> QED BY <1>5, <2>1, <2>2
<1>12. \A k, m \in 1..Cardinality(S) : Nth(S, k) = Nth(S, m) => k = m BY <1>10
<1> QED BY <1>1, <1>10, <1>11, <1>12

-----------------------------------------------------------------------------
(* Sequences of tasks, of results and of slots                             *)

\* An id occurs in q, and in one place only.
InSeq(q, id) == \E x \in Range(q) : x.id = id
Once(q, id) == \A i, j \in DOMAIN q : q[i].id = id /\ q[j].id = id => i = j

\* The elements of a sequence and its places.
LEMMA RangeIs ==
    ASSUME NEW T, NEW q \in Seq(T)
    PROVE  /\ Len(q) \in Nat /\ DOMAIN q = 1..Len(q)
           /\ \A x \in Range(q) : x \in T /\ \E i \in DOMAIN q : q[i] = x
           /\ \A i \in DOMAIN q : q[i] \in Range(q)
BY DEF Range

\* The empty queue holds nothing.
LEMMA EmptyIs ==
    /\ Range(<<>>) = {}
    /\ \A id : ~InSeq(<<>>, id) /\ Once(<<>>, id)
    /\ \A T : <<>> \in Seq(T)
BY DEF Range, InSeq, Once

\* Two queues one after the other hold what each held.
LEMMA CatIs ==
    ASSUME NEW T, NEW a \in Seq(T), NEW b \in Seq(T)
    PROVE  /\ a \o b \in Seq(T)
           /\ Range(a \o b) = Range(a) \cup Range(b)
           /\ \A id : InSeq(a \o b, id) <=> InSeq(a, id) \/ InSeq(b, id)
           /\ \A id : Once(a, id) /\ Once(b, id) /\ ~(InSeq(a, id) /\ InSeq(b, id))
                          => Once(a \o b, id)
<1>1. a \o b \in Seq(T) OBVIOUS
<1>2. Range(a \o b) = Range(a) \cup Range(b) BY RangeConcatenation
<1>3. \A id : InSeq(a \o b, id) <=> InSeq(a, id) \/ InSeq(b, id) BY <1>2 DEF InSeq
<1>4. ASSUME NEW id, Once(a, id), Once(b, id), ~(InSeq(a, id) /\ InSeq(b, id))
      PROVE  Once(a \o b, id)
  <2>0. PICK q \in Seq(T) : q = a \o b BY <1>1
  <2>1. /\ Len(a) \in Nat /\ Len(b) \in Nat /\ DOMAIN a = 1..Len(a) /\ DOMAIN b = 1..Len(b)
        /\ DOMAIN q = 1..Len(a) + Len(b)
    BY <2>0
  <2>2. \A i \in 1..Len(a) + Len(b) : q[i] = IF i <= Len(a) THEN a[i] ELSE b[i - Len(a)]
    BY <2>0, ConcatProperties
  <2> SUFFICES ASSUME NEW i \in DOMAIN q, NEW j \in DOMAIN q, q[i].id = id, q[j].id = id
               PROVE  i = j
    BY <2>0 DEF Once
  <2>3. \A k \in DOMAIN q :
            q[k].id = id => \/ k \in DOMAIN a /\ a[k].id = id
                            \/ k - Len(a) \in DOMAIN b /\ b[k - Len(a)].id = id
    BY <2>1, <2>2
  <2>4. \A k \in DOMAIN a : a[k].id = id => InSeq(a, id) BY DEF InSeq, Range
  <2>5. \A k \in DOMAIN b : b[k].id = id => InSeq(b, id) BY DEF InSeq, Range
  <2>6. CASE i \in DOMAIN a /\ a[i].id = id
    <3>1. j \in DOMAIN a /\ a[j].id = id BY <1>4, <2>3, <2>4, <2>5, <2>6
    <3> QED BY <1>4, <2>6, <3>1 DEF Once
  <2>7. CASE i - Len(a) \in DOMAIN b /\ b[i - Len(a)].id = id
    <3>1. j - Len(a) \in DOMAIN b /\ b[j - Len(a)].id = id BY <1>4, <2>3, <2>4, <2>5, <2>7
    <3>2. i - Len(a) = j - Len(a) BY <1>4, <2>7, <3>1 DEF Once
    <3> QED BY <2>1, <3>2
  <2> QED BY <2>3, <2>6, <2>7
<1> QED BY <1>1, <1>2, <1>3, <1>4

\* A queue of one task or result.
LEMMA OneIs ==
    ASSUME NEW x
    PROVE  /\ Range(<<x>>) = {x} /\ \A T : x \in T => <<x>> \in Seq(T)
           /\ \A id : InSeq(<<x>>, id) <=> x.id = id
           /\ \A id : Once(<<x>>, id)
BY DEF Range, InSeq, Once

\* push_back adds one task.
LEMMA AppendIs ==
    ASSUME NEW T, NEW q \in Seq(T), NEW x \in T
    PROVE  /\ Append(q, x) \in Seq(T)
           /\ Range(Append(q, x)) = Range(q) \cup {x}
           /\ \A id : InSeq(Append(q, x), id) <=> InSeq(q, id) \/ x.id = id
           /\ \A id : Once(q, id) /\ ~(InSeq(q, id) /\ x.id = id) => Once(Append(q, x), id)
<1>1. PICK y : y = <<x>> OBVIOUS
<1>2. Append(q, x) = q \o y BY <1>1, AppendIsConcat
<1>3. y \in Seq(T) /\ Range(y) = {x} BY <1>1, OneIs
<1>4. \A id : (InSeq(y, id) <=> x.id = id) /\ Once(y, id) BY <1>1, OneIs
<1>5. q \o y \in Seq(T) BY <1>3
<1>6. Range(q \o y) = Range(q) \cup Range(y) BY <1>3, CatIs
<1>7. \A id : InSeq(q \o y, id) <=> InSeq(q, id) \/ InSeq(y, id) BY <1>3, CatIs
<1>8. \A id : Once(q, id) /\ Once(y, id) /\ ~(InSeq(q, id) /\ InSeq(y, id)) => Once(q \o y, id)
  BY <1>3, CatIs
<1> QED BY <1>2, <1>3, <1>4, <1>5, <1>6, <1>7, <1>8

\* pop_front takes the first task away and leaves the others.
LEMMA TailIs ==
    ASSUME NEW T, NEW q \in Seq(T), q # <<>>
    PROVE  /\ Head(q) \in T /\ Tail(q) \in Seq(T)
           /\ Head(q) \in Range(q)
           /\ \A x \in Range(Tail(q)) : x \in Range(q)
           /\ \A x \in Range(q) : x = Head(q) \/ x \in Range(Tail(q))
           /\ \A id : Once(q, id) => Once(Tail(q), id) /\ ~(Head(q).id = id /\ InSeq(Tail(q), id))
<1>1. /\ Head(q) \in T /\ Tail(q) \in Seq(T) /\ Head(q) = q[1] /\ 1 \in DOMAIN q
      /\ DOMAIN q = 1..Len(q) /\ Len(q) \in Nat /\ DOMAIN Tail(q) = 1..Len(q) - 1
      /\ \A i \in 1..Len(q) - 1 : Tail(q)[i] = q[i + 1]
  OBVIOUS
<1>2. PICK r : r = Tail(q) OBVIOUS
<1>3. /\ r \in Seq(T) /\ DOMAIN r = 1..Len(q) - 1
      /\ \A i \in DOMAIN r : i + 1 \in DOMAIN q /\ r[i] = q[i + 1]
      /\ \A i \in DOMAIN q : i # 1 => i - 1 \in DOMAIN r /\ r[i - 1] = q[i]
  BY <1>1, <1>2
<1>4. \A x \in Range(r) : x \in Range(q) BY <1>3 DEF Range
<1>5. \A x \in Range(q) : x = Head(q) \/ x \in Range(r)
  <2> SUFFICES ASSUME NEW i \in DOMAIN q PROVE q[i] = Head(q) \/ q[i] \in Range(r)
    BY DEF Range
  <2> QED BY <1>1, <1>3 DEF Range
<1>6. ASSUME NEW id, Once(q, id)
      PROVE  Once(r, id) /\ ~(Head(q).id = id /\ InSeq(r, id))
  <2>1. Once(r, id)
    <3> SUFFICES ASSUME NEW i \in DOMAIN r, NEW j \in DOMAIN r, r[i].id = id, r[j].id = id
                 PROVE  i = j
      BY DEF Once
    <3>1. i + 1 = j + 1 BY <1>3, <1>6 DEF Once
    <3> QED BY <1>1, <1>3, <3>1
  <2>2. ASSUME Head(q).id = id, InSeq(r, id) PROVE FALSE
    <3>1. PICK i \in DOMAIN r : r[i].id = id BY <2>2 DEF InSeq, Range
    <3>2. i + 1 \in DOMAIN q /\ q[i + 1].id = id BY <1>3, <3>1
    <3>3. i + 1 = 1 BY <1>1, <1>6, <2>2, <3>2 DEF Once
    <3> QED BY <1>1, <1>3, <3>3
  <2> QED BY <2>1, <2>2
<1>7. Head(q) \in Range(q) BY <1>1 DEF Range
<1> QED BY <1>1, <1>2, <1>4, <1>5, <1>6, <1>7

\* The elements of q at the places in S.
LEMMA PickIs ==
    ASSUME NEW T, NEW q \in Seq(T), NEW S, \A i \in S : i \in DOMAIN q
    PROVE  /\ Pick(q, S) \in Seq(T)
           /\ \A x \in Range(Pick(q, S)) : \E i \in S : x = q[i]
           /\ \A i \in S : q[i] \in Range(Pick(q, S))
           /\ \A id : Once(q, id) => Once(Pick(q, S), id)
<1>1. Len(q) \in Nat /\ DOMAIN q = 1..Len(q) OBVIOUS
<1>2. Counts(S, Len(q)) BY <1>1 DEF Counts
<1>3. PICK n : n = Cardinality(S) OBVIOUS
<1>4. n \in Nat /\ \A k \in 1..n : Nth(S, k) \in S BY <1>1, <1>2, <1>3, NthIs
<1>5. \A k, m \in 1..n : Nth(S, k) = Nth(S, m) => k = m BY <1>1, <1>2, <1>3, NthIs
<1>6. \A i \in S : \E k \in 1..n : Nth(S, k) = i BY <1>1, <1>2, <1>3, NthIs
<1>7. PICK p : p = Pick(q, S) OBVIOUS
<1>8. p = [k \in 1..n |-> q[Nth(S, k)]] BY <1>3, <1>7 DEF Pick
<1>9. \A k \in 1..n : q[Nth(S, k)] \in T BY <1>1, <1>4
<1>10. p \in Seq(T) BY <1>4, <1>8, <1>9
<1>11. DOMAIN p = 1..n /\ \A k \in 1..n : p[k] = q[Nth(S, k)] BY <1>8
<1>12. \A x \in Range(p) : \E i \in S : x = q[i] BY <1>4, <1>11 DEF Range
<1>13. \A i \in S : q[i] \in Range(p) BY <1>6, <1>11 DEF Range
<1>14. ASSUME NEW id, Once(q, id) PROVE Once(p, id)
  <2> SUFFICES ASSUME NEW k \in 1..n, NEW m \in 1..n, p[k].id = id, p[m].id = id PROVE k = m
    BY <1>11 DEF Once
  <2>1. Nth(S, k) \in DOMAIN q /\ Nth(S, m) \in DOMAIN q BY <1>4
  <2>2. q[Nth(S, k)].id = id /\ q[Nth(S, m)].id = id BY <1>11
  <2>3. Nth(S, k) = Nth(S, m) BY <1>14, <2>1, <2>2 DEF Once
  <2> QED BY <1>5, <2>3
<1> QED BY <1>7, <1>10, <1>12, <1>13, <1>14

\* A finite set listed in some order.
LEMMA SetToSeqIs ==
    ASSUME NEW S, IsFiniteSet(S)
    PROVE  /\ SetToSeq(S) \in Seq(S)
           /\ Range(SetToSeq(S)) = S
           /\ \A id : (\A x, y \in S : x.id = id /\ y.id = id => x = y) => Once(SetToSeq(S), id)
<1>1. PICK n : n = Cardinality(S) OBVIOUS
<1>2. n \in Nat /\ ExistsBijection(1..n, S) BY <1>1, FS_CardinalityType
<1>3. PICK g : g \in Bijection(1..n, S) BY <1>2 DEF ExistsBijection
<1>4. g \in [1..n -> S] /\ IsInjective(g) BY <1>3 DEF Bijection, Injection
<1>5. PICK f : f = SetToSeq(S) OBVIOUS
<1>6. f = CHOOSE h \in [1..n -> S] : IsInjective(h) BY <1>1, <1>5 DEF SetToSeq
<1>7. f \in [1..n -> S] /\ IsInjective(f) BY <1>4, <1>6
<1>8. f \in Injection(1..n, S) BY <1>7 DEF Injection
<1>9. IsFiniteSet(1..n) /\ Cardinality(1..n) = n BY <1>2, FS_Interval
<1>10. f \in Surjection(1..n, S) BY <1>1, <1>8, <1>9, FS_Injection
<1>11. f \in Seq(S) BY <1>2, <1>7
<1>12. DOMAIN f = 1..n BY <1>7
<1>13. \A x \in S : \E k \in 1..n : f[k] = x BY <1>10 DEF Surjection
<1>14. Range(f) = S BY <1>7, <1>12, <1>13 DEF Range
<1>15. ASSUME NEW id, \A x, y \in S : x.id = id /\ y.id = id => x = y PROVE Once(f, id)
  <2> SUFFICES ASSUME NEW i \in 1..n, NEW j \in 1..n, f[i].id = id, f[j].id = id PROVE i = j
    BY <1>12 DEF Once
  <2>1. f[i] \in S /\ f[j] \in S BY <1>7
  <2>2. f[i] = f[j] BY <1>15, <2>1
  <2> QED BY <1>7, <1>12, <2>2 DEF IsInjective
<1> QED BY <1>5, <1>11, <1>14, <1>15

\* cleanup_pending_task erases the tasks of ids and keeps the others.
LEMMA WithoutIs ==
    ASSUME NEW T, NEW q \in Seq(T), NEW ids
    PROVE  /\ Without(q, ids) \in Seq(T)
           /\ \A x \in Range(Without(q, ids)) : x \in Range(q)
           /\ \A x \in Range(q) : x.id \notin ids => x \in Range(Without(q, ids))
           /\ \A id : InSeq(Without(q, ids), id) <=> InSeq(q, id) /\ id \notin ids
           /\ \A id : Once(q, id) => Once(Without(q, ids), id)
<1>1. PICK S : S = {i \in DOMAIN q : q[i].id \notin ids} OBVIOUS
<1>2. \A i \in S : i \in DOMAIN q BY <1>1
<1>3. PICK p : p = Pick(q, S) OBVIOUS
<1>4. Without(q, ids) = p BY <1>1, <1>3 DEF Without
<1>5. p \in Seq(T) BY <1>2, <1>3, PickIs
<1>6. \A x \in Range(p) : \E i \in S : x = q[i] BY <1>2, <1>3, PickIs
<1>7. \A i \in S : q[i] \in Range(p) BY <1>2, <1>3, PickIs
<1>8. \A id : Once(q, id) => Once(p, id) BY <1>2, <1>3, PickIs
<1>9. \A x \in Range(p) : x \in Range(q) /\ x.id \notin ids BY <1>1, <1>6 DEF Range
<1>10. \A x \in Range(q) : x.id \notin ids => x \in Range(p) BY <1>1, <1>7 DEF Range
<1>11. \A id : InSeq(p, id) <=> InSeq(q, id) /\ id \notin ids BY <1>9, <1>10 DEF InSeq
<1> QED BY <1>4, <1>5, <1>8, <1>9, <1>10, <1>11

\* The results somebody waits for.
LEMMA AwaitedIs ==
    ASSUME NEW results \in Seq(Result)
    PROVE  /\ Awaited(results) \in Seq(Result)
           /\ \A x \in Range(results) :
                  x.id \in waiting_task_ids => x \in Range(Awaited(results))
<1>1. PICK S : S = {i \in DOMAIN results : results[i].id \in waiting_task_ids} OBVIOUS
<1>2. \A i \in S : i \in DOMAIN results BY <1>1
<1>3. PICK p : p = Pick(results, S) OBVIOUS
<1>4. Awaited(results) = p BY <1>1, <1>3 DEF Awaited
<1>5. p \in Seq(Result) BY <1>2, <1>3, PickIs
<1>6. \A i \in S : results[i] \in Range(p) BY <1>2, <1>3, PickIs
<1>7. \A x \in Range(results) : x.id \in waiting_task_ids => x \in Range(p)
  BY <1>1, <1>6 DEF Range
<1> QED BY <1>4, <1>5, <1>7

\* recv takes out the first result for one of ids, and leaves the others.
LEMMA TakenOutIs ==
    ASSUME NEW results \in Seq(Result), NEW ids, HasResult(results, ids)
    PROVE  /\ FirstFor(results, ids) \in DOMAIN results
           /\ results[FirstFor(results, ids)] \in Result
           /\ results[FirstFor(results, ids)].id \in ids
           /\ TakenOut(results, ids) \in Seq(Result)
           /\ \A x \in Range(results) : \/ x = results[FirstFor(results, ids)]
                                        \/ x \in Range(TakenOut(results, ids))
<1>1. Len(results) \in Nat /\ DOMAIN results = 1..Len(results) OBVIOUS
<1>2. PICK N : N = {i \in DOMAIN results : results[i].id \in ids} OBVIOUS
<1>3. N # {} /\ \A k \in N : k \in Nat BY <1>1, <1>2 DEF HasResult
<1>4. PICK m : m = FirstFor(results, ids) OBVIOUS
<1>5. m \in N BY <1>2, <1>3, <1>4, MinIs DEF FirstFor
<1>6. m \in DOMAIN results /\ results[m].id \in ids BY <1>2, <1>5
<1>7. results[m] \in Result BY <1>6
<1>8. PICK S : S = DOMAIN results \ {m} OBVIOUS
<1>9. \A i \in S : i \in DOMAIN results BY <1>8
<1>10. PICK p : p = Pick(results, S) OBVIOUS
<1>11. TakenOut(results, ids) = p BY <1>4, <1>8, <1>10 DEF TakenOut
<1>12. p \in Seq(Result) BY <1>9, <1>10, PickIs
<1>13. \A i \in S : results[i] \in Range(p) BY <1>9, <1>10, PickIs
<1>14. \A x \in Range(results) : x = results[m] \/ x \in Range(p) BY <1>8, <1>13 DEF Range
<1> QED BY <1>4, <1>6, <1>7, <1>11, <1>12, <1>14

\* What Record counts: nothing, or the one answer among the results.
Answers(results, id) == {i \in DOMAIN results : results[i] = Answer(id)}
OneAnswer(results, id) == \E i \in DOMAIN results : Answers(results, id) = {i}

\* finals counts the answers among the results the loop sends.
LEMMA RecordIs ==
    ASSUME finals \in [Ids -> Nat], NEW results \in Seq(Result), Record(results)
    PROVE  /\ finals' \in [Ids -> Nat]
           /\ \A id \in Ids : (\A i \in DOMAIN results : results[i] # Answer(id))
                                  => finals'[id] = finals[id]
           /\ \A id \in Ids : OneAnswer(results, id) => finals'[id] = finals[id] + 1
<1>1. Len(results) \in Nat /\ DOMAIN results = 1..Len(results) OBVIOUS
<1>2. finals' = [id \in Ids |-> finals[id] + Cardinality(Answers(results, id))]
  BY DEF Record, Answers
<1>3. IsFiniteSet(1..Len(results)) BY <1>1, FS_Interval
<1>4. \A id \in Ids : Cardinality(Answers(results, id)) \in Nat
  <2> SUFFICES ASSUME NEW id \in Ids PROVE Cardinality(Answers(results, id)) \in Nat OBVIOUS
  <2>1. Answers(results, id) \in SUBSET (1..Len(results)) BY <1>1 DEF Answers
  <2> QED BY <1>3, <2>1, FS_Subset, FS_CardinalityType
<1>5. finals' \in [Ids -> Nat] BY <1>2, <1>4
<1>6. ASSUME NEW id \in Ids, \A i \in DOMAIN results : results[i] # Answer(id)
      PROVE  finals'[id] = finals[id]
  <2>1. Answers(results, id) = {} BY <1>6 DEF Answers
  <2>2. Cardinality(Answers(results, id)) = 0 BY <2>1, FS_EmptySet
  <2> QED BY <1>2, <2>2
<1>7. ASSUME NEW id \in Ids, OneAnswer(results, id)
      PROVE  finals'[id] = finals[id] + 1
  <2>1. PICK i \in DOMAIN results : Answers(results, id) = {i} BY <1>7 DEF OneAnswer
  <2>2. Cardinality(Answers(results, id)) = 1 BY <2>1, FS_Singleton
  <2> QED BY <1>2, <2>2
<1> QED BY <1>5, <1>6, <1>7

\* Nothing sent, nothing counted.
LEMMA RecordNone ==
    ASSUME finals \in [Ids -> Nat], Record(<<>>)
    PROVE  finals' = finals
<1>1. PICK r \in Seq(Result) : r = <<>> BY EmptyIs
<1>2. DOMAIN r = {} BY <1>1
<1>3. Record(r) BY <1>1
<1>4. finals' \in [Ids -> Nat] /\ \A id \in Ids : finals'[id] = finals[id]
  BY <1>2, <1>3, RecordIs
<1> QED BY <1>4

\* One result sent: an answer counts, a failure does not.
LEMMA RecordOne ==
    ASSUME finals \in [Ids -> Nat], NEW r \in Result, Record(<<r>>)
    PROVE  /\ finals' \in [Ids -> Nat]
           /\ \A id \in Ids : r # Answer(id) => finals'[id] = finals[id]
           /\ \A id \in Ids : r = Answer(id) => finals'[id] = finals[id] + 1
<1>1. PICK q : q = <<r>> OBVIOUS
<1>2. q \in Seq(Result) /\ DOMAIN q = {1} /\ q[1] = r BY <1>1
<1>3. Record(q) BY <1>1
<1>4. finals' \in [Ids -> Nat] BY <1>2, <1>3, RecordIs
<1>5. \A id \in Ids : r # Answer(id) => finals'[id] = finals[id] BY <1>2, <1>3, RecordIs
<1>6. \A id \in Ids : r = Answer(id) => OneAnswer(q, id) BY <1>2 DEF OneAnswer, Answers
<1>7. \A id \in Ids : OneAnswer(q, id) => finals'[id] = finals[id] + 1 BY <1>2, <1>3, RecordIs
<1> QED BY <1>4, <1>5, <1>6, <1>7

-----------------------------------------------------------------------------
(* Slots                                                                   *)

\* A slot that works has the task of a request; one that still loads an
\* embedding has read nothing of it, and it is not empty.
SlotOK(a) ==
    /\ a \in Slot
    /\ a.state = "PROCESSING" => a.command = "NONE"
    /\ IsProcessing(a) => a.id_task \in Ids
    /\ Loading(a) => a.n_past <= a.n_prompt
    /\ Loading(a) /\ Embeds(a) => a.n_past = 0 /\ (a.tokenized => a.n_prompt > 0)

\* What every step does to a slot but a launch and release_slots: it may
\* end the task's work, and the slot remembers the id.
SlotStep(a, b) ==
    /\ SlotOK(b) /\ b.id_task = a.id_task
    /\ Available(b) => Available(a)
    /\ IsProcessing(b) => IsProcessing(a)

\* The sizes of contexts and batches are numbers, slots are counted from 1.
LEMMA ConstantsAre ==
    /\ NSlots \in Nat /\ NSlots > 0 /\ NCtx \in Nat /\ NCtx > 0 /\ NPredict \in Nat
    /\ NBatch \in Nat /\ NBatch > 0 /\ NUbatch \in Nat
    /\ NoId \notin Ids
    /\ Slots = 1..NSlots /\ \A s \in Slots : s \in Nat /\ s # 0
    /\ \A id \in Ids : Request[id].embedding \in BOOLEAN
BY SlotsAssumption, ServerAssumption DEF Slots

\* A slot that is left alone keeps what a step may change.
LEMMA SlotStepRefl == ASSUME NEW a, SlotOK(a) PROVE SlotStep(a, a)
BY DEF SlotStep

\* release() of a slot that generates: it waits for release_slots.
LEMMA FreedIs ==
    ASSUME NEW a, SlotOK(a)
    PROVE  /\ SlotStep(a, Freed(a)) /\ ~IsProcessing(Freed(a)) /\ ~Available(Freed(a))
           /\ Freed(a).state = "IDLE" /\ Freed(a).command = "RELEASE"
<1>1. PICK u : u = UnusedSlot OBVIOUS
<1>2. u \in Slot /\ u.state = "IDLE" BY <1>1 DEF UnusedSlot, Slot
<1>3. PICK b : b = [u EXCEPT !.id_task = a.id_task, !.command = "RELEASE"] OBVIOUS
<1>4. b = Freed(a) BY <1>1, <1>3 DEF Freed
<1>5. a.id_task \in Ids \cup {NoId} BY DEF SlotOK, Slot
<1>6. b \in Slot BY <1>2, <1>3, <1>5 DEF Slot
<1>7. b.state = "IDLE" /\ b.command = "RELEASE" /\ b.id_task = a.id_task BY <1>2, <1>3 DEF Slot
<1>8. ~Loading(b) /\ ~IsProcessing(b) /\ ~Available(b)
  BY <1>7 DEF IsProcessing, Loading, Available
<1>9. SlotStep(a, b) BY <1>6, <1>7, <1>8 DEF SlotStep, SlotOK
<1> QED BY <1>4, <1>7, <1>8, <1>9

\* release() of any slot.
LEMMA ReleaseIs ==
    ASSUME NEW a, SlotOK(a)
    PROVE  /\ SlotStep(a, Release(a)) /\ Release(a).state # "PROCESSING"
           /\ Loading(Release(a)) <=> Loading(a)
           /\ a.state = "PROCESSING" => ~IsProcessing(Release(a)) /\ Release(a) = Freed(a)
           /\ a.state # "PROCESSING" => Release(a) = a
<1>1. CASE a.state = "PROCESSING"
  <2>1. Release(a) = Freed(a) BY <1>1 DEF Release
  <2> QED BY <1>1, <2>1, FreedIs DEF Loading, IsProcessing
<1>2. CASE a.state # "PROCESSING"
  BY <1>2, SlotStepRefl DEF Release
<1> QED BY <1>1, <1>2

\* A slot with n_past changed, for the steps that count tokens.
LEMMA PastIs ==
    ASSUME NEW a, SlotOK(a), NEW n \in Nat,
           Loading(a) => n <= a.n_past
    PROVE  /\ SlotStep(a, [a EXCEPT !.n_past = n])
           /\ [a EXCEPT !.n_past = n].state = a.state
           /\ [a EXCEPT !.n_past = n].command = a.command
<1>1. PICK b : b = [a EXCEPT !.n_past = n] OBVIOUS
<1>2. a \in Slot BY DEF SlotOK
<1>3. b \in Slot /\ b.n_past = n BY <1>1, <1>2 DEF Slot
<1>4. /\ b.state = a.state /\ b.command = a.command /\ b.id_task = a.id_task
      /\ b.tokenized = a.tokenized /\ b.n_prompt = a.n_prompt
  BY <1>1, <1>2 DEF Slot
<1>5. a.n_past \in Nat /\ a.n_prompt \in Nat BY <1>2 DEF Slot
<1>6. Loading(b) <=> Loading(a) BY <1>4 DEF Loading
<1>7. IsProcessing(b) <=> IsProcessing(a) BY <1>4, <1>6 DEF IsProcessing
<1>8. Embeds(b) = Embeds(a) BY <1>4 DEF Embeds
<1>9. SlotOK(b) BY <1>3, <1>4, <1>5, <1>6, <1>7, <1>8 DEF SlotOK
<1> QED BY <1>1, <1>4, <1>7, <1>9 DEF SlotStep, Available

\* A sampled token that goes on changes only the count.
LEMMA DecodedIs ==
    ASSUME NEW a, SlotOK(a), NEW n \in Nat
    PROVE  /\ SlotStep(a, [a EXCEPT !.n_decoded = n])
           /\ [a EXCEPT !.n_decoded = n].state = a.state
<1>1. PICK b : b = [a EXCEPT !.n_decoded = n] OBVIOUS
<1>2. a \in Slot BY DEF SlotOK
<1>3. b \in Slot BY <1>1, <1>2 DEF Slot
<1>4. /\ b.state = a.state /\ b.command = a.command /\ b.id_task = a.id_task
      /\ b.tokenized = a.tokenized /\ b.n_prompt = a.n_prompt /\ b.n_past = a.n_past
  BY <1>1, <1>2 DEF Slot
<1>6. Loading(b) <=> Loading(a) BY <1>4 DEF Loading
<1>7. IsProcessing(b) <=> IsProcessing(a) BY <1>4, <1>6 DEF IsProcessing
<1>8. Embeds(b) = Embeds(a) BY <1>4 DEF Embeds
<1>9. SlotOK(b) BY <1>3, <1>4, <1>6, <1>7, <1>8 DEF SlotOK
<1> QED BY <1>1, <1>4, <1>7, <1>9 DEF SlotStep, Available

\* launch_slot_with_task makes a slot that works, or leaves it idle.
LEMMA LaunchedIs ==
    ASSUME NEW id \in Ids, NEW n \in Nat, NEW ok \in BOOLEAN
    PROVE  /\ SlotOK(Launched(id, n, ok)) /\ Launched(id, n, ok).id_task = id
           /\ Launched(id, n, ok).state # "PROCESSING"
           /\ IsProcessing(Launched(id, n, ok)) <=> ok
<1>1. PICK u : u = UnusedSlot OBVIOUS
<1>2. u \in Slot /\ u.state = "IDLE" /\ u.tokenized = FALSE /\ u.n_past = 0
  BY <1>1 DEF UnusedSlot, Slot
<1>3. PICK c \in {"LOAD_PROMPT", "NONE"} : c = IF ok THEN "LOAD_PROMPT" ELSE "NONE" OBVIOUS
<1>4. PICK b : b = [u EXCEPT !.id_task = id, !.n_prompt = n, !.command = c] OBVIOUS
<1>5. b = Launched(id, n, ok) BY <1>1, <1>3, <1>4 DEF Launched
<1>6. b \in Slot BY <1>2, <1>3, <1>4 DEF Slot
<1>7. /\ b.state = "IDLE" /\ b.command = c /\ b.id_task = id /\ b.tokenized = FALSE
      /\ b.n_past = 0 /\ b.n_prompt = n
  BY <1>2, <1>4 DEF Slot
<1>8. SlotOK(b) BY <1>6, <1>7 DEF SlotOK
<1>9. IsProcessing(b) <=> ok BY <1>3, <1>7 DEF IsProcessing, Loading
<1> QED BY <1>5, <1>7, <1>8, <1>9

\* A context shift halves what a slot has read, or ends its task.
LEMMA ShiftedIs ==
    ASSUME NEW a, SlotOK(a), ctx_shift \in BOOLEAN
    PROVE  /\ SlotStep(a, Shifted(a))
           /\ Shifted(a).state = "PROCESSING" => a.state = "PROCESSING"
           /\ IsProcessing(a) /\ ~IsProcessing(Shifted(a)) => ~ctx_shift /\ AtContextEnd(a)
<1>1. CASE ~AtContextEnd(a)
  <2>1. Shifted(a) = a BY <1>1 DEF Shifted
  <2> QED BY <2>1, SlotStepRefl
<1>2. CASE AtContextEnd(a) /\ ctx_shift
  <2>1. a \in Slot /\ a.n_past \in Nat BY DEF SlotOK, Slot
  <2>2. PICK n : n = a.n_past - (a.n_past \div 2) OBVIOUS
  <2>3. n \in Nat /\ n <= a.n_past BY <2>1, <2>2
  <2>4. PICK b : b = [a EXCEPT !.n_past = n] OBVIOUS
  <2>5. Shifted(a) = b BY <1>2, <2>1, <2>2, <2>4 DEF Shifted, Slot
  <2>6. SlotStep(a, b) /\ b.state = a.state /\ b.command = a.command BY <2>3, <2>4, PastIs
  <2> QED BY <2>5, <2>6 DEF IsProcessing, Loading
<1>3. CASE AtContextEnd(a) /\ ~ctx_shift
  <2>1. Shifted(a) = Release(a) BY <1>3 DEF Shifted
  <2> QED BY <1>3, <2>1, ReleaseIs
<1> QED BY <1>1, <1>2, <1>3

\* A refused prompt ends an embedding and leaves a completion loading.
LEMMA AfterRefusalIs ==
    ASSUME NEW a, SlotOK(a), Loading(a)
    PROVE  /\ SlotStep(a, AfterRefusal(a)) /\ AfterRefusal(a).state # "PROCESSING"
<1>1. CASE Embeds(a)
  BY <1>1, FreedIs DEF AfterRefusal
<1>2. CASE ~Embeds(a)
  <2>1. PICK b : b = [a EXCEPT !.tokenized = TRUE] OBVIOUS
  <2>2. a \in Slot /\ a.state = "IDLE" /\ a.command = "LOAD_PROMPT" BY DEF SlotOK, Loading
  <2>3. b \in Slot BY <2>1, <2>2 DEF Slot
  <2>4. /\ b.state = a.state /\ b.command = a.command /\ b.id_task = a.id_task
        /\ b.n_prompt = a.n_prompt /\ b.n_past = a.n_past
    BY <2>1, <2>2 DEF Slot
  <2>5. Loading(b) /\ IsProcessing(b) /\ IsProcessing(a) BY <2>2, <2>4 DEF Loading, IsProcessing
  <2>6. ~Embeds(b) BY <1>2, <2>4 DEF Embeds
  <2>7. SlotOK(b) BY <2>2, <2>3, <2>4, <2>5, <2>6 DEF SlotOK
  <2>8. AfterRefusal(a) = b BY <1>2, <2>1, <2>2, <2>4 DEF AfterRefusal, Release
  <2> QED BY <2>2, <2>4, <2>5, <2>7, <2>8 DEF SlotStep, Available
<1> QED BY <1>1, <1>2

\* A prompt that is neither empty nor refused is cut to fit the context.
LEMMA SeenIs ==
    ASSUME NEW a, SlotOK(a), Loading(a), ~EmptyPrompt(a)
    PROVE  /\ SlotStep(a, Seen(a)) /\ Loading(Seen(a))
           /\ Embeds(Seen(a)) => Seen(a).n_past = 0 /\ Seen(a).n_prompt > 0
<1>1. CASE NewPrompt(a)
  <2>1. a \in Slot /\ a.n_prompt \in Nat /\ a.n_prompt # 0
    BY <1>1 DEF SlotOK, Slot, EmptyPrompt
  <2>2. PICK m : m = IF Embeds(a) THEN a.n_prompt ELSE Min({a.n_prompt, NCtx - 1}) OBVIOUS
  <2>3. m \in Nat /\ (Embeds(a) => m = a.n_prompt)
    <3>1. Min({a.n_prompt, NCtx - 1}) \in Nat BY <2>1, ConstantsAre, MinIs
    <3> QED BY <2>1, <2>2, <3>1
  <2>4. PICK b : b = [a EXCEPT !.tokenized = TRUE, !.n_past = 0, !.n_prompt = m] OBVIOUS
  <2>5. Seen(a) = b
    <3>1. Seen(a) = [a EXCEPT !.tokenized = TRUE, !.n_past = 0,
                     !.n_prompt = IF Embeds(a) THEN a.n_prompt ELSE Min({a.n_prompt, NCtx - 1})]
      BY <1>1 DEF Seen
    <3> QED BY <2>2, <2>4, <3>1
  <2>6. b \in Slot BY <2>1, <2>3, <2>4 DEF Slot
  <2>7. /\ b.state = a.state /\ b.command = a.command /\ b.id_task = a.id_task
        /\ b.n_prompt = m /\ b.n_past = 0 /\ b.tokenized = TRUE
    BY <2>1, <2>4 DEF Slot
  <2>8. Embeds(b) = Embeds(a) BY <2>7 DEF Embeds
  <2>9. Loading(b) /\ IsProcessing(b) /\ IsProcessing(a) /\ ~Available(b)
    BY <2>7 DEF Loading, IsProcessing, Available
  <2>10. SlotOK(b) BY <2>1, <2>3, <2>6, <2>7, <2>8, <2>9 DEF SlotOK, Loading
  <2> QED BY <2>1, <2>3, <2>5, <2>7, <2>8, <2>9, <2>10 DEF SlotStep
<1>2. CASE ~NewPrompt(a)
  <2>1. Seen(a) = a BY <1>2 DEF Seen
  <2>2. a.tokenized BY <1>2 DEF NewPrompt
  <2> QED BY <2>1, <2>2, SlotStepRefl DEF SlotOK
<1> QED BY <1>1, <1>2

\* A slot whose token was sampled goes on or is released.
LEMMA SampledIs ==
    ASSUME NEW a, SlotOK(a), NEW how
    PROVE  /\ SlotStep(a, Sampled(a, how))
           /\ Sampled(a, how).state = "PROCESSING" => a.state = "PROCESSING"
           /\ how = "token" => Sampled(a, how).state = a.state
           /\ how # "token" => Sampled(a, how) = Release(a)
<1>1. CASE how = "token"
  <2>1. a \in Slot /\ a.n_decoded \in Nat BY DEF SlotOK, Slot
  <2>2. PICK n : n = a.n_decoded + 1 OBVIOUS
  <2>3. PICK b : b = [a EXCEPT !.n_decoded = n] OBVIOUS
  <2>4. Sampled(a, how) = b BY <1>1, <2>2, <2>3 DEF Sampled
  <2>5. SlotStep(a, b) /\ b.state = a.state BY <2>1, <2>2, <2>3, DecodedIs
  <2> QED BY <1>1, <2>4, <2>5
<1>2. CASE how # "token"
  BY <1>2, ReleaseIs DEF Sampled
<1> QED BY <1>1, <1>2

\* The row a prompt's next tokens make, and whether they were its last.
Row == [slot : Slots, logits : BOOLEAN]
Rows(s, k, done) == [i \in 1..k |-> [slot |-> s, logits |-> done /\ i = k]]

\* The rows a prompt adds: all of its slot, logits on the last if it is done.
LEMMA RowsAre ==
    ASSUME NEW s \in Slots, NEW k \in Nat, NEW done \in BOOLEAN
    PROVE  /\ Rows(s, k, done) \in Seq(Row)
           /\ DOMAIN Rows(s, k, done) = 1..k
           /\ \A i \in 1..k : /\ Rows(s, k, done)[i].slot = s
                              /\ Rows(s, k, done)[i].logits <=> done /\ i = k
<1>1. \A i \in 1..k : (done /\ i = k) \in BOOLEAN OBVIOUS
<1>2. \A i \in 1..k : [slot |-> s, logits |-> done /\ i = k] \in Row BY <1>1 DEF Row
<1>3. PICK r : r = Rows(s, k, done) OBVIOUS
<1>4. r = [i \in 1..k |-> [slot |-> s, logits |-> done /\ i = k]] BY <1>3 DEF Rows
<1>5. DOMAIN r = 1..k BY <1>4
<1>6. r \in Seq(Row) BY <1>2, <1>4
<1>7. \A i \in 1..k : r[i] = [slot |-> s, logits |-> done /\ i = k] BY <1>4
<1>8. ASSUME NEW i \in 1..k PROVE r[i].slot = s /\ (r[i].logits <=> done /\ i = k)
  <2>1. PICK c \in BOOLEAN : c = (done /\ i = k) OBVIOUS
  <2>2. r[i] = [slot |-> s, logits |-> c] BY <1>7, <2>1
  <2>3. r[i].slot = s /\ r[i].logits = c BY <2>2
  <2> QED BY <2>1, <2>3
<1> QED BY <1>3, <1>5, <1>6, <1>8

\* An embedding that fits is added whole.
LEMMA FillIs ==
    ASSUME NEW s \in Slots, NEW a, SlotOK(a), Loading(a), batch \in Seq(Row),
           Embeds(a) => a.n_past = 0 /\ a.n_prompt > 0, Fits(a), Fill(s, a)
    PROVE  \E k \in Nat, done \in BOOLEAN : \E b :
               /\ slots' = [slots EXCEPT ![s] = b]
               /\ batch' = batch \o Rows(s, k, done)
               /\ SlotStep(a, b) /\ IsProcessing(b)
               /\ b.state = "PROCESSING" <=> done
               /\ Embeds(a) => done /\ k > 0
<1>1. a \in Slot /\ a.n_past \in Nat /\ a.n_prompt \in Nat /\ a.n_past <= a.n_prompt
  BY DEF SlotOK, Slot
<1>2. Len(batch) \in Nat OBVIOUS
<1>3. PICK room : room = Max({0, NBatch - Len(batch)}) OBVIOUS
<1>4. room \in Nat /\ (NBatch - Len(batch) >= 0 => room = NBatch - Len(batch))
  <2>1. CASE NBatch - Len(batch) >= 0
    <3>1. \E x \in {0, NBatch - Len(batch)} : \A y \in {0, NBatch - Len(batch)} : x >= y
      BY <1>2, <2>1, ConstantsAre
    <3> QED BY <1>2, <1>3, <2>1, <3>1, ConstantsAre DEF Max
  <2>2. CASE ~(NBatch - Len(batch) >= 0)
    <3>1. \E x \in {0, NBatch - Len(batch)} : \A y \in {0, NBatch - Len(batch)} : x >= y
      BY <1>2, <2>2, ConstantsAre
    <3> QED BY <1>2, <1>3, <2>2, <3>1, ConstantsAre DEF Max
  <2> QED BY <2>1, <2>2
<1>5. PICK k : k = Min({a.n_prompt - a.n_past, room}) OBVIOUS
<1>6. k \in {a.n_prompt - a.n_past, room} /\ k <= a.n_prompt - a.n_past /\ k <= room
  <2>1. PICK N : N = {a.n_prompt - a.n_past, room} OBVIOUS
  <2>2. \A x \in N : x \in Nat BY <1>1, <1>4, <2>1
  <2>3. Min(N) \in N /\ \A x \in N : Min(N) <= x BY <2>1, <2>2, MinIs
  <2> QED BY <1>5, <2>1, <2>3
<1>7. k \in Nat /\ k <= a.n_prompt - a.n_past BY <1>1, <1>4, <1>6
<1>8. PICK done \in BOOLEAN : done <=> a.n_past + k = a.n_prompt OBVIOUS
<1>9. Embeds(a) => done /\ k > 0
  <2>1. Embeds(a) => Len(batch) + a.n_prompt <= NBatch BY DEF Fits
  <2>2. Embeds(a) => a.n_prompt - a.n_past <= room BY <1>1, <1>2, <1>4, <2>1, ConstantsAre
  <2>3. Embeds(a) => k = a.n_prompt - a.n_past BY <1>1, <1>4, <1>6, <2>2
  <2> QED BY <1>1, <1>8, <2>3
<1>10. PICK n : n = a.n_past + k OBVIOUS
<1>11. PICK p : p = [a EXCEPT !.n_past = n] OBVIOUS
<1>12. n \in Nat /\ n <= a.n_prompt BY <1>1, <1>7, <1>10
<1>13. p \in Slot BY <1>1, <1>11, <1>12 DEF Slot
<1>14. /\ p.state = a.state /\ p.command = a.command /\ p.id_task = a.id_task
       /\ p.tokenized = a.tokenized /\ p.n_prompt = a.n_prompt /\ p.n_past = n
  BY <1>1, <1>11 DEF Slot
<1>15. PICK b : b = IF done THEN [p EXCEPT !.state = "PROCESSING", !.command = "NONE"] ELSE p
  OBVIOUS
<1>16. b \in Slot BY <1>13, <1>15 DEF Slot
<1>17. b.id_task = a.id_task BY <1>13, <1>14, <1>15 DEF Slot
<1>18. done => b.state = "PROCESSING" /\ b.command = "NONE" BY <1>13, <1>15 DEF Slot
<1>19. ~done => b = p BY <1>15
<1>20. IsProcessing(a) /\ a.id_task \in Ids BY DEF SlotOK, IsProcessing
<1>21. IsProcessing(b) /\ (b.state = "PROCESSING" <=> done)
  BY <1>8, <1>14, <1>18, <1>19 DEF IsProcessing, Loading
<1>22. ~Available(b) BY <1>21 DEF Available, IsProcessing, Loading
<1>23. SlotOK(b)
  <2>1. CASE done
    BY <1>16, <1>17, <1>18, <1>20, <2>1 DEF SlotOK, Loading
  <2>2. CASE ~done
    <3>1. ~Embeds(b) BY <1>9, <1>17, <2>2 DEF Embeds
    <3> QED BY <1>12, <1>14, <1>16, <1>19, <1>20, <2>2, <3>1 DEF SlotOK, Loading
  <2> QED BY <2>1, <2>2
<1>24. slots' = [slots EXCEPT ![s] = b]
  BY <1>3, <1>5, <1>8, <1>10, <1>11, <1>15 DEF Fill
<1>25. batch' = batch \o Rows(s, k, done) BY <1>3, <1>5, <1>8 DEF Fill, Rows
<1>26. SlotStep(a, b) BY <1>17, <1>20, <1>22, <1>23 DEF SlotStep
<1> QED BY <1>7, <1>9, <1>21, <1>24, <1>25, <1>26

-----------------------------------------------------------------------------
(* The invariant                                                           *)

\* Where a task is: it waits for the loop, or a slot works on it.
Waits(id) == InSeq(queue_tasks, id) \/ InSeq(queue_tasks_deferred, id) \/ hand.id = id
WorksOn(s, id) == IsProcessing(slots[s]) /\ slots[s].id_task = id
AtWork(id) == \E s \in Slots : WorksOn(s, id)

\* A task of a request has a type its client asks for; the others are the
\* loop's own and the cancels of readers that have left.
TaskOK(t) ==
    /\ t \in Task
    /\ t.id \in Ids => t.type \in Kinds[t.id]
    /\ t.id \notin Ids => t.type \in {"CANCEL", "NEXT_RESPONSE"}
    /\ t.type = "CANCEL" => \E c \in Readers : t.target \in TasksOf[c] /\ pc[c] = "left"

QueuesOK ==
    /\ queue_tasks \in Seq(Task) /\ queue_tasks_deferred \in Seq(Task)
    /\ \A t \in Range(queue_tasks) : TaskOK(t)
    /\ \A t \in Range(queue_tasks_deferred) : TaskOK(t) /\ t.id \in Ids
HandOK == TaskOK(hand) /\ (loop # "handle" => hand = NoTask)
ResultsOK ==
    /\ waiting_task_ids \subseteq Ids
    /\ queue_results \in Seq(Result) /\ queue_results_legacy \in Seq(Result)
SlotsOK == slots \in [Slots -> Slot] /\ \A s \in Slots : SlotOK(slots[s])
LoopOK ==
    /\ loop \in {"wait", "pop", "handle", "batch", "prompt", "decode"}
    /\ cursor \in 0..NSlots
    /\ loop = "prompt" => cursor \in Slots /\ Loading(slots[cursor])
    /\ n_batch \in 1..NBatch
    /\ ctx_shift \in BOOLEAN /\ stop_internal_decode \in BOOLEAN
ClientsOK ==
    /\ pc \in [Clients -> {"idle", "posted", "registered", "waiting", "aborting",
                           "stopping", "left", "answered"}]
    /\ received \in [Clients -> SUBSET Ids]
    /\ \A c \in Clients : received[c] \subseteq TasksOf[c]
HistoryOK == finals \in [Ids -> Nat] /\ dropped \subseteq Ids

\* A task is in one place; until then, or when nobody has posted it, it has
\* no final result.
Alone(id) ==
    /\ Once(queue_tasks, id) /\ Once(queue_tasks_deferred, id)
    /\ \A s, t \in Slots : WorksOn(s, id) /\ WorksOn(t, id) => s = t
    /\ ~(InSeq(queue_tasks, id) /\ InSeq(queue_tasks_deferred, id))
    /\ ~(InSeq(queue_tasks, id) /\ hand.id = id)
    /\ ~(InSeq(queue_tasks_deferred, id) /\ hand.id = id)
    /\ ~(Waits(id) /\ AtWork(id))
Fresh(id) ==
    /\ Waits(id) \/ AtWork(id) => Posted(id) /\ finals[id] = 0
    /\ ~Posted(id) => finals[id] = 0
Placed == \A id \in Ids : Alone(id) /\ Fresh(id)

Awaits ==
    \A c \in Readers : pc[c] \in {"registered", "waiting", "aborting"}
                           => TasksOf[c] \subseteq waiting_task_ids

\* The rows of a batch, one with logits for each slot that made its prompt
\* ready in this update; a slot with an embedding has such a row.
RowsOK ==
    /\ batch \in Seq(Row)
    /\ loop \notin {"prompt", "decode"} => batch = <<>>
    /\ \A i, j \in DOMAIN batch : Embeds(slots[batch[i].slot]) = Embeds(slots[batch[j].slot])
    /\ \A i, j \in DOMAIN batch :
           batch[i].slot = batch[j].slot /\ batch[i].logits /\ batch[j].logits => i = j
    /\ \A s \in Slots : slots[s].state = "PROCESSING" /\ Embeds(slots[s]) =>
           \E i \in DOMAIN batch : batch[i].slot = s /\ batch[i].logits
    /\ loop = "prompt" => \A i \in DOMAIN batch :
           batch[i].logits => slots[batch[i].slot].state = "PROCESSING"

\* The loop has its next task when it updates, and a deferred task's slots
\* are not available.
NoneFor(t) ==
    /\ t.id_slot \in Slots => ~Available(slots[t.id_slot])
    /\ t.id_slot = AnySlot => \A s \in Slots : ~Available(slots[s])
Awake ==
    /\ loop \in {"batch", "prompt", "decode"} => NextResponse \in Range(queue_tasks)
    /\ loop = "wait" /\ queue_tasks = <<>> => SlotsIdle
    /\ \A t \in Range(queue_tasks_deferred) : NoneFor(t)

\* A reader's task that is nowhere has its result on the way.
Forgets(id) == ~Waits(id) /\ ~AtWork(id) /\ id \notin dropped /\ ~HasResult(queue_results, {id})
Remembers ==
    \A c \in Readers : pc[c] \in {"waiting", "aborting"} =>
        \A id \in TasksOf[c] \ received[c] : ~Forgets(id)

IInv ==
    /\ QueuesOK /\ HandOK /\ ResultsOK /\ SlotsOK /\ LoopOK /\ ClientsOK /\ HistoryOK
    /\ Placed /\ Awaits /\ RowsOK /\ Awake /\ Remembers

-----------------------------------------------------------------------------
(* What a step of the loop does to tasks and results                       *)

ReaderWaits(id) ==
    \E c \in Readers : id \in TasksOf[c] /\ pc[c] \in {"waiting", "aborting"}
Told(id) == ReaderWaits(id) => id \in dropped' \/ InSeq(queue_results', id)

\* A task stays, is started, or ends with at most one final result and its
\* reader told, unless its slot was dropped.
Journey(id) ==
    /\ Alone(id)'
    /\ \/ /\ Waits(id)' <=> Waits(id)
          /\ AtWork(id)' <=> AtWork(id)
          /\ finals'[id] = finals[id]
       \/ Waits(id) /\ AtWork(id)' /\ finals'[id] = finals[id]
       \/ /\ Waits(id) \/ AtWork(id)
          /\ ~Waits(id)' /\ ~AtWork(id)'
          /\ finals'[id] = finals[id] \/ finals'[id] = finals[id] + 1
          /\ Told(id)
Journeys == \A id \in Ids : Journey(id)

ResultsKept ==
    /\ waiting_task_ids' = waiting_task_ids
    /\ \A id : InSeq(queue_results, id) => InSeq(queue_results', id)
    /\ \A id \in dropped : id \in dropped'
SlotsStep ==
    /\ slots' \in [Slots -> Slot]
    /\ \A s \in Slots : SlotStep(slots[s], slots'[s])

\* A result for one id is in the queue.
LEMMA HasResultIs ==
    ASSUME NEW q, NEW id
    PROVE  HasResult(q, {id}) <=> InSeq(q, id)
BY DEF HasResult, InSeq, Range

\* send() loses nothing, and what is awaited arrives.
LEMMA SendIs ==
    ASSUME ResultsOK, NEW r \in Seq(Result), Send(r)
    PROVE  /\ ResultsOK' /\ waiting_task_ids' = waiting_task_ids
           /\ \A id : InSeq(queue_results, id) => InSeq(queue_results', id)
           /\ \A x \in Range(r) : x.id \in waiting_task_ids => InSeq(queue_results', x.id)
<1>1. PICK a \in Seq(Result) : a = Awaited(r) BY AwaitedIs
<1>2. \A x \in Range(r) : x.id \in waiting_task_ids => x \in Range(a) BY <1>1, AwaitedIs
<1>3. queue_results \in Seq(Result) BY DEF ResultsOK
<1>4. queue_results' = queue_results \o a BY <1>1 DEF Send
<1>5. queue_results' \in Seq(Result) BY <1>1, <1>3, <1>4
<1>6. Range(queue_results') = Range(queue_results) \cup Range(a) BY <1>1, <1>3, <1>4, CatIs
<1>7. UNCHANGED <<waiting_task_ids, queue_results_legacy>> BY DEF Send
<1> QED BY <1>2, <1>5, <1>6, <1>7 DEF ResultsOK, InSeq

\* The other send() leaves the readers' results alone.
LEMMA SendLegacyIs ==
    ASSUME ResultsOK, NEW r \in Seq(Result), SendLegacy(r)
    PROVE  /\ ResultsOK' /\ waiting_task_ids' = waiting_task_ids
           /\ queue_results' = queue_results
<1>1. PICK a \in Seq(Result) : a = Awaited(r) BY AwaitedIs
<1>2. queue_results_legacy \in Seq(Result) BY DEF ResultsOK
<1>3. queue_results_legacy' = queue_results_legacy \o a BY <1>1 DEF SendLegacy
<1>4. queue_results_legacy' \in Seq(Result) BY <1>1, <1>2, <1>3
<1>5. UNCHANGED <<waiting_task_ids, queue_results>> BY DEF SendLegacy
<1> QED BY <1>4, <1>5 DEF ResultsOK

\* Sending results and counting them.
LEMMA RespondIs ==
    ASSUME ResultsOK, HistoryOK, NEW r \in Seq(Result), Respond(r)
    PROVE  /\ ResultsOK' /\ HistoryOK' /\ ResultsKept
           /\ \A x \in Range(r) : x.id \in waiting_task_ids => InSeq(queue_results', x.id)
<1>1. Send(r) /\ Record(r) /\ dropped' = dropped BY DEF Respond
<1>2. finals' \in [Ids -> Nat] BY <1>1, RecordIs DEF HistoryOK
<1> QED BY <1>1, <1>2, SendIs DEF HistoryOK, ResultsKept

\* A step that sends nothing.
LEMMA SilentIs ==
    ASSUME ResultsOK, HistoryOK, Silent
    PROVE  ResultsOK' /\ HistoryOK' /\ ResultsKept /\ finals' = finals
BY DEF Silent, resultQueues, historyVars, ResultsOK, HistoryOK, ResultsKept

\* A step that only ends the work of slots.
LEMMA WorkEnds ==
    ASSUME Placed, SlotsOK, SlotsStep, QueuesKept,
           \A id \in Ids : hand'.id = id <=> hand.id = id,
           \A id \in Ids : \/ finals'[id] = finals[id]
                           \/ finals'[id] = finals[id] + 1 /\ AtWork(id) /\ ~AtWork(id)',
           \A id \in Ids : AtWork(id) /\ ~AtWork(id)' => Told(id)
    PROVE  Journeys
<1> SUFFICES ASSUME NEW id \in Ids PROVE Journey(id) BY DEF Journeys
<1>1. queue_tasks' = queue_tasks /\ queue_tasks_deferred' = queue_tasks_deferred
  BY DEF QueuesKept, taskQueues
<1>2. Alone(id) BY DEF Placed
<1>3. Waits(id)' <=> Waits(id) BY <1>1 DEF Waits
<1>4. \A s \in Slots : WorksOn(s, id)' => WorksOn(s, id) BY DEF SlotsStep, SlotStep, WorksOn
<1>5. AtWork(id)' => AtWork(id) BY <1>4 DEF AtWork
<1>6. Alone(id)' BY <1>1, <1>2, <1>3, <1>4, <1>5 DEF Alone
<1>7. CASE AtWork(id) /\ ~AtWork(id)'
  <2>1. ~Waits(id)' BY <1>2, <1>3, <1>7 DEF Alone
  <2> QED BY <1>6, <1>7, <2>1 DEF Journey
<1>8. CASE AtWork(id)' <=> AtWork(id)
  BY <1>3, <1>6, <1>8 DEF Journey
<1> QED BY <1>5, <1>7, <1>8

\* A step that moves waiting tasks and leaves the work of the slots.
LEMMA TaskMoves ==
    ASSUME Placed, NEW id \in Ids,
           \A s \in Slots : WorksOn(s, id)' <=> WorksOn(s, id),
           Waits(id)' <=> Waits(id), finals' = finals,
           Once(queue_tasks', id), Once(queue_tasks_deferred', id),
           ~(InSeq(queue_tasks', id) /\ InSeq(queue_tasks_deferred', id)),
           ~(InSeq(queue_tasks', id) /\ hand'.id = id),
           ~(InSeq(queue_tasks_deferred', id) /\ hand'.id = id)
    PROVE  Journey(id)
<1>1. Alone(id) BY DEF Placed
<1>2. AtWork(id)' <=> AtWork(id) BY DEF AtWork
<1>3. Alone(id)' BY <1>1, <1>2 DEF Alone
<1> QED BY <1>2, <1>3 DEF Journey

\* The loop's own task names no request.
LEMMA NoTaskOK == TaskOK(NoTask) /\ NoTask.id \notin Ids /\ NoTask.id = NoId
BY ConstantsAre DEF NoTask, NextResponse, NewTask, TaskOK, Task, TaskTypes

\* The clients' steps are seen by no task but the cancels.
LEMMA TasksKept ==
    ASSUME \A c \in Readers : pc[c] = "left" => pc'[c] = "left"
    PROVE  \A t : TaskOK(t) => TaskOK(t)'
BY DEF TaskOK

\* Nothing becomes available, so no deferred task could run.
LEMMA UpdateKeeps ==
    ASSUME IInv, SlotsStep, QueuesKept, UNCHANGED clientVars,
           loop' \in {"wait", "batch", "prompt", "decode"} => NextResponse \in Range(queue_tasks),
           hand' = hand \/ hand' = NoTask, loop' # "handle", loop # "handle" \/ hand' = NoTask
    PROVE  SlotsOK' /\ QueuesOK' /\ HandOK' /\ Awake'
<1>1. queue_tasks' = queue_tasks /\ queue_tasks_deferred' = queue_tasks_deferred
  BY DEF QueuesKept, taskQueues
<1>2. pc' = pc BY DEF clientVars
<1>3. SlotsOK' BY DEF SlotsStep, SlotStep, SlotsOK
<1>4. \A t : TaskOK(t) => TaskOK(t)' BY <1>2, TasksKept
<1>5. QueuesOK' BY <1>1, <1>4 DEF IInv, QueuesOK
<1>6. \A s \in Slots : Available(slots'[s]) => Available(slots[s]) BY DEF SlotsStep, SlotStep
<1>7. \A t : NoneFor(t) => NoneFor(t)' BY <1>6 DEF NoneFor
<1>8. queue_tasks # <<>> \/ loop' # "wait"
  <2>1. NextResponse \in Range(queue_tasks) => queue_tasks # <<>> BY EmptyIs
  <2> QED BY <2>1
<1>9. Awake' BY <1>1, <1>7, <1>8 DEF IInv, Awake
<1>10. HandOK' BY <1>4, NoTaskOK DEF IInv, HandOK
<1> QED BY <1>3, <1>5, <1>9, <1>10

\* A step that touches no slot.
LEMMA SlotsSame == ASSUME SlotsOK, slots' = slots PROVE SlotsStep
BY SlotStepRefl DEF SlotsOK, SlotsStep

\* No rows, and no slot that generates is new.
LEMMA NoRows ==
    ASSUME RowsOK, batch = <<>>, batch' = <<>>,
           \A s \in Slots : slots'[s].state = "PROCESSING" =>
               slots[s].state = "PROCESSING" /\ slots'[s].id_task = slots[s].id_task
    PROVE  RowsOK'
<1>1. batch' \in Seq(Row) BY EmptyIs
<1>2. DOMAIN batch = {} /\ DOMAIN batch' = {} OBVIOUS
<1>3. \A s \in Slots : slots'[s].state = "PROCESSING" => ~Embeds(slots'[s])
  BY <1>2 DEF RowsOK, Embeds
<1> QED BY <1>1, <1>2, <1>3 DEF RowsOK

\* A reader that waits has its tasks registered, and no other client has them.
LEMMA ReaderWaitsIs ==
    ASSUME IInv, NEW id, ReaderWaits(id)
    PROVE  /\ id \in waiting_task_ids /\ id \in Ids /\ IsReaderTask(id)
           /\ Kinds[id] = {"slot_task"}
           /\ \A c \in Clients : id \in TasksOf[c] => pc[c] \in {"waiting", "aborting"}
<1>1. PICK c \in Readers : id \in TasksOf[c] /\ pc[c] \in {"waiting", "aborting"}
  BY DEF ReaderWaits
<1>2. TasksOf[c] \subseteq waiting_task_ids BY <1>1 DEF IInv, Awaits
<1>3. c \in Clients BY DEF Clients
<1>4. \A d \in Clients : id \in TasksOf[d] => d = c BY <1>1, <1>3, ServerAssumption
<1>5. TasksOf[c] \subseteq Ids BY <1>3, ServerAssumption
<1>6. Kinds[id] = {"slot_task"} BY <1>1, ServerAssumption
<1> QED BY <1>1, <1>2, <1>4, <1>5, <1>6 DEF IsReaderTask

-----------------------------------------------------------------------------
(* Steps of the loop: what each one keeps                                  *)

LoopSound ==
    /\ QueuesOK' /\ HandOK' /\ ResultsOK' /\ SlotsOK' /\ LoopOK' /\ HistoryOK' /\ RowsOK'
    /\ Awake' /\ Journeys /\ ResultsKept

\* The task in the loop's hand has the handled type and is gone afterwards.
LEMMA HandledIs ==
    ASSUME IInv, NEW type, Handle(type)
    PROVE  /\ TaskOK(hand) /\ hand.type = type /\ hand' = NoTask /\ loop = "handle"
           /\ loop' = "pop" /\ batch = <<>>
           /\ type \in {"slot_task", "at_once"} <=> hand.id \in Ids
<1>1. TaskOK(hand) /\ hand.type = type /\ hand' = NoTask /\ loop = "handle" /\ loop' = "pop"
  BY DEF IInv, HandOK, Handle
<1>2. batch = <<>> BY <1>1 DEF IInv, RowsOK
<1>3. hand.type \in {"slot_task", "at_once"} <=> hand.id \in Ids
  <2>1. hand.id \in Ids => Kinds[hand.id] \in SUBSET {"slot_task", "at_once"}
    BY ServerAssumption
  <2> QED BY <1>1, <2>1 DEF TaskOK
<1> QED BY <1>1, <1>2, <1>3

\* NEXT_RESPONSE only wakes the loop.
LEMMA NextResponseSound ==
    ASSUME IInv, HandleNextResponse, UNCHANGED cursor, UNCHANGED clientVars
    PROVE  LoopSound
<1>1. /\ hand' = NoTask /\ loop = "handle" /\ loop' = "pop" /\ batch = <<>>
      /\ hand.id \notin Ids
  BY HandledIs DEF HandleNextResponse
<1>2. UNCHANGED <<slots, batch, n_batch, ctx_shift, stop_internal_decode>> /\ QueuesKept /\ Silent
  BY DEF HandleNextResponse, SlotsKept, slotVars
<1>3. SlotsStep BY <1>2, SlotsSame DEF IInv
<1>4. QueuesOK' /\ HandOK' /\ SlotsOK' /\ Awake' BY <1>1, <1>2, <1>3, UpdateKeeps
<1>5. ResultsOK' /\ HistoryOK' /\ ResultsKept /\ finals' = finals
  BY <1>2, SilentIs DEF IInv
<1>6. \A id \in Ids : AtWork(id)' <=> AtWork(id) BY <1>2 DEF AtWork, WorksOn
<1>7. \A id \in Ids : hand'.id = id <=> hand.id = id BY <1>1, NoTaskOK
<1>8. Journeys BY <1>2, <1>3, <1>5, <1>6, <1>7, WorkEnds DEF IInv
<1>9. RowsOK' BY <1>1, <1>2, NoRows DEF IInv
<1>10. LoopOK' BY <1>1, <1>2 DEF IInv, LoopOK
<1> QED BY <1>4, <1>5, <1>8, <1>9, <1>10 DEF LoopSound

\* A cancelled task ends on the first slot that has its id; its reader left.
LEMMA CancelSound ==
    ASSUME IInv, HandleCancel, UNCHANGED cursor, UNCHANGED clientVars
    PROVE  LoopSound
<1>1. /\ TaskOK(hand) /\ hand.type = "CANCEL" /\ hand' = NoTask /\ loop = "handle"
      /\ loop' = "pop" /\ batch = <<>> /\ hand.id \notin Ids
  BY HandledIs DEF HandleCancel
<1>2. /\ UNCHANGED <<batch, n_batch, ctx_shift>> /\ QueuesKept /\ Silent
      /\ slots' = AfterCancel(hand.target)
      /\ stop_internal_decode' \in BOOLEAN
  BY DEF HandleCancel
<1>3. SlotsOK BY DEF IInv
<1>4. \/ slots' = slots
      \/ \E s \in Slots : slots[s].id_task = hand.target /\ slots' = [slots EXCEPT ![s] = Release(slots[s])]
  <2>1. CASE SlotsOf(hand.target) = {}
    BY <1>2, <2>1 DEF AfterCancel
  <2>2. CASE SlotsOf(hand.target) # {}
    <3>1. \A s \in SlotsOf(hand.target) : s \in Slots /\ s \in Nat
      BY ConstantsAre DEF SlotsOf
    <3>2. Min(SlotsOf(hand.target)) \in SlotsOf(hand.target) BY <2>2, <3>1, MinIs
    <3>3. PICK s \in SlotsOf(hand.target) : s = Min(SlotsOf(hand.target)) BY <3>2
    <3>4. s \in Slots /\ slots[s].id_task = hand.target BY <3>3 DEF SlotsOf
    <3>5. slots' = [slots EXCEPT ![s] = Release(slots[s])]
      BY <1>2, <2>2, <3>3, <3>4 DEF AfterCancel
    <3> QED BY <3>4, <3>5
  <2> QED BY <2>1, <2>2
<1>5. \A s \in Slots : \/ slots'[s] = slots[s]
                       \/ slots'[s] = Release(slots[s]) /\ slots[s].id_task = hand.target
  BY <1>3, <1>4 DEF SlotsOK
<1>6. SlotsStep
  <2>1. \A s \in Slots : SlotStep(slots[s], slots'[s])
    BY <1>3, <1>5, ReleaseIs, SlotStepRefl DEF SlotsOK
  <2>2. \A s \in Slots : slots'[s] \in Slot BY <2>1 DEF SlotStep, SlotOK
  <2>3. slots' \in [Slots -> Slot] BY <1>3, <1>4, <2>2 DEF SlotsOK
  <2> QED BY <2>1, <2>3 DEF SlotsStep
<1>7. QueuesOK' /\ HandOK' /\ SlotsOK' /\ Awake' BY <1>1, <1>2, <1>6, UpdateKeeps
<1>8. ResultsOK' /\ HistoryOK' /\ ResultsKept /\ finals' = finals
  BY <1>2, SilentIs DEF IInv
<1>9. ASSUME NEW id \in Ids, AtWork(id), ~AtWork(id)' PROVE Told(id)
  <2>1. PICK s \in Slots : WorksOn(s, id) BY <1>9 DEF AtWork
  <2>2. ~WorksOn(s, id)' BY <1>9 DEF AtWork
  <2>3. slots[s].id_task = hand.target /\ slots[s].id_task = id
    BY <1>5, <2>1, <2>2 DEF WorksOn
  <2>4. PICK c \in Readers : id \in TasksOf[c] /\ pc[c] = "left" BY <1>1, <2>3 DEF TaskOK
  <2>5. c \in Clients BY DEF Clients
  <2>6. ~ReaderWaits(id) BY <2>4, <2>5, ReaderWaitsIs
  <2> QED BY <2>6 DEF Told
<1>10. \A id \in Ids : hand'.id = id <=> hand.id = id BY <1>1, NoTaskOK
<1>11. Journeys BY <1>2, <1>6, <1>8, <1>9, <1>10, WorkEnds DEF IInv
<1>12. \A s \in Slots : slots'[s].state = "PROCESSING" =>
           slots[s].state = "PROCESSING" /\ slots'[s].id_task = slots[s].id_task
  BY <1>3, <1>5, ReleaseIs DEF SlotsOK
<1>13. RowsOK' BY <1>1, <1>2, <1>12, NoRows DEF IInv
<1>14. LoopOK' BY <1>1, <1>2 DEF IInv, LoopOK
<1> QED BY <1>7, <1>8, <1>11, <1>13, <1>14 DEF LoopSound

\* Half the rows are tried again; nothing else changes.
LEMMA RetrySound ==
    ASSUME IInv, LoopDecodeRetry, UNCHANGED cursor, UNCHANGED clientVars
    PROVE  LoopSound
<1>1. /\ loop = "decode" /\ loop' = loop /\ hand' = hand /\ n_batch > 1 /\ n_batch' = n_batch \div 2
      /\ UNCHANGED <<slots, batch, ctx_shift, stop_internal_decode>> /\ QueuesKept /\ Silent
  BY DEF LoopDecodeRetry, CanHalve
<1>2. hand = NoTask BY <1>1 DEF IInv, HandOK
<1>3. SlotsStep BY <1>1, SlotsSame DEF IInv
<1>4. NextResponse \in Range(queue_tasks) BY <1>1 DEF IInv, Awake
<1>5. QueuesOK' /\ HandOK' /\ SlotsOK' /\ Awake' BY <1>1, <1>2, <1>3, <1>4, UpdateKeeps
<1>6. ResultsOK' /\ HistoryOK' /\ ResultsKept /\ finals' = finals
  BY <1>1, SilentIs DEF IInv
<1>7. \A id \in Ids : AtWork(id)' <=> AtWork(id) BY <1>1 DEF AtWork, WorksOn
<1>8. \A id \in Ids : hand'.id = id <=> hand.id = id BY <1>1
<1>9. Journeys BY <1>1, <1>3, <1>6, <1>7, <1>8, WorkEnds DEF IInv
<1>10. RowsOK' BY <1>1 DEF IInv, RowsOK
<1>11. n_batch' \in 1..NBatch
  <2>1. n_batch \in 1..NBatch BY DEF IInv, LoopOK
  <2> QED BY <1>1, <2>1, ConstantsAre
<1>12. LoopOK' BY <1>1, <1>11 DEF IInv, LoopOK
<1> QED BY <1>5, <1>6, <1>9, <1>10, <1>12 DEF LoopSound

\* The slots of S in order, and the errors that tell their tasks.
LEMMA InOrderIs ==
    ASSUME NEW S, \A s \in S : s \in Slots
    PROVE  /\ Cardinality(S) \in Nat /\ DOMAIN InOrder(S) = 1..Cardinality(S)
           /\ \A i \in 1..Cardinality(S) : InOrder(S)[i] \in S
           /\ \A i, j \in 1..Cardinality(S) : InOrder(S)[i] = InOrder(S)[j] => i = j
           /\ \A s \in S : \E i \in 1..Cardinality(S) : InOrder(S)[i] = s
<1>1. Counts(S, NSlots) /\ NSlots \in Nat BY ConstantsAre DEF Counts
<1>2. PICK n : n = Cardinality(S) OBVIOUS
<1>3. n \in Nat /\ \A k \in 1..n : Nth(S, k) \in S BY <1>1, <1>2, NthIs
<1>4. \A k, m \in 1..n : Nth(S, k) = Nth(S, m) => k = m BY <1>1, <1>2, NthIs
<1>5. \A s \in S : \E k \in 1..n : Nth(S, k) = s BY <1>1, <1>2, NthIs
<1>6. PICK q : q = InOrder(S) OBVIOUS
<1>7. q = [k \in 1..n |-> Nth(S, k)] BY <1>2, <1>6 DEF InOrder
<1>8. DOMAIN q = 1..n /\ \A k \in 1..n : q[k] = Nth(S, k) BY <1>7
<1> QED BY <1>2, <1>3, <1>4, <1>5, <1>6, <1>8

\* One error for each slot of S.
LEMMA ErrorsAre ==
    ASSUME SlotsOK, NEW S, \A s \in S : s \in Slots /\ slots[s].id_task \in Ids
    PROVE  /\ ErrorsOf(S) \in Seq(Result)
           /\ \A i \in DOMAIN ErrorsOf(S) : \A id : ErrorsOf(S)[i] # Answer(id)
           /\ \A s \in S : InSeq(ErrorsOf(S), slots[s].id_task)
<1>1. PICK n : n = Cardinality(S) OBVIOUS
<1>2. PICK o : o = InOrder(S) OBVIOUS
<1>3. n \in Nat /\ \A i \in 1..n : o[i] \in S BY <1>1, <1>2, InOrderIs
<1>4. \A s \in S : \E i \in 1..n : o[i] = s BY <1>1, <1>2, InOrderIs
<1>5. PICK r : r = ErrorsOf(S) OBVIOUS
<1>6. r = [i \in 1..n |-> Failure(slots[o[i]].id_task)] BY <1>1, <1>2, <1>5 DEF ErrorsOf
<1>7. DOMAIN r = 1..n /\ \A i \in 1..n : r[i] = Failure(slots[o[i]].id_task) BY <1>6
<1>8. \A id \in Ids : Failure(id) \in Result BY DEF Failure, Result
<1>9. \A i \in 1..n : slots[o[i]].id_task \in Ids BY <1>3
<1>10. r \in Seq(Result) BY <1>3, <1>6, <1>8, <1>9
<1>11. \A a, b : Failure(a) # Answer(b) /\ Failure(a).id = a BY DEF Failure, Answer
<1>12. \A i \in DOMAIN r : \A id : r[i] # Answer(id) BY <1>7, <1>11
<1>13. \A s \in S : InSeq(r, slots[s].id_task)
  <2> SUFFICES ASSUME NEW s \in S PROVE InSeq(r, slots[s].id_task) OBVIOUS
  <2>1. PICK i \in 1..n : o[i] = s BY <1>4
  <2>2. r[i].id = slots[s].id_task BY <1>7, <1>11, <2>1
  <2> QED BY <1>7, <2>2 DEF InSeq, Range
<1> QED BY <1>5, <1>10, <1>12, <1>13

\* Errors sent to the tasks that end, and to others perhaps.
LEMMA ErrorsSent ==
    ASSUME ResultsOK, HistoryOK, NEW r \in Seq(Result), Respond(r),
           \A i \in DOMAIN r : \A id : r[i] # Answer(id)
    PROVE  /\ ResultsOK' /\ HistoryOK' /\ ResultsKept
           /\ \A id \in Ids : finals'[id] = finals[id]
           /\ \A id \in waiting_task_ids : InSeq(r, id) => InSeq(queue_results', id)
<1>1. ResultsOK' /\ HistoryOK' /\ ResultsKept BY RespondIs
<1>2. \A x \in Range(r) : x.id \in waiting_task_ids => InSeq(queue_results', x.id) BY RespondIs
<1>3. \A id \in Ids : finals'[id] = finals[id] BY RecordIs DEF Respond, HistoryOK
<1> QED BY <1>1, <1>2, <1>3 DEF InSeq

\* The next slot to look at has a prompt; without one there is a batch, or
\* the loop waits.
LEMMA ToPromptsIs ==
    ASSUME NEW s \in 0..NSlots, ToPrompts(s)
    PROVE  /\ loop' \in {"prompt", "wait", "decode"} /\ cursor' \in 0..NSlots
           /\ loop' = "prompt" => cursor' \in Slots /\ Loading(slots'[cursor'])
           /\ loop' = "wait" => batch' = <<>>
<1>1. PICK more : more = PendingAfter(s, slots', batch') OBVIOUS
<1>2. \A t \in more : t \in Slots /\ Loading(slots'[t]) BY <1>1 DEF PendingAfter
<1>3. \A t \in more : t \in Nat BY <1>2, ConstantsAre
<1>4. CASE more # {} /\ (s = 0 => ContBatching \/ batch' = <<>>)
  <2>1. loop' = "prompt" /\ cursor' = Min(more) BY <1>1, <1>4 DEF ToPrompts
  <2>2. Min(more) \in more BY <1>3, <1>4, MinIs
  <2>3. cursor' \in Slots /\ Loading(slots'[cursor']) BY <1>2, <2>1, <2>2
  <2> QED BY <2>1, <2>3, ConstantsAre
<1>5. CASE ~(more # {} /\ (s = 0 => ContBatching \/ batch' = <<>>))
  <2>1. (loop' = IF batch' = <<>> THEN "wait" ELSE "decode") /\ cursor' = 0
    BY <1>1, <1>5 DEF ToPrompts
  <2> QED BY <2>1, ConstantsAre
<1> QED BY <1>4, <1>5

\* Sampled tokens make the batch: a slot whose context is full is shifted,
\* or released with an error.
LEMMA BatchSound ==
    ASSUME IInv, LoopBatch, UNCHANGED clientVars
    PROVE  LoopSound
<1>1. PICK sl : sl = [s \in Slots |-> Shifted(slots[s])] OBVIOUS
<1>2. PICK G : G = Generating(sl) OBVIOUS
<1>3. PICK r : r = IF ctx_shift THEN <<>> ELSE ErrorsOf(AtEnd) OBVIOUS
<1>4. /\ loop = "batch" /\ n_batch' = NBatch /\ Respond(r) /\ ToPrompts(0)
      /\ AddSampledTokens(sl) /\ hand' = hand /\ ctx_shift' = ctx_shift /\ QueuesKept
      /\ stop_internal_decode' \in BOOLEAN
  BY <1>1, <1>3 DEF LoopBatch
<1>5. /\ slots' = [s \in Slots |-> IF s \in G THEN [sl[s] EXCEPT !.n_past = sl[s].n_past + 1]
                                   ELSE sl[s]]
      /\ batch' = [i \in 1..Cardinality(G) |-> [slot |-> InOrder(G)[i], logits |-> TRUE]]
  BY <1>2, <1>4 DEF AddSampledTokens
<1>6. SlotsOK /\ ctx_shift \in BOOLEAN /\ batch = <<>> /\ hand = NoTask
  BY <1>4 DEF IInv, LoopOK, RowsOK, HandOK
<1>7. \A s \in Slots : /\ SlotStep(slots[s], sl[s])
                       /\ sl[s].state = "PROCESSING" => slots[s].state = "PROCESSING"
                       /\ IsProcessing(slots[s]) /\ ~IsProcessing(sl[s]) => ~ctx_shift /\ s \in AtEnd
  BY <1>1, <1>6, ShiftedIs DEF SlotsOK, AtEnd
<1>8. \A s \in G : s \in Slots /\ sl[s].state = "PROCESSING" BY <1>2 DEF Generating
<1>9. ASSUME NEW s \in Slots
      PROVE  SlotStep(sl[s], slots'[s]) /\ slots'[s].state = sl[s].state
             /\ (IsProcessing(slots'[s]) <=> IsProcessing(sl[s]))
  <2>1. SlotOK(sl[s]) /\ sl[s].n_past \in Nat BY <1>7 DEF SlotStep, SlotOK, Slot
  <2>2. CASE s \in G
    <3>1. ~Loading(sl[s]) BY <1>8, <2>2 DEF Loading
    <3>2. PICK n \in Nat : n = sl[s].n_past + 1 BY <2>1
    <3>3. PICK b : b = [sl[s] EXCEPT !.n_past = n] OBVIOUS
    <3>4. SlotStep(sl[s], b) /\ b.state = sl[s].state BY <2>1, <3>1, <3>3, PastIs
    <3>5. slots'[s] = b BY <1>5, <2>2, <3>2, <3>3
    <3> QED BY <1>8, <2>2, <3>4, <3>5 DEF IsProcessing
  <2>3. CASE s \notin G
    BY <1>5, <2>1, <2>3, SlotStepRefl
  <2> QED BY <2>2, <2>3
<1>10. SlotsStep
  <2>1. \A s \in Slots : SlotStep(slots[s], slots'[s]) BY <1>7, <1>9 DEF SlotStep
  <2>2. \A s \in Slots : slots'[s] \in Slot BY <2>1 DEF SlotStep, SlotOK
  <2>3. slots' \in [Slots -> Slot] BY <1>5, <2>2
  <2> QED BY <2>1, <2>3 DEF SlotsStep
<1>11. /\ loop' \in {"prompt", "wait", "decode"} /\ cursor' \in 0..NSlots
       /\ loop' = "prompt" => cursor' \in Slots /\ Loading(slots'[cursor'])
       /\ loop' = "wait" => batch' = <<>>
  BY <1>4, ConstantsAre, ToPromptsIs
<1>12. NextResponse \in Range(queue_tasks) BY <1>4 DEF IInv, Awake
<1>13. QueuesOK' /\ HandOK' /\ SlotsOK' /\ Awake'
  BY <1>4, <1>6, <1>10, <1>11, <1>12, UpdateKeeps
<1>14. /\ r \in Seq(Result) /\ \A i \in DOMAIN r : \A id : r[i] # Answer(id)
       /\ ~ctx_shift => \A s \in AtEnd : InSeq(r, slots[s].id_task)
  <2>1. \A s \in AtEnd : s \in Slots /\ slots[s].id_task \in Ids
    BY <1>6 DEF AtEnd, AtContextEnd, SlotsOK, SlotOK
  <2>2. CASE ctx_shift
    <3>1. r = <<>> BY <1>3, <2>2
    <3> QED BY <2>2, <3>1
  <2>3. CASE ~ctx_shift
    <3>1. r = ErrorsOf(AtEnd) BY <1>3, <2>3
    <3> QED BY <1>6, <2>1, <2>3, <3>1, ErrorsAre
  <2> QED BY <2>2, <2>3
<1>15. /\ ResultsOK' /\ HistoryOK' /\ ResultsKept
       /\ \A id \in Ids : finals'[id] = finals[id]
       /\ \A id \in waiting_task_ids : InSeq(r, id) => InSeq(queue_results', id)
  BY <1>4, <1>14, ErrorsSent DEF IInv
<1>16. ASSUME NEW id \in Ids, AtWork(id), ~AtWork(id)' PROVE Told(id)
  <2>1. PICK s \in Slots : WorksOn(s, id) BY <1>16 DEF AtWork
  <2>2. ~WorksOn(s, id)' BY <1>16 DEF AtWork
  <2>3. slots'[s].id_task = slots[s].id_task BY <1>10 DEF SlotsStep, SlotStep
  <2>4. IsProcessing(slots[s]) /\ ~IsProcessing(slots'[s]) /\ slots[s].id_task = id
    BY <2>1, <2>2, <2>3 DEF WorksOn
  <2>5. InSeq(r, id) BY <1>7, <1>9, <1>14, <2>4
  <2> QED BY <1>15, <2>5, ReaderWaitsIs DEF Told
<1>17. \A id \in Ids : hand'.id = id <=> hand.id = id BY <1>4
<1>18. Journeys BY <1>4, <1>6, <1>10, <1>15, <1>16, <1>17, WorkEnds DEF IInv
<1>19. RowsOK'
  <2>1. PICK n : n = Cardinality(G) OBVIOUS
  <2>2. PICK o : o = InOrder(G) OBVIOUS
  <2>3. n \in Nat /\ \A i \in 1..n : o[i] \in G BY <1>8, <2>1, <2>2, InOrderIs
  <2>4. \A i, j \in 1..n : o[i] = o[j] => i = j BY <1>8, <2>1, <2>2, InOrderIs
  <2>5. \A s \in G : \E i \in 1..n : o[i] = s BY <1>8, <2>1, <2>2, InOrderIs
  <2>6. PICK b : b = batch' OBVIOUS
  <2>7. b = [i \in 1..n |-> [slot |-> o[i], logits |-> TRUE]] BY <1>5, <2>1, <2>2, <2>6
  <2>8. DOMAIN b = 1..n /\ \A i \in 1..n : b[i].slot = o[i] /\ b[i].logits = TRUE BY <2>7
  <2>9. b \in Seq(Row)
    <3>1. \A i \in 1..n : [slot |-> o[i], logits |-> TRUE] \in Row BY <1>8, <2>3 DEF Row
    <3> QED BY <2>3, <2>7, <3>1
  <2>10. \A s \in Slots : slots'[s].state = "PROCESSING" <=> s \in G
    BY <1>2, <1>9 DEF Generating
  <2>11. ASSUME NEW s \in G PROVE Embeds(slots'[s]) = FALSE
    <3>1. slots[s].state = "PROCESSING" /\ slots[s].id_task \in Ids
          /\ slots'[s].id_task = slots[s].id_task
      BY <1>6, <1>7, <1>8, <1>10 DEF SlotsOK, SlotOK, IsProcessing, SlotsStep, SlotStep
    <3>2. ~Embeds(slots[s])
      <4>1. DOMAIN batch = {} BY <1>6
      <4> QED BY <1>8, <3>1, <4>1 DEF IInv, RowsOK
    <3>3. Embeds(slots'[s]) = Embeds(slots[s]) BY <3>1 DEF Embeds
    <3>4. Embeds(slots[s]) \in BOOLEAN BY <3>1, ConstantsAre DEF Embeds
    <3> QED BY <3>2, <3>3, <3>4
  <2>12. \A i, j \in DOMAIN b : Embeds(slots'[b[i].slot]) = Embeds(slots'[b[j].slot])
    BY <2>3, <2>8, <2>11
  <2>13. \A i, j \in DOMAIN b : b[i].slot = b[j].slot => i = j BY <2>4, <2>8
  <2>14. \A s \in Slots : slots'[s].state = "PROCESSING" =>
             \E i \in DOMAIN b : b[i].slot = s /\ b[i].logits
    BY <2>5, <2>8, <2>10
  <2>15. \A i \in DOMAIN b : slots'[b[i].slot].state = "PROCESSING"
    BY <1>8, <2>3, <2>8, <2>10
  <2> QED BY <1>11, <2>6, <2>9, <2>12, <2>13, <2>14, <2>15 DEF RowsOK
<1>20. LoopOK' BY <1>4, <1>6, <1>11, ConstantsAre DEF LoopOK
<1> QED BY <1>13, <1>15, <1>18, <1>19, <1>20 DEF LoopSound

\* Answers and failures are results of their task.
LEMMA ResultsAre ==
    ASSUME NEW id \in Ids
    PROVE  /\ Answer(id) \in Result /\ Answer(id).id = id
           /\ Failure(id) \in Result /\ Failure(id).id = id
BY DEF Answer, Failure, Result

\* The rows of a batch and their slots.
LEMMA RowsHaveSlots ==
    ASSUME NEW q \in Seq(Row)
    PROVE  /\ Len(q) \in Nat /\ DOMAIN q = 1..Len(q)
           /\ \A i \in DOMAIN q : q[i] \in Row /\ q[i].slot \in Slots
<1>1. \A r \in Row : r.slot \in Slots BY DEF Row
<1> HIDE DEF Row
<1> QED BY <1>1

\* The rows are still those of slots of one type, when no slot begins or
\* stops to generate.
LEMMA RowsKept ==
    ASSUME RowsOK, loop = "prompt", SlotsStep, batch' = batch,
           \A s \in Slots : slots'[s].state = "PROCESSING" <=> slots[s].state = "PROCESSING",
           loop' \in {"prompt", "wait", "decode"}, loop' = "wait" => batch' = <<>>
    PROVE  RowsOK'
<1>1. \A s \in Slots : Embeds(slots'[s]) = Embeds(slots[s])
  BY DEF SlotsStep, SlotStep, Embeds
<1>2. batch \in Seq(Row) /\ \A i \in DOMAIN batch : batch[i].slot \in Slots
  BY RowsHaveSlots DEF RowsOK
<1>3. \A i, j \in DOMAIN batch : Embeds(slots'[batch[i].slot]) = Embeds(slots'[batch[j].slot])
  BY <1>1, <1>2 DEF RowsOK
<1>4. \A s \in Slots : slots'[s].state = "PROCESSING" /\ Embeds(slots'[s]) =>
           \E i \in DOMAIN batch : batch[i].slot = s /\ batch[i].logits
  BY <1>1 DEF RowsOK
<1>5. \A i \in DOMAIN batch : batch[i].logits => slots'[batch[i].slot].state = "PROCESSING"
  BY <1>2 DEF RowsOK
<1> QED BY <1>2, <1>3, <1>4, <1>5 DEF RowsOK

\* An empty prompt is answered and one too large refused; the others wait.
LEMMA PromptEndsSound ==
    ASSUME IInv, LoopPromptEnds, UNCHANGED clientVars
    PROVE  LoopSound
<1>1. PICK s : s = cursor OBVIOUS
<1>2. PICK a : a = slots[s] OBVIOUS
<1>3. loop = "prompt" /\ s \in Slots /\ Loading(a) /\ SlotsOK /\ hand = NoTask
  BY <1>1, <1>2 DEF LoopPromptEnds, IInv, LoopOK, HandOK
<1>4. SlotOK(a) /\ IsProcessing(a) /\ a.id_task \in Ids /\ a.state # "PROCESSING"
  BY <1>2, <1>3 DEF SlotsOK, SlotOK, IsProcessing, Loading
<1>5. /\ stop_internal_decode' = FALSE /\ batch' = batch /\ ToPrompts(s)
      /\ hand' = hand /\ n_batch' = n_batch /\ ctx_shift' = ctx_shift /\ QueuesKept
  BY <1>1 DEF LoopPromptEnds
<1>6. PICK b, r : /\ slots' = [slots EXCEPT ![s] = b] /\ Respond(<<r>>)
                  /\ \/ b = Freed(a) /\ r = Answer(a.id_task)
                     \/ b = AfterRefusal(a) /\ r = Failure(a.id_task)
  BY <1>1, <1>2, <1>3 DEF LoopPromptEnds
<1>7. SlotStep(a, b) /\ b.state # "PROCESSING" /\ (b = Freed(a) => ~IsProcessing(b))
  BY <1>3, <1>4, <1>6, FreedIs, AfterRefusalIs
<1>8. \A t \in Slots : slots'[t] = IF t = s THEN b ELSE slots[t]
  BY <1>3, <1>6 DEF SlotsOK
<1>9. SlotsStep
  <2>1. \A t \in Slots : SlotStep(slots[t], slots'[t])
    BY <1>2, <1>3, <1>7, <1>8, SlotStepRefl DEF SlotsOK
  <2>2. \A t \in Slots : slots'[t] \in Slot BY <2>1 DEF SlotStep, SlotOK
  <2>3. slots' \in [Slots -> Slot] BY <1>3, <1>6, <2>2 DEF SlotsOK
  <2> QED BY <2>1, <2>3 DEF SlotsStep
<1>10. /\ loop' \in {"prompt", "wait", "decode"} /\ cursor' \in 0..NSlots
       /\ loop' = "prompt" => cursor' \in Slots /\ Loading(slots'[cursor'])
       /\ loop' = "wait" => batch' = <<>>
  BY <1>3, <1>5, ConstantsAre, ToPromptsIs
<1>11. NextResponse \in Range(queue_tasks) BY <1>3 DEF IInv, Awake
<1>12. QueuesOK' /\ HandOK' /\ SlotsOK' /\ Awake'
  BY <1>3, <1>5, <1>9, <1>10, <1>11, UpdateKeeps
<1>13. r \in Result /\ r.id = a.id_task BY <1>4, <1>6, ResultsAre
<1>14. PICK q \in Seq(Result) : q = <<r>> BY <1>13, OneIs
<1>15. /\ ResultsOK' /\ HistoryOK' /\ ResultsKept
       /\ \A x \in Range(q) : x.id \in waiting_task_ids => InSeq(queue_results', x.id)
  BY <1>6, <1>14, RespondIs DEF IInv
<1>16. a.id_task \in waiting_task_ids => InSeq(queue_results', a.id_task)
  BY <1>13, <1>14, <1>15, OneIs
<1>17. \A id \in Ids : AtWork(id) /\ ~AtWork(id)' => id = a.id_task
  <2>1. \A id : \A t \in Slots : t # s /\ WorksOn(t, id) => WorksOn(t, id)'
    BY <1>8 DEF WorksOn
  <2> QED BY <1>2, <2>1 DEF AtWork, WorksOn
<1>18. ASSUME NEW id \in Ids, AtWork(id), ~AtWork(id)' PROVE Told(id)
  BY <1>16, <1>17, <1>18, ReaderWaitsIs DEF Told
<1>19. ASSUME NEW id \in Ids
       PROVE  \/ finals'[id] = finals[id]
              \/ finals'[id] = finals[id] + 1 /\ AtWork(id) /\ ~AtWork(id)'
  <2>1. finals \in [Ids -> Nat] /\ Record(<<r>>) BY <1>6 DEF IInv, HistoryOK, Respond
  <2>2. r # Answer(id) => finals'[id] = finals[id] BY <1>13, <2>1, RecordOne
  <2>3. r = Answer(id) => finals'[id] = finals[id] + 1 BY <1>13, <2>1, RecordOne
  <2>4. CASE r = Answer(id)
    <3>1. id = a.id_task BY <1>13, <2>4 DEF Answer
    <3>2. b = Freed(a) BY <1>6, <2>4 DEF Answer, Failure
    <3>3. WorksOn(s, id) BY <1>2, <1>4, <3>1 DEF WorksOn
    <3>4. \A t \in Slots : WorksOn(t, id) => t = s BY <1>3, <3>3 DEF IInv, Placed, Alone
    <3>5. \A t \in Slots : ~WorksOn(t, id)'
      <4> SUFFICES ASSUME NEW t \in Slots, WorksOn(t, id)' PROVE FALSE OBVIOUS
      <4>1. CASE t = s BY <1>7, <1>8, <3>2, <4>1 DEF WorksOn
      <4>2. CASE t # s BY <1>8, <3>4, <4>2 DEF WorksOn
      <4> QED BY <4>1, <4>2
    <3> QED BY <1>3, <2>3, <2>4, <3>3, <3>5 DEF AtWork
  <2> QED BY <2>2, <2>4
<1>20. \A id \in Ids : hand'.id = id <=> hand.id = id BY <1>5
<1>21. Journeys BY <1>3, <1>5, <1>9, <1>18, <1>19, <1>20, WorkEnds DEF IInv
<1>22. \A t \in Slots : slots'[t].state = "PROCESSING" <=> slots[t].state = "PROCESSING"
  BY <1>2, <1>4, <1>7, <1>8
<1>23. RowsOK' BY <1>3, <1>5, <1>9, <1>10, <1>22, RowsKept DEF IInv
<1>24. LoopOK' BY <1>5, <1>10 DEF IInv, LoopOK
<1> QED BY <1>12, <1>15, <1>21, <1>23, <1>24 DEF LoopSound

\* The parts of RowsOK' for the batch named q.
LEMMA RowsFrom ==
    ASSUME NEW q \in Seq(Row), q = batch', loop' \notin {"prompt", "decode"} => q = <<>>,
           \A i, j \in DOMAIN q : Embeds(slots'[q[i].slot]) = Embeds(slots'[q[j].slot]),
           \A i, j \in DOMAIN q : q[i].slot = q[j].slot /\ q[i].logits /\ q[j].logits => i = j,
           \A t \in Slots : slots'[t].state = "PROCESSING" /\ Embeds(slots'[t]) =>
               \E i \in DOMAIN q : q[i].slot = t /\ q[i].logits,
           loop' = "prompt" => \A i \in DOMAIN q :
               q[i].logits => slots'[q[i].slot].state = "PROCESSING"
    PROVE  RowsOK'
<1>1. batch' \in Seq(Row) OBVIOUS
<1> QED BY <1>1 DEF RowsOK

\* The rows a prompt adds to the batch.
LEMMA RowsAdded ==
    ASSUME RowsOK, SlotsOK, loop = "prompt", NEW s \in Slots, NEW b, NEW k \in Nat, NEW done \in BOOLEAN,
           slots[s].state # "PROCESSING", b.id_task = slots[s].id_task,
           slots' = [slots EXCEPT ![s] = b], batch' = batch \o Rows(s, k, done),
           b.state = "PROCESSING" <=> done, Embeds(b) => done /\ k > 0,
           batch = <<>> \/ Embeds(slots[Head(batch).slot]) = Embeds(b),
           loop' \in {"prompt", "wait", "decode"}, loop' = "wait" => batch' = <<>>
    PROVE  RowsOK'
<1>1. PICK r : r = Rows(s, k, done) OBVIOUS
<1>2. r \in Seq(Row) /\ DOMAIN r = 1..k BY <1>1, RowsAre
<1>3. \A i \in 1..k : r[i].slot = s /\ (r[i].logits <=> done /\ i = k) BY <1>1, RowsAre
<1>4. batch \in Seq(Row) /\ \A i \in DOMAIN batch : batch[i].slot \in Slots
  BY RowsHaveSlots DEF RowsOK
<1>5. PICK q : q = batch' OBVIOUS
<1>6. q = batch \o r BY <1>1, <1>5
<1>7. PICK n : n = Len(batch) OBVIOUS
<1>8. /\ n \in Nat /\ DOMAIN batch = 1..n /\ q \in Seq(Row) /\ DOMAIN q = 1..n + k
      /\ \A i \in 1..n + k : i <= n => q[i] = batch[i]
      /\ \A i \in 1..n + k : ~(i <= n) => q[i] = r[i - n]
  <2>1. n \in Nat /\ DOMAIN batch = 1..n BY <1>4, <1>7, RowsHaveSlots
  <2>2. Len(r) = k
    <3>1. Len(r) \in Nat /\ DOMAIN r = 1..Len(r) BY <1>2, RowsHaveSlots
    <3> QED BY <1>2, <3>1
  <2>3. q \in Seq(Row) BY <1>2, <1>4, <1>6, CatIs
  <2>4. Len(q) = n + k BY <1>2, <1>4, <1>6, <1>7, <2>2, ConcatProperties
  <2>5. \A i \in 1..n + k : q[i] = IF i <= n THEN batch[i] ELSE r[i - n]
    BY <1>2, <1>4, <1>6, <1>7, <2>2, ConcatProperties
  <2>6. DOMAIN q = 1..n + k BY <2>3, <2>4, RowsHaveSlots
  <2> QED BY <2>1, <2>3, <2>5, <2>6
<1>9. ASSUME NEW i \in 1..n + k, i <= n
      PROVE  i \in DOMAIN batch /\ q[i] = batch[i] /\ (batch[i].logits => batch[i].slot # s)
  <2>1. i \in DOMAIN batch /\ q[i] = batch[i] BY <1>8, <1>9
  <2> QED BY <2>1 DEF RowsOK
<1>10. ASSUME NEW i \in 1..n + k, ~(i <= n)
       PROVE  q[i].slot = s /\ (q[i].logits <=> done /\ i = n + k)
  <2>0. q[i] = r[i - n] BY <1>8, <1>10
  <2>1. q[i] = r[i - n] /\ i - n \in 1..k BY <1>8, <1>10, <2>0
  <2>2. q[i].slot = s /\ (q[i].logits <=> done /\ i - n = k) BY <1>3, <2>1
  <2> QED BY <1>8, <2>2
<1>11. \A t \in Slots : slots'[t] = IF t = s THEN b ELSE slots[t] BY DEF SlotsOK
<1>12. \A t \in Slots : Embeds(slots'[t]) = Embeds(slots[t]) BY <1>11 DEF Embeds
<1>13. Embeds(b) = Embeds(slots[s]) BY DEF Embeds
<1>14. \A i \in DOMAIN batch : Embeds(slots[batch[i].slot]) = Embeds(slots[s])
  <2> SUFFICES ASSUME NEW i \in DOMAIN batch
               PROVE  Embeds(slots[batch[i].slot]) = Embeds(slots[s])
    OBVIOUS
  <2>1. batch # <<>> /\ 1 \in DOMAIN batch /\ Head(batch) = batch[1] BY <1>4
  <2>2. Embeds(slots[batch[1].slot]) = Embeds(slots[s]) BY <1>13, <2>1
  <2> QED BY <2>1, <2>2 DEF RowsOK
<1>15. \A i \in 1..n + k : q[i].slot \in Slots /\ Embeds(slots'[q[i].slot]) = Embeds(slots[s])
  BY <1>4, <1>9, <1>10, <1>12, <1>14
<1>16. ASSUME NEW i \in 1..n + k, NEW j \in 1..n + k, q[i].slot = q[j].slot, q[i].logits, q[j].logits
       PROVE  i = j
  <2>1. CASE i <= n /\ j <= n
    <3>1. i \in DOMAIN batch /\ j \in DOMAIN batch /\ q[i] = batch[i] /\ q[j] = batch[j]
      BY <1>9, <2>1
    <3> QED BY <1>16, <3>1 DEF RowsOK
  <2>2. CASE ~(i <= n) /\ ~(j <= n)
    BY <1>10, <1>16, <2>2
  <2>3. CASE i <= n /\ ~(j <= n)
    BY <1>9, <1>10, <1>16, <2>3
  <2>4. CASE ~(i <= n) /\ j <= n
    BY <1>9, <1>10, <1>16, <2>4
  <2> QED BY <2>1, <2>2, <2>3, <2>4
<1>17. ASSUME NEW t \in Slots, slots'[t].state = "PROCESSING", Embeds(slots'[t])
       PROVE  \E i \in 1..n + k : q[i].slot = t /\ q[i].logits
  <2>1. CASE t = s
    <3>1. done /\ k > 0 BY <1>11, <1>17, <2>1
    <3>2. n + k \in 1..n + k /\ ~(n + k <= n) BY <1>8, <3>1
    <3> QED BY <1>10, <2>1, <3>1, <3>2
  <2>2. CASE t # s
    <3>1. slots[t].state = "PROCESSING" /\ Embeds(slots[t]) BY <1>11, <1>12, <1>17, <2>2
    <3>2. PICK i \in DOMAIN batch : batch[i].slot = t /\ batch[i].logits BY <3>1 DEF RowsOK
    <3>3. i \in 1..n + k /\ i <= n BY <1>8
    <3> QED BY <1>9, <3>2, <3>3
  <2> QED BY <2>1, <2>2
<1>18. ASSUME NEW i \in 1..n + k, q[i].logits PROVE slots'[q[i].slot].state = "PROCESSING"
  <2>1. CASE i <= n
    <3>1. i \in DOMAIN batch /\ q[i] = batch[i] /\ batch[i].slot # s BY <1>9, <1>18, <2>1
    <3>2. slots[batch[i].slot].state = "PROCESSING" BY <1>18, <3>1 DEF RowsOK
    <3> QED BY <1>4, <1>11, <3>1, <3>2
  <2>2. CASE ~(i <= n)
    BY <1>10, <1>11, <1>18, <2>2
  <2> QED BY <2>1, <2>2
<1>19. /\ \A i, j \in DOMAIN q : Embeds(slots'[q[i].slot]) = Embeds(slots'[q[j].slot])
       /\ \A i, j \in DOMAIN q : q[i].slot = q[j].slot /\ q[i].logits /\ q[j].logits => i = j
       /\ \A t \in Slots : slots'[t].state = "PROCESSING" /\ Embeds(slots'[t]) =>
              \E i \in DOMAIN q : q[i].slot = t /\ q[i].logits
       /\ \A i \in DOMAIN q : q[i].logits => slots'[q[i].slot].state = "PROCESSING"
       /\ q \in Seq(Row)
  BY <1>8, <1>15, <1>16, <1>17, <1>18
<1>20. loop' \notin {"prompt", "decode"} => q = <<>> BY <1>5
<1> QED BY <1>5, <1>19, <1>20, RowsFrom

\* A prompt that fits adds rows, and its slot generates once it is complete.
LEMMA PromptAddsSound ==
    ASSUME IInv, LoopPromptAdds, UNCHANGED clientVars
    PROVE  LoopSound
<1>1. PICK s : s = cursor OBVIOUS
<1>2. PICK o : o = slots[s] OBVIOUS
<1>3. PICK a : a = Seen(o) OBVIOUS
<1>4. /\ loop = "prompt" /\ s \in Slots /\ Loading(o) /\ ~EmptyPrompt(o) /\ SlotsOK /\ RowsOK
      /\ hand = NoTask
  BY <1>1, <1>2 DEF LoopPromptAdds, IInv, LoopOK, HandOK
<1>5. SlotOK(o) BY <1>2, <1>4 DEF SlotsOK
<1>6. /\ SlotStep(o, a) /\ Loading(a) /\ SlotOK(a)
      /\ Embeds(a) => a.n_past = 0 /\ a.n_prompt > 0
  BY <1>3, <1>4, <1>5, SeenIs DEF SlotStep
<1>7. /\ ToPrompts(s) /\ hand' = hand /\ n_batch' = n_batch /\ ctx_shift' = ctx_shift
      /\ stop_internal_decode' = stop_internal_decode /\ QueuesKept /\ Silent
      /\ IF Fits(a) THEN Fill(s, a) ELSE slots' = [slots EXCEPT ![s] = a] /\ batch' = batch
  BY <1>1, <1>2, <1>3 DEF LoopPromptAdds
<1>8. batch \in Seq(Row) BY <1>4 DEF RowsOK
<1>9. o.state # "PROCESSING" /\ IsProcessing(o) BY <1>4 DEF Loading, IsProcessing
<1>10. /\ loop' \in {"prompt", "wait", "decode"} /\ cursor' \in 0..NSlots
       /\ loop' = "prompt" => cursor' \in Slots /\ Loading(slots'[cursor'])
       /\ loop' = "wait" => batch' = <<>>
  BY <1>4, <1>7, ConstantsAre, ToPromptsIs
<1>11. \E b : /\ slots' = [slots EXCEPT ![s] = b] /\ SlotStep(o, b) /\ IsProcessing(b)
              /\ SlotsStep => RowsOK'
  <2>1. CASE Fits(a)
    <3>1. PICK k \in Nat, done \in BOOLEAN : \E b :
              /\ slots' = [slots EXCEPT ![s] = b]
              /\ batch' = batch \o Rows(s, k, done)
              /\ SlotStep(a, b) /\ IsProcessing(b)
              /\ b.state = "PROCESSING" <=> done
              /\ Embeds(a) => done /\ k > 0
      BY <1>4, <1>6, <1>7, <1>8, <2>1, FillIs
    <3>2. PICK b : /\ slots' = [slots EXCEPT ![s] = b]
                   /\ batch' = batch \o Rows(s, k, done)
                   /\ SlotStep(a, b) /\ IsProcessing(b)
                   /\ b.state = "PROCESSING" <=> done
                   /\ Embeds(a) => done /\ k > 0
      BY <3>1
    <3>3. SlotStep(o, b) BY <1>6, <3>2 DEF SlotStep
    <3>4. b.id_task = o.id_task /\ b.id_task = a.id_task BY <1>6, <3>2 DEF SlotStep
    <3>5. Embeds(b) = Embeds(a) BY <3>4 DEF Embeds
    <3>6. batch = <<>> \/ Embeds(slots[Head(batch).slot]) = Embeds(b)
      BY <2>1, <3>5 DEF Fits, RightType
    <3>7. RowsOK' BY <1>2, <1>4, <1>9, <1>10, <3>2, <3>4, <3>5, <3>6, RowsAdded
    <3> QED BY <3>2, <3>3, <3>7
  <2>2. CASE ~Fits(a)
    <3>1. slots' = [slots EXCEPT ![s] = a] /\ batch' = batch BY <1>7, <2>2
    <3>2. IsProcessing(a) /\ a.state # "PROCESSING" BY <1>6 DEF Loading, IsProcessing
    <3>3. \A t \in Slots : slots'[t].state = "PROCESSING" <=> slots[t].state = "PROCESSING"
      BY <1>2, <1>4, <1>9, <3>1, <3>2 DEF SlotsOK
    <3>4. SlotsStep => RowsOK' BY <1>4, <1>10, <3>1, <3>3, RowsKept
    <3> QED BY <1>6, <3>1, <3>2, <3>4
  <2> QED BY <2>1, <2>2
<1>12. PICK b : /\ slots' = [slots EXCEPT ![s] = b] /\ SlotStep(o, b) /\ IsProcessing(b)
                /\ SlotsStep => RowsOK'
  BY <1>11
<1>13. \A t \in Slots : slots'[t] = IF t = s THEN b ELSE slots[t]
  BY <1>4, <1>12 DEF SlotsOK
<1>14. SlotsStep
  <2>1. \A t \in Slots : SlotStep(slots[t], slots'[t])
    BY <1>2, <1>4, <1>12, <1>13, SlotStepRefl DEF SlotsOK
  <2>2. \A t \in Slots : slots'[t] \in Slot BY <2>1 DEF SlotStep, SlotOK
  <2>3. slots' \in [Slots -> Slot] BY <1>4, <1>12, <2>2 DEF SlotsOK
  <2> QED BY <2>1, <2>3 DEF SlotsStep
<1>15. RowsOK' BY <1>12, <1>14
<1>16. NextResponse \in Range(queue_tasks) BY <1>4 DEF IInv, Awake
<1>17. QueuesOK' /\ HandOK' /\ SlotsOK' /\ Awake'
  BY <1>4, <1>7, <1>10, <1>14, <1>16, UpdateKeeps
<1>18. ResultsOK' /\ HistoryOK' /\ ResultsKept /\ finals' = finals
  BY <1>7, SilentIs DEF IInv
<1>19. \A id \in Ids : AtWork(id) => AtWork(id)'
  <2>1. \A id : \A t \in Slots : WorksOn(t, id) => WorksOn(t, id)'
    BY <1>2, <1>9, <1>12, <1>13 DEF WorksOn, SlotStep
  <2> QED BY <2>1 DEF AtWork
<1>20. \A id \in Ids : hand'.id = id <=> hand.id = id BY <1>7
<1>21. Journeys BY <1>4, <1>7, <1>14, <1>18, <1>19, <1>20, WorkEnds DEF IInv
<1>22. LoopOK' BY <1>7, <1>10 DEF IInv, LoopOK
<1> QED BY <1>15, <1>17, <1>18, <1>21, <1>22 DEF LoopSound

\* The rows left after a view of the batch, some of whose slots end.
LEMMA RowsLeft ==
    ASSUME RowsOK, SlotsStep, loop = "decode", NEW m \in Nat, m <= Len(batch),
           batch' = SubSeq(batch, m + 1, Len(batch)),
           \A s \in Slots : slots'[s].state = "PROCESSING" => slots[s].state = "PROCESSING",
           \A s \in Slots : slots'[s].state = "PROCESSING" /\ Embeds(slots[s]) =>
               \A i \in DOMAIN batch : batch[i].slot = s /\ batch[i].logits => i > m,
           loop' = IF batch' = <<>> THEN "wait" ELSE "decode"
    PROVE  RowsOK'
<1>1. PICK n : n = Len(batch) OBVIOUS
<1>2. PICK q : q = batch' OBVIOUS
<1>3. /\ batch \in Seq(Row) /\ n \in Nat /\ DOMAIN batch = 1..n
      /\ \A i \in DOMAIN batch : batch[i] \in Row /\ batch[i].slot \in Slots
  BY <1>1, RowsHaveSlots DEF RowsOK
<1>4. q = SubSeq(batch, m + 1, n) BY <1>1, <1>2
<1>5. q \in Seq(Row) /\ Len(q) = n - m /\ \A i \in 1..n - m : q[i] = batch[m + i]
  <2>1. m + 1 \in Int /\ n \in Int /\ \A i \in m + 1..n : batch[i] \in Row BY <1>3
  <2>2. /\ SubSeq(batch, m + 1, n) \in Seq(Row)
        /\ Len(SubSeq(batch, m + 1, n)) = IF m + 1 <= n THEN n - (m + 1) + 1 ELSE 0
        /\ \A i \in 1..n - (m + 1) + 1 : SubSeq(batch, m + 1, n)[i] = batch[m + 1 + i - 1]
    BY <2>1, SubSeqProperties
  <2>3. n - (m + 1) + 1 = n - m /\ m <= n BY <1>1, <1>3
  <2>4. \A i \in 1..n - m : m + 1 + i - 1 = m + i OBVIOUS
  <2>5. Len(q) = n - m BY <1>3, <1>4, <2>2, <2>3
  <2>6. \A i \in 1..n - m : q[i] = batch[m + i] BY <1>4, <2>2, <2>3, <2>4
  <2> QED BY <1>4, <2>2, <2>5, <2>6
<1>6. DOMAIN q = 1..n - m BY <1>5, RowsHaveSlots
<1>7. \A i \in DOMAIN q : m + i \in DOMAIN batch /\ q[i] = batch[m + i] /\ i \in Nat
  BY <1>1, <1>3, <1>5, <1>6
<1>8. \A s \in Slots : Embeds(slots'[s]) = Embeds(slots[s])
  BY DEF SlotsStep, SlotStep, Embeds
<1>9. \A i, j \in DOMAIN q : Embeds(slots'[q[i].slot]) = Embeds(slots'[q[j].slot])
  BY <1>3, <1>7, <1>8 DEF RowsOK
<1>10. ASSUME NEW i \in DOMAIN q, NEW j \in DOMAIN q, q[i].slot = q[j].slot, q[i].logits, q[j].logits
       PROVE  i = j
  <2>1. m + i = m + j BY <1>7, <1>10 DEF RowsOK
  <2> QED BY <1>7, <2>1
<1>11. ASSUME NEW s \in Slots, slots'[s].state = "PROCESSING", Embeds(slots'[s])
       PROVE  \E i \in DOMAIN q : q[i].slot = s /\ q[i].logits
  <2>1. slots[s].state = "PROCESSING" /\ Embeds(slots[s]) BY <1>8, <1>11
  <2>2. PICK i \in DOMAIN batch : batch[i].slot = s /\ batch[i].logits BY <2>1 DEF RowsOK
  <2>3. i > m /\ i \in Nat /\ i <= n BY <1>3, <1>11, <2>1, <2>2
  <2>4. i - m \in DOMAIN q /\ m + (i - m) = i BY <1>3, <1>6, <2>3
  <2> QED BY <1>7, <2>2, <2>4
<1>12. loop' \in {"wait", "decode"} /\ (loop' = "wait" => q = <<>>) BY <1>2
<1>13. \A i, j \in DOMAIN q : q[i].slot = q[j].slot /\ q[i].logits /\ q[j].logits => i = j
  BY <1>10
<1>14. \A s \in Slots : slots'[s].state = "PROCESSING" /\ Embeds(slots'[s]) =>
           \E i \in DOMAIN q : q[i].slot = s /\ q[i].logits
  BY <1>11
<1>15. q \in Seq(Row) /\ loop' # "prompt" /\ (loop' # "decode" => q = <<>>) BY <1>5, <1>12
<1> QED BY <1>2, <1>9, <1>13, <1>14, <1>15, RowsFrom

\* Each slot of the view goes on or ends, with an answer or an error.
LEMMA DecodeOkSound ==
    ASSUME IInv, LoopDecodeOk, UNCHANGED cursor, UNCHANGED clientVars
    PROVE  LoopSound
<1>1. /\ loop = "decode" /\ batch' = RestOfBatch /\ QueuesKept
      /\ loop' = IF RestOfBatch = <<>> THEN "wait" ELSE "decode"
      /\ UNCHANGED <<hand, n_batch, ctx_shift, stop_internal_decode>>
  BY DEF LoopDecodeOk
<1>2. SlotsOK /\ RowsOK /\ hand = NoTask BY <1>1 DEF IInv, HandOK
<1>3. PICK how \in [InView -> {"token", "final", "error"}] :
          LET ended == {s \in InView : how[s] # "token"}
          IN  /\ \A s \in InView : how[s] \in Outcomes(s)
              /\ slots' = [s \in Slots |-> IF s \in InView THEN Sampled(slots[s], how[s])
                                                          ELSE slots[s]]
              /\ Respond([i \in 1..Cardinality(ended) |->
                    LET s == InOrder(ended)[i]
                    IN  [id |-> slots[s].id_task, error |-> how[s] = "error"]])
  BY DEF LoopDecodeOk
<1>4. PICK E : E = {s \in InView : how[s] # "token"} OBVIOUS
<1>5. PICK n : n = Cardinality(E) OBVIOUS
<1>6. PICK o : o = InOrder(E) OBVIOUS
<1>7. PICK r : r = [i \in 1..n |-> [id |-> slots[o[i]].id_task, error |-> how[o[i]] = "error"]]
  OBVIOUS
<1>8. /\ \A s \in InView : how[s] \in Outcomes(s)
      /\ slots' = [s \in Slots |-> IF s \in InView THEN Sampled(slots[s], how[s]) ELSE slots[s]]
      /\ Respond(r)
  BY <1>3, <1>4, <1>5, <1>6, <1>7
<1>9. \A s \in InView : s \in Slots /\ slots[s].state = "PROCESSING"
  BY DEF InView, Generating
<1>10. \A s \in Slots : slots'[s] = IF s \in InView THEN Sampled(slots[s], how[s]) ELSE slots[s]
  BY <1>8
<1>11. SlotsStep
  <2>1. \A s \in Slots : SlotStep(slots[s], slots'[s])
    BY <1>2, <1>10, SampledIs, SlotStepRefl DEF SlotsOK
  <2>2. \A s \in Slots : slots'[s] \in Slot BY <2>1 DEF SlotStep, SlotOK
  <2>3. slots' \in [Slots -> Slot] BY <1>8, <2>2
  <2> QED BY <2>1, <2>3 DEF SlotsStep
<1>12. NextResponse \in Range(queue_tasks) BY <1>1 DEF IInv, Awake
<1>13. QueuesOK' /\ HandOK' /\ SlotsOK' /\ Awake'
  BY <1>1, <1>2, <1>11, <1>12, UpdateKeeps
<1>14. \A s \in E : s \in Slots /\ s \in InView /\ how[s] # "token" /\ slots[s].state = "PROCESSING"
  BY <1>4, <1>9
<1>15. \A s \in Slots : slots[s].state = "PROCESSING" =>
           IsProcessing(slots[s]) /\ slots[s].id_task \in Ids
  BY <1>2 DEF SlotsOK, SlotOK, IsProcessing
<1>16. \A s \in E : ~IsProcessing(slots'[s])
  BY <1>2, <1>10, <1>14, SampledIs, ReleaseIs DEF SlotsOK
<1>17. n \in Nat /\ \A i \in 1..n : o[i] \in E BY <1>5, <1>6, <1>14, InOrderIs
<1>18. \A i, j \in 1..n : o[i] = o[j] => i = j BY <1>5, <1>6, <1>14, InOrderIs
<1>19. \A s \in E : \E i \in 1..n : o[i] = s BY <1>5, <1>6, <1>14, InOrderIs
<1>20. ASSUME NEW i \in 1..n
       PROVE  r[i] \in Result /\ r[i].id = slots[o[i]].id_task
  <2>1. PICK e \in BOOLEAN : e = (how[o[i]] = "error") OBVIOUS
  <2>2. r[i] = [id |-> slots[o[i]].id_task, error |-> e] BY <1>7, <2>1
  <2>3. slots[o[i]].id_task \in Ids BY <1>14, <1>15, <1>17
  <2> QED BY <2>2, <2>3 DEF Result
<1>21. DOMAIN r = 1..n BY <1>7
<1>22. r \in Seq(Result)
  <2>1. r = [i \in 1..n |-> r[i]] BY <1>7
  <2> QED BY <1>17, <1>20, <1>21, <2>1
<1>23. /\ ResultsOK' /\ HistoryOK' /\ ResultsKept
       /\ \A x \in Range(r) : x.id \in waiting_task_ids => InSeq(queue_results', x.id)
  BY <1>8, <1>22, RespondIs DEF IInv
<1>24. ASSUME NEW id \in Ids, AtWork(id), ~AtWork(id)' PROVE Told(id)
  <2>1. PICK s \in Slots : WorksOn(s, id) BY <1>24 DEF AtWork
  <2>2. ~WorksOn(s, id)' BY <1>24 DEF AtWork
  <2>3. slots'[s].id_task = slots[s].id_task BY <1>11 DEF SlotsStep, SlotStep
  <2>4. IsProcessing(slots[s]) /\ ~IsProcessing(slots'[s]) /\ slots[s].id_task = id
    BY <2>1, <2>2, <2>3 DEF WorksOn
  <2>5. s \in InView BY <1>10, <2>4
  <2>6. how[s] # "token"
    <3>1. ASSUME how[s] = "token" PROVE FALSE
      <4>1. slots'[s].state = "PROCESSING"
        BY <1>2, <1>9, <1>10, <2>5, <3>1, SampledIs DEF SlotsOK
      <4> QED BY <2>4, <4>1 DEF IsProcessing
    <3> QED BY <3>1
  <2>7. PICK i \in 1..n : o[i] = s BY <1>4, <1>19, <2>5, <2>6
  <2>8. r[i] \in Range(r) /\ r[i].id = id BY <1>20, <1>21, <2>4, <2>7 DEF Range
  <2> QED BY <1>23, <2>8, ReaderWaitsIs DEF Told
<1>25. ASSUME NEW id \in Ids
       PROVE  \/ finals'[id] = finals[id]
              \/ finals'[id] = finals[id] + 1 /\ AtWork(id) /\ ~AtWork(id)'
  <2>1. Record(r) /\ finals \in [Ids -> Nat] BY <1>8 DEF Respond, IInv, HistoryOK
  <2>2. CASE \A i \in DOMAIN r : r[i] # Answer(id)
    BY <1>22, <2>1, <2>2, RecordIs
  <2>3. CASE \E i \in DOMAIN r : r[i] = Answer(id)
    <3>1. PICK i \in 1..n : r[i] = Answer(id) BY <1>21, <2>3
    <3>2. \A j \in 1..n : r[j] = Answer(id) => o[j] \in E /\ WorksOn(o[j], id)
      BY <1>14, <1>15, <1>17, <1>20, ResultsAre DEF WorksOn
    <3>3. \A s, t \in Slots : WorksOn(s, id) /\ WorksOn(t, id) => s = t
      BY DEF IInv, Placed, Alone
    <3>4. \A j \in 1..n : r[j] = Answer(id) => j = i
      BY <1>14, <1>18, <3>1, <3>2, <3>3
    <3>5. OneAnswer(r, id)
      <4>1. Answers(r, id) = {i} BY <1>21, <3>1, <3>4 DEF Answers
      <4> QED BY <1>21, <4>1 DEF OneAnswer
    <3>6. finals'[id] = finals[id] + 1 BY <1>22, <2>1, <3>5, RecordIs
    <3>7. WorksOn(o[i], id) /\ o[i] \in Slots /\ o[i] \in E BY <1>14, <3>1, <3>2
    <3>8. \A t \in Slots : WorksOn(t, id)' => WorksOn(t, id) BY <1>11 DEF SlotsStep, SlotStep, WorksOn
    <3>9. \A t \in Slots : ~WorksOn(t, id)'
      <4> SUFFICES ASSUME NEW t \in Slots, WorksOn(t, id)' PROVE FALSE OBVIOUS
      <4>1. t = o[i] BY <3>3, <3>7, <3>8
      <4> QED BY <1>16, <3>7, <4>1 DEF WorksOn
    <3> QED BY <3>6, <3>7, <3>9 DEF AtWork
  <2> QED BY <2>2, <2>3
<1>26. \A id \in Ids : hand'.id = id <=> hand.id = id BY <1>1
<1>27. Journeys BY <1>1, <1>2, <1>11, <1>24, <1>25, <1>26, WorkEnds DEF IInv
<1>28. RowsOK'
  <2>1. PICK m : m = Min({n_batch, Len(batch)}) OBVIOUS
  <2>2. n_batch \in Nat /\ Len(batch) \in Nat
    <3>1. n_batch \in Nat BY ConstantsAre DEF IInv, LoopOK
    <3> QED BY <1>2, <3>1, RowsHaveSlots DEF RowsOK
  <2>3. m \in Nat /\ m <= Len(batch)
    <3>1. PICK N : N = {n_batch, Len(batch)} OBVIOUS
    <3>2. \A x \in N : x \in Nat BY <2>2, <3>1
    <3>3. Min(N) \in N /\ \A x \in N : Min(N) <= x BY <3>1, <3>2, MinIs
    <3> QED BY <2>1, <3>1, <3>2, <3>3
  <2>4. Len(View) = m /\ \A i \in 1..m : View[i] = batch[i]
    <3>1. batch \in Seq(Row) /\ DOMAIN batch = 1..Len(batch)
          /\ \A i \in DOMAIN batch : batch[i] \in Row
      BY <1>2, RowsHaveSlots DEF RowsOK
    <3>2. \A i \in 1..m : batch[i] \in Row BY <2>2, <2>3, <3>1
    <3>3. View = SubSeq(batch, 1, m) BY <2>1 DEF View
    <3>4. /\ Len(SubSeq(batch, 1, m)) = IF 1 <= m THEN m - 1 + 1 ELSE 0
          /\ \A i \in 1..m - 1 + 1 : SubSeq(batch, 1, m)[i] = batch[1 + i - 1]
      BY <2>3, <3>2, SubSeqProperties
    <3>5. (IF 1 <= m THEN m - 1 + 1 ELSE 0) = m /\ m - 1 + 1 = m BY <2>3
    <3>6. \A i \in 1..m : 1 + i - 1 = i OBVIOUS
    <3>7. Len(View) = m BY <3>3, <3>4, <3>5
    <3>8. \A i \in 1..m : View[i] = batch[i] BY <3>3, <3>4, <3>5, <3>6
    <3> QED BY <3>7, <3>8
  <2>5. DOMAIN View = 1..m
    <3>1. View = SubSeq(batch, 1, m) BY <2>1 DEF View
    <3>2. View = [i \in 1..m - 1 + 1 |-> batch[1 + i - 1]] BY <2>3, <3>1
    <3> QED BY <2>3, <3>2
  <2>6. batch' = SubSeq(batch, m + 1, Len(batch)) BY <1>1, <2>4 DEF RestOfBatch
  <2>7. ASSUME NEW s \in Slots
        PROVE  slots'[s].state = "PROCESSING" => slots[s].state = "PROCESSING"
    BY <1>2, <1>10, SampledIs DEF SlotsOK
  <2>8. ASSUME NEW s \in Slots, slots'[s].state = "PROCESSING", Embeds(slots[s]),
               NEW i \in DOMAIN batch, batch[i].slot = s, batch[i].logits
        PROVE  i > m
    <3>1. SUFFICES ASSUME ~(i > m) PROVE FALSE OBVIOUS
    <3>2. i \in 1..Len(batch) BY <1>2, RowsHaveSlots DEF RowsOK
    <3>3. i \in 1..m BY <2>2, <2>3, <3>1, <3>2
    <3>4. s \in InView BY <2>4, <2>5, <2>7, <2>8, <3>3 DEF InView, Generating
    <3>5. how[s] = "final" BY <1>8, <2>8, <3>4 DEF Outcomes
    <3>6. slots'[s] = Release(slots[s]) BY <1>2, <1>10, <3>4, <3>5, SampledIs DEF SlotsOK
    <3>7. slots'[s].state # "PROCESSING" BY <1>2, <3>6, ReleaseIs DEF SlotsOK
    <3> QED BY <2>8, <3>7
  <2>9. loop' = IF batch' = <<>> THEN "wait" ELSE "decode" BY <1>1
  <2> QED BY <1>1, <1>2, <1>11, <2>3, <2>6, <2>7, <2>8, <2>9, RowsLeft
<1>29. LoopOK' BY <1>1 DEF IInv, LoopOK
<1> QED BY <1>13, <1>23, <1>27, <1>28, <1>29 DEF LoopSound

\* A failed decode ends the work of every slot, with an error or dropped.
LEMMA DecodeFailSound ==
    ASSUME IInv, LoopDecodeFail, UNCHANGED cursor, UNCHANGED clientVars
    PROVE  LoopSound
<1>1. PICK F : F = {s \in Slots : slots[s].id_task \in Ids} OBVIOUS
<1>2. /\ loop = "decode" /\ loop' = "wait" /\ batch' = <<>> /\ QueuesKept
      /\ slots' = [s \in Slots |-> Freed(slots[s])] /\ stop_internal_decode' = FALSE
      /\ UNCHANGED <<hand, n_batch, ctx_shift>>
  BY DEF LoopDecodeFail
<1>3. \/ /\ dropped' = dropped \cup {slots[s].id_task : s \in Working}
         /\ UNCHANGED <<waiting_task_ids, resultQueues, finals>>
      \/ Respond(ErrorsOf(F))
  BY <1>1 DEF LoopDecodeFail
<1>4. SlotsOK /\ hand = NoTask BY <1>2 DEF IInv, HandOK
<1>5. \A s \in Slots : /\ SlotStep(slots[s], slots'[s]) /\ slots'[s].state # "PROCESSING"
                       /\ slots'[s] \in Slot
  <2>1. \A s \in Slots : slots'[s] = Freed(slots[s]) BY <1>2
  <2> QED BY <1>4, <2>1, FreedIs DEF SlotsOK, SlotStep, SlotOK
<1>6. SlotsStep
  <2>1. slots' \in [Slots -> Slot] BY <1>2, <1>5
  <2> QED BY <1>5, <2>1 DEF SlotsStep
<1>7. NextResponse \in Range(queue_tasks) BY <1>2 DEF IInv, Awake
<1>8. QueuesOK' /\ HandOK' /\ SlotsOK' /\ Awake'
  BY <1>2, <1>4, <1>6, <1>7, UpdateKeeps
<1>9. \A id : \A s \in Slots : WorksOn(s, id) => s \in F /\ s \in Working
  BY <1>1, <1>4 DEF SlotsOK, SlotOK, WorksOn, Working
<1>10. /\ ResultsOK' /\ HistoryOK' /\ ResultsKept
       /\ \A id \in Ids : finals'[id] = finals[id]
       /\ \A id \in Ids : AtWork(id) => Told(id)
  <2>1. CASE /\ dropped' = dropped \cup {slots[s].id_task : s \in Working}
             /\ UNCHANGED <<waiting_task_ids, resultQueues, finals>>
    <3>1. dropped' \subseteq Ids
      BY <1>4, <2>1 DEF IInv, HistoryOK, Working, SlotsOK, SlotOK
    <3>2. \A id \in Ids : AtWork(id) => id \in dropped'
      BY <1>9, <2>1 DEF AtWork, WorksOn
    <3>3. ResultsOK' BY <2>1 DEF IInv, ResultsOK, resultQueues
    <3>4. HistoryOK' BY <2>1, <3>1 DEF IInv, HistoryOK
    <3>5. ResultsKept BY <2>1 DEF ResultsKept, resultQueues
    <3> QED BY <2>1, <3>2, <3>3, <3>4, <3>5 DEF Told
  <2>2. CASE Respond(ErrorsOf(F))
    <3>1. PICK r : r = ErrorsOf(F) OBVIOUS
    <3>2. /\ r \in Seq(Result) /\ \A i \in DOMAIN r : \A id : r[i] # Answer(id)
          /\ \A s \in F : InSeq(r, slots[s].id_task)
      BY <1>1, <1>4, <3>1, ErrorsAre
    <3>3. Respond(r) BY <2>2, <3>1
    <3>4. /\ ResultsOK' /\ HistoryOK' /\ ResultsKept
          /\ \A id \in Ids : finals'[id] = finals[id]
          /\ \A id \in waiting_task_ids : InSeq(r, id) => InSeq(queue_results', id)
      BY <3>2, <3>3, ErrorsSent DEF IInv
    <3>5. \A id \in Ids : AtWork(id) => InSeq(r, id)
      BY <1>9, <3>2 DEF AtWork, WorksOn
    <3> QED BY <3>4, <3>5, ReaderWaitsIs DEF Told
  <2> QED BY <1>3, <2>1, <2>2
<1>11. \A id \in Ids : hand'.id = id <=> hand.id = id BY <1>2
<1>12. Journeys BY <1>2, <1>4, <1>6, <1>10, <1>11, WorkEnds DEF IInv
<1>13. RowsOK'
  <2>1. batch' \in Seq(Row) /\ DOMAIN batch' = {} BY <1>2, EmptyIs
  <2> QED BY <1>2, <1>5, <2>1 DEF RowsOK
<1>14. LoopOK' BY <1>2 DEF IInv, LoopOK
<1> QED BY <1>8, <1>10, <1>12, <1>13, <1>14 DEF LoopSound

\* start_loop takes the front of the queue in hand.
LEMMA PopSound ==
    ASSUME IInv, LoopPop, UNCHANGED cursor, UNCHANGED clientVars
    PROVE  LoopSound
<1>1. /\ loop \in {"wait", "pop"} /\ queue_tasks # <<>> /\ loop' = "handle"
      /\ hand' = Head(queue_tasks) /\ queue_tasks' = Tail(queue_tasks)
      /\ queue_tasks_deferred' = queue_tasks_deferred /\ Silent
      /\ UNCHANGED <<slots, batch, n_batch, ctx_shift, stop_internal_decode>>
  BY DEF LoopPop, SlotsKept, slotVars
<1>2. PICK q \in Seq(Task) : q = queue_tasks BY DEF IInv, QueuesOK
<1>3. hand = NoTask /\ batch = <<>> BY <1>1 DEF IInv, HandOK, RowsOK
<1>4. /\ Tail(q) \in Seq(Task) /\ Head(q) \in Range(q)
      /\ \A x \in Range(Tail(q)) : x \in Range(q)
      /\ \A x \in Range(q) : x = Head(q) \/ x \in Range(Tail(q))
  BY <1>1, <1>2, TailIs
<1>5. \A id : Once(q, id) => Once(Tail(q), id) /\ ~(Head(q).id = id /\ InSeq(Tail(q), id))
  BY <1>1, <1>2, TailIs
<1>6. ResultsOK' /\ HistoryOK' /\ ResultsKept /\ finals' = finals
  BY <1>1, SilentIs DEF IInv
<1>7. \A t : TaskOK(t) => TaskOK(t)' BY TasksKept DEF clientVars
<1>8. QueuesOK' BY <1>1, <1>2, <1>4, <1>7 DEF IInv, QueuesOK
<1>9. HandOK'
  <2>1. TaskOK(Head(q)) BY <1>2, <1>4 DEF IInv, QueuesOK
  <2> QED BY <1>1, <1>2, <1>7, <2>1 DEF HandOK
<1>10. SlotsOK' BY <1>1 DEF IInv, SlotsOK
<1>11. LoopOK' BY <1>1 DEF IInv, LoopOK
<1>12. RowsOK' BY <1>1, <1>3, NoRows DEF IInv
<1>13. Awake'
  <2>1. \A t : NoneFor(t) => NoneFor(t)' BY <1>1 DEF NoneFor
  <2> QED BY <1>1, <2>1 DEF IInv, Awake
<1>14. Journeys
  <2> SUFFICES ASSUME NEW id \in Ids PROVE Journey(id) BY DEF Journeys
  <2>1. Alone(id) /\ ~(hand.id = id) BY <1>3, NoTaskOK DEF IInv, Placed
  <2>2. InSeq(q, id) <=> Head(q).id = id \/ InSeq(Tail(q), id) BY <1>4 DEF InSeq
  <2>3. Once(q, id) /\ Once(queue_tasks_deferred, id)
        /\ ~(InSeq(q, id) /\ InSeq(queue_tasks_deferred, id))
    BY <1>2, <2>1 DEF Alone
  <2>4. /\ Once(queue_tasks', id) /\ Once(queue_tasks_deferred', id)
        /\ ~(InSeq(queue_tasks', id) /\ InSeq(queue_tasks_deferred', id))
        /\ ~(InSeq(queue_tasks', id) /\ hand'.id = id)
        /\ ~(InSeq(queue_tasks_deferred', id) /\ hand'.id = id)
    BY <1>1, <1>2, <1>5, <2>2, <2>3
  <2>5. Waits(id)' <=> Waits(id) BY <1>1, <1>2, <2>1, <2>2 DEF Waits
  <2>6. \A s \in Slots : WorksOn(s, id)' <=> WorksOn(s, id) BY <1>1 DEF WorksOn
  <2> QED BY <1>6, <2>4, <2>5, <2>6, TaskMoves DEF IInv
<1> QED BY <1>6, <1>8, <1>9, <1>10, <1>11, <1>12, <1>13, <1>14 DEF LoopSound

\* No slot for the task: it is deferred, and none of its slots is available.
LEMMA DeferSound ==
    ASSUME IInv, HandleDefer, UNCHANGED cursor, UNCHANGED clientVars
    PROVE  LoopSound
<1>1. /\ TaskOK(hand) /\ hand.id \in Ids /\ hand' = NoTask /\ loop = "handle"
      /\ loop' = "pop" /\ batch = <<>>
  BY HandledIs DEF HandleDefer
<1>2. /\ Candidates = {} /\ (IsReaderTask(hand.id) \/ hand.id_slot \in Slots)
      /\ queue_tasks_deferred' = Append(queue_tasks_deferred, hand) /\ queue_tasks' = queue_tasks
      /\ UNCHANGED <<slots, batch, n_batch, ctx_shift, stop_internal_decode>> /\ Silent
  BY DEF HandleDefer, Defer, SlotsKept, slotVars
<1>3. PICK d \in Seq(Task) : d = queue_tasks_deferred BY DEF IInv, QueuesOK
<1>4. PICK h \in Task : h = hand BY <1>1 DEF TaskOK
<1>5. Append(d, h) \in Seq(Task) /\ Range(Append(d, h)) = Range(d) \cup {h} BY AppendIs
<1>6. \A id : InSeq(Append(d, h), id) <=> InSeq(d, id) \/ h.id = id BY AppendIs
<1>7. \A id : Once(d, id) /\ ~(InSeq(d, id) /\ h.id = id) => Once(Append(d, h), id) BY AppendIs
<1>8. queue_tasks_deferred' = Append(d, h) BY <1>2, <1>3, <1>4
<1>9. ResultsOK' /\ HistoryOK' /\ ResultsKept /\ finals' = finals
  BY <1>2, SilentIs DEF IInv
<1>10. \A t : TaskOK(t) => TaskOK(t)' BY TasksKept DEF clientVars
<1>11. QueuesOK' BY <1>1, <1>2, <1>3, <1>4, <1>5, <1>8, <1>10 DEF IInv, QueuesOK
<1>12. HandOK' BY <1>1, <1>10, NoTaskOK DEF HandOK
<1>13. SlotsOK' BY <1>2 DEF IInv, SlotsOK
<1>14. LoopOK' BY <1>1, <1>2 DEF IInv, LoopOK
<1>15. RowsOK' BY <1>1, <1>2, NoRows DEF IInv
<1>16. Awake'
  <2>1. \A t : NoneFor(t) => NoneFor(t)' BY <1>2 DEF NoneFor
  <2>2. NoneFor(h)
    <3>1. \A s \in Slots : Available(slots[s]) => h.id_slot # AnySlot /\ h.id_slot # s
      BY <1>2, <1>4 DEF Candidates
    <3> QED BY <3>1 DEF NoneFor
  <2> QED BY <1>1, <1>3, <1>5, <1>8, <2>1, <2>2 DEF IInv, Awake
<1>17. Journeys
  <2> SUFFICES ASSUME NEW id \in Ids PROVE Journey(id) BY DEF Journeys
  <2>1. Alone(id) /\ ~(hand'.id = id) BY <1>1, NoTaskOK DEF IInv, Placed
  <2>2. /\ Once(queue_tasks, id) /\ Once(d, id) /\ ~(InSeq(queue_tasks, id) /\ InSeq(d, id))
        /\ ~(InSeq(queue_tasks, id) /\ h.id = id) /\ ~(InSeq(d, id) /\ h.id = id)
    BY <1>3, <1>4, <2>1 DEF Alone
  <2>3. /\ Once(queue_tasks', id) /\ Once(queue_tasks_deferred', id)
        /\ ~(InSeq(queue_tasks', id) /\ InSeq(queue_tasks_deferred', id))
    BY <1>2, <1>6, <1>7, <1>8, <2>2
  <2>4. Waits(id)' <=> Waits(id) BY <1>2, <1>3, <1>4, <1>6, <1>8, <2>1 DEF Waits
  <2>5. \A s \in Slots : WorksOn(s, id)' <=> WorksOn(s, id) BY <1>2 DEF WorksOn
  <2> QED BY <1>9, <2>1, <2>3, <2>4, <2>5, TaskMoves DEF IInv
<1> QED BY <1>9, <1>11, <1>12, <1>13, <1>14, <1>15, <1>16, <1>17 DEF LoopSound

\* release_slots makes the released slots available and changes no other.
LEMMA ReleasedIs ==
    ASSUME SlotsOK, NEW s \in Slots
    PROVE  /\ SlotOK(ReleaseSlots[s]) /\ ReleaseSlots[s].id_task = slots[s].id_task
           /\ IsProcessing(ReleaseSlots[s]) <=> IsProcessing(slots[s])
           /\ ReleaseSlots[s].state = slots[s].state
           /\ s \notin Released => ReleaseSlots[s] = slots[s]
<1>1. PICK a : a = slots[s] OBVIOUS
<1>2. SlotOK(a) /\ a \in Slot BY <1>1 DEF SlotsOK, SlotOK
<1>3. CASE s \notin Released
  BY <1>1, <1>2, <1>3 DEF ReleaseSlots
<1>4. CASE s \in Released
  <2>1. a.command = "RELEASE" BY <1>1, <1>4 DEF Released
  <2>2. PICK b : b = [a EXCEPT !.command = "NONE"] OBVIOUS
  <2>3. b \in Slot /\ b.state = a.state /\ b.command = "NONE" /\ b.id_task = a.id_task
    BY <1>2, <2>2 DEF Slot
  <2>4. a.state # "PROCESSING" /\ ~IsProcessing(a) /\ ~IsProcessing(b) /\ ~Loading(b)
    BY <1>2, <2>1, <2>3 DEF SlotOK, IsProcessing, Loading
  <2>5. SlotOK(b) BY <2>3, <2>4 DEF SlotOK
  <2>6. ReleaseSlots[s] = b BY <1>1, <1>4, <2>2 DEF ReleaseSlots
  <2> QED BY <1>1, <1>4, <2>3, <2>4, <2>5, <2>6
<1> QED BY <1>3, <1>4

\* Released slots become available, and the deferred tasks come back.
LEMMA ReleaseSlotsSound ==
    ASSUME IInv, LoopReleaseSlots, UNCHANGED cursor, UNCHANGED clientVars
    PROVE  LoopSound
<1>1. PICK idle \in BOOLEAN : idle <=> \A s \in Slots : Available(ReleaseSlots[s]) OBVIOUS
<1>2. PICK more : more = IF idle THEN <<>> ELSE Follow OBVIOUS
<1>3. PICK woken : woken = Woken(Released # {}) OBVIOUS
<1>4. /\ loop = "pop" /\ queue_tasks = <<>> /\ slots' = ReleaseSlots
      /\ loop' = (IF idle THEN "wait" ELSE "batch") /\ Silent
      /\ UNCHANGED <<hand, batch, n_batch, ctx_shift, stop_internal_decode>>
      /\ NotifyAndPost(Released # {}, more)
  BY <1>1, <1>2 DEF LoopReleaseSlots
<1>5. hand = NoTask /\ batch = <<>> /\ SlotsOK BY <1>4 DEF IInv, HandOK, RowsOK
<1>6. NextResponse \in Task /\ NextResponse.id \notin Ids /\ TaskOK(NextResponse)
  BY NoTaskOK DEF NoTask, TaskOK
<1>7. /\ more \in Seq(Task) /\ \A x \in Range(more) : x = NextResponse
      /\ ~idle => NextResponse \in Range(more)
      /\ \A id \in Ids : ~InSeq(more, id) /\ Once(more, id)
  <2>1. CASE idle
    <3>1. more = <<>> BY <1>2, <2>1
    <3> QED BY <2>1, <3>1, EmptyIs
  <2>2. CASE ~idle
    <3>1. more = <<NextResponse>> BY <1>2, <2>2 DEF Follow
    <3> QED BY <1>6, <3>1, OneIs
  <2> QED BY <2>1, <2>2
<1>8. PICK d \in Seq(Task) : d = queue_tasks_deferred BY DEF IInv, QueuesOK
<1>9. /\ woken \in Seq(Task) /\ queue_tasks_deferred' \in Seq(Task)
      /\ \/ woken = d /\ queue_tasks_deferred' = <<>>
         \/ woken = <<>> /\ queue_tasks_deferred' = d /\ Released = {}
  BY <1>3, <1>4, <1>8, EmptyIs DEF NotifyAndPost, Woken, StillDeferred
<1>10. queue_tasks' = woken \o more
  <2>1. queue_tasks' = queue_tasks \o woken \o more BY <1>3, <1>4 DEF NotifyAndPost
  <2>2. queue_tasks \o woken = woken BY <1>4, <1>9, ConcatEmptySeq
  <2> QED BY <2>1, <2>2
<1>11. queue_tasks' \in Seq(Task) /\ Range(queue_tasks') = Range(woken) \cup Range(more)
  BY <1>7, <1>9, <1>10, CatIs
<1>12. \A id : InSeq(queue_tasks', id) <=> InSeq(woken, id) \/ InSeq(more, id)
  BY <1>7, <1>9, <1>10, CatIs
<1>13. \A id : Once(woken, id) /\ Once(more, id) /\ ~(InSeq(woken, id) /\ InSeq(more, id))
                   => Once(queue_tasks', id)
  BY <1>7, <1>9, <1>10, CatIs
<1>14. ResultsOK' /\ HistoryOK' /\ ResultsKept /\ finals' = finals
  BY <1>4, SilentIs DEF IInv
<1>15. \A t : TaskOK(t) => TaskOK(t)' BY TasksKept DEF clientVars
<1>16. QueuesOK'
  <2>1. \A t \in Range(d) : TaskOK(t) /\ t.id \in Ids BY <1>8 DEF IInv, QueuesOK
  <2>2. \A t \in Range(queue_tasks_deferred') : TaskOK(t) /\ t.id \in Ids
    BY <1>9, <2>1, EmptyIs
  <2>3. \A t \in Range(queue_tasks') : TaskOK(t) BY <1>6, <1>7, <1>9, <1>11, <2>1, EmptyIs
  <2> QED BY <1>9, <1>11, <1>15, <2>2, <2>3 DEF QueuesOK
<1>17. HandOK' BY <1>4, <1>5, <1>15, NoTaskOK DEF HandOK
<1>18. SlotsOK'
  <2>1. \A s \in Slots : SlotOK(slots'[s]) /\ slots'[s] \in Slot BY <1>4, <1>5, ReleasedIs DEF SlotOK
  <2>2. slots' = [s \in Slots |-> slots'[s]] BY <1>4 DEF ReleaseSlots
  <2>3. slots' \in [Slots -> Slot] BY <2>1, <2>2
  <2> QED BY <2>1, <2>3 DEF SlotsOK
<1>19. LoopOK' BY <1>4 DEF IInv, LoopOK
<1>20. RowsOK'
  <2>1. \A s \in Slots : slots'[s].state = slots[s].state /\ slots'[s].id_task = slots[s].id_task
    BY <1>4, <1>5, ReleasedIs
  <2> QED BY <1>4, <1>5, <2>1, NoRows DEF IInv
<1>21. Awake'
  <2>1. \A t \in Range(queue_tasks_deferred') : NoneFor(t)'
    <3>1. CASE queue_tasks_deferred' = <<>> BY <3>1, EmptyIs
    <3>2. CASE queue_tasks_deferred' = d /\ Released = {}
      <4>1. \A s \in Slots : slots'[s] = slots[s] BY <1>4, <1>5, <3>2, ReleasedIs
      <4>2. \A t \in Range(d) : NoneFor(t) BY <1>8 DEF IInv, Awake
      <4> QED BY <3>2, <4>1, <4>2 DEF NoneFor
    <3> QED BY <1>9, <3>1, <3>2
  <2>2. CASE idle
    <3>1. SlotsIdle' BY <1>1, <1>4, <2>2 DEF SlotsIdle
    <3> QED BY <1>4, <2>1, <2>2, <3>1 DEF Awake
  <2>3. CASE ~idle
    <3>1. NextResponse \in Range(queue_tasks') BY <1>7, <1>11, <2>3
    <3> QED BY <1>4, <2>1, <2>3, <3>1 DEF Awake
  <2> QED BY <2>2, <2>3
<1>22. Journeys
  <2> SUFFICES ASSUME NEW id \in Ids PROVE Journey(id) BY DEF Journeys
  <2>1. Alone(id) /\ ~(hand.id = id) BY <1>5, NoTaskOK DEF IInv, Placed
  <2>2. Once(d, id) /\ ~InSeq(more, id) /\ Once(more, id) BY <1>7, <1>8, <2>1 DEF Alone
  <2>3. ~InSeq(queue_tasks, id) BY <1>4, EmptyIs
  <2>4. /\ Once(queue_tasks', id) /\ Once(queue_tasks_deferred', id)
        /\ ~(InSeq(queue_tasks', id) /\ InSeq(queue_tasks_deferred', id))
        /\ InSeq(queue_tasks', id) \/ InSeq(queue_tasks_deferred', id) <=> InSeq(d, id)
    BY <1>9, <1>12, <1>13, <2>2, EmptyIs
  <2>5. Waits(id)' <=> Waits(id) BY <1>4, <1>8, <2>1, <2>3, <2>4 DEF Waits
  <2>6. \A s \in Slots : WorksOn(s, id)' <=> WorksOn(s, id) BY <1>4, <1>5, ReleasedIs DEF WorksOn
  <2> QED BY <1>4, <1>14, <2>1, <2>4, <2>5, <2>6, TaskMoves DEF IInv
<1> QED BY <1>14, <1>16, <1>17, <1>18, <1>19, <1>20, <1>21, <1>22 DEF LoopSound

\* A task answered or refused by the loop itself.
LEMMA HandEnds ==
    ASSUME IInv, loop = "handle", hand.id \in Ids, hand' = NoTask, QueuesKept, slots' = slots,
           \A id \in Ids : \/ finals'[id] = finals[id]
                           \/ id = hand.id /\ finals'[id] = finals[id] + 1,
           Told(hand.id)
    PROVE  Journeys
<1> SUFFICES ASSUME NEW id \in Ids PROVE Journey(id) BY DEF Journeys
<1>1. queue_tasks' = queue_tasks /\ queue_tasks_deferred' = queue_tasks_deferred
  BY DEF QueuesKept, taskQueues
<1>2. Alone(id) /\ hand'.id # id BY NoTaskOK DEF IInv, Placed
<1>3. AtWork(id)' <=> AtWork(id) BY DEF AtWork, WorksOn
<1>4. Alone(id)' BY <1>1, <1>2, <1>3 DEF Alone, WorksOn, Waits
<1>5. CASE hand.id = id
  <2>1. ~Waits(id)' /\ Waits(id) /\ ~AtWork(id)' BY <1>1, <1>2, <1>3, <1>5 DEF Alone, Waits
  <2> QED BY <1>4, <1>5, <2>1 DEF Journey
<1>6. CASE hand.id # id
  <2>1. Waits(id)' <=> Waits(id) BY <1>1, <1>2, <1>6 DEF Waits
  <2> QED BY <1>3, <1>4, <1>6, <2>1 DEF Journey
<1> QED BY <1>5, <1>6

\* An answer or a failure to a legacy client.
LEMMA RespondLegacyIs ==
    ASSUME ResultsOK, HistoryOK, NEW r \in Result, RespondLegacy(<<r>>)
    PROVE  /\ ResultsOK' /\ HistoryOK' /\ ResultsKept
           /\ \A id \in Ids : \/ finals'[id] = finals[id]
                              \/ id = r.id /\ finals'[id] = finals[id] + 1
<1>1. PICK q \in Seq(Result) : q = <<r>> BY OneIs
<1>2. SendLegacy(q) /\ Record(<<r>>) /\ dropped' = dropped BY <1>1 DEF RespondLegacy
<1>3. ResultsOK' /\ waiting_task_ids' = waiting_task_ids /\ queue_results' = queue_results
  BY <1>2, SendLegacyIs
<1>4. finals \in [Ids -> Nat] BY DEF HistoryOK
<1>5. finals' \in [Ids -> Nat] BY <1>2, <1>4, RecordOne
<1>6. \A id \in Ids : r # Answer(id) => finals'[id] = finals[id] BY <1>2, <1>4, RecordOne
<1>7. \A id \in Ids : r = Answer(id) => finals'[id] = finals[id] + 1 BY <1>2, <1>4, RecordOne
<1>8. \A id \in Ids : \/ finals'[id] = finals[id]
                      \/ id = r.id /\ finals'[id] = finals[id] + 1
  BY <1>6, <1>7, ResultsAre
<1> QED BY <1>2, <1>3, <1>5, <1>8 DEF HistoryOK, ResultsKept

\* A failure reaches whoever awaits it.
LEMMA RespondOneIs ==
    ASSUME ResultsOK, HistoryOK, NEW id \in Ids, Respond(<<Failure(id)>>)
    PROVE  /\ ResultsOK' /\ HistoryOK' /\ ResultsKept
           /\ \A i \in Ids : finals'[i] = finals[i]
           /\ id \in waiting_task_ids => InSeq(queue_results', id)
<1>1. PICK q : q = <<Failure(id)>> OBVIOUS
<1>2. q \in Seq(Result) /\ InSeq(q, id) BY <1>1, ResultsAre, OneIs
<1>3. \A i \in DOMAIN q : \A j : q[i] # Answer(j) BY <1>1 DEF Answer, Failure
<1> QED BY <1>1, <1>2, <1>3, ErrorsSent

\* The parts of the state the loop's own answers leave alone.
LEMMA AnswerSound ==
    ASSUME IInv, loop = "handle", loop' = "pop", hand' = NoTask, batch = <<>>, QueuesKept, SlotsKept,
           UNCHANGED cursor, UNCHANGED clientVars, ResultsOK', HistoryOK', ResultsKept, Journeys
    PROVE  LoopSound
<1>1. UNCHANGED <<slots, batch, n_batch, ctx_shift, stop_internal_decode>>
  BY DEF SlotsKept, slotVars
<1>2. SlotsStep BY <1>1, SlotsSame DEF IInv
<1>3. QueuesOK' /\ HandOK' /\ SlotsOK' /\ Awake' BY <1>2, UpdateKeeps
<1>4. RowsOK' BY <1>1, NoRows DEF IInv
<1>5. LoopOK' BY <1>1 DEF IInv, LoopOK
<1> QED BY <1>3, <1>4, <1>5 DEF LoopSound

\* A slot action is answered, or refused on the other queue.
LEMMA SlotActionSound ==
    ASSUME IInv, HandleSlotAction, UNCHANGED cursor, UNCHANGED clientVars
    PROVE  LoopSound
<1>1. /\ hand.id \in Ids /\ hand' = NoTask /\ loop = "handle" /\ loop' = "pop" /\ batch = <<>>
  BY HandledIs DEF HandleSlotAction
<1>2. ~IsReaderTask(hand.id) /\ SlotsKept /\ QueuesKept /\ slots' = slots
  BY DEF HandleSlotAction, SlotsKept, slotVars
<1>3. RespondLegacy(<<Answer(hand.id)>>) \/ Respond(<<Failure(hand.id)>>)
  BY DEF HandleSlotAction
<1>4. /\ ResultsOK' /\ HistoryOK' /\ ResultsKept
      /\ \A id \in Ids : \/ finals'[id] = finals[id]
                         \/ id = hand.id /\ finals'[id] = finals[id] + 1
  <2>1. CASE RespondLegacy(<<Answer(hand.id)>>)
    <3>1. PICK r \in Result : r = Answer(hand.id) /\ r.id = hand.id BY <1>1, ResultsAre
    <3> QED BY <2>1, <3>1, RespondLegacyIs DEF IInv
  <2>2. CASE Respond(<<Failure(hand.id)>>)
    BY <1>1, <2>2, RespondOneIs DEF IInv
  <2> QED BY <1>3, <2>1, <2>2
<1>5. Told(hand.id) BY <1>2, ReaderWaitsIs DEF Told
<1>6. Journeys BY <1>1, <1>2, <1>4, <1>5, HandEnds
<1> QED BY <1>1, <1>2, <1>4, <1>6, AnswerSound

\* Metrics and adapters are answered at once.
LEMMA AtOnceSound ==
    ASSUME IInv, HandleAtOnce, UNCHANGED cursor, UNCHANGED clientVars
    PROVE  LoopSound
<1>1. /\ hand.id \in Ids /\ hand' = NoTask /\ loop = "handle" /\ loop' = "pop" /\ batch = <<>>
      /\ TaskOK(hand) /\ hand.type = "at_once"
  BY HandledIs DEF HandleAtOnce
<1>2. SlotsKept /\ QueuesKept /\ slots' = slots
  BY DEF HandleAtOnce, SlotsKept, slotVars
<1>3. PICK r \in {Answer(hand.id), Failure(hand.id)} : RespondLegacy(<<r>>)
  BY DEF HandleAtOnce
<1>4. r \in Result /\ r.id = hand.id BY <1>1, <1>3, ResultsAre
<1>5. /\ ResultsOK' /\ HistoryOK' /\ ResultsKept
      /\ \A id \in Ids : \/ finals'[id] = finals[id]
                         \/ id = hand.id /\ finals'[id] = finals[id] + 1
  BY <1>3, <1>4, RespondLegacyIs DEF IInv
<1>6. Told(hand.id)
  <2>1. "at_once" \in Kinds[hand.id] BY <1>1 DEF TaskOK
  <2> QED BY <2>1, ReaderWaitsIs DEF Told
<1>7. Journeys BY <1>1, <1>2, <1>5, <1>6, HandEnds
<1> QED BY <1>1, <1>2, <1>5, <1>7, AnswerSound

\* What a new system prompt does to a slot.
LEMMA SetSystemPromptIs ==
    ASSUME SlotsOK, NEW id, NEW s \in Slots
    PROVE  /\ SlotStep(slots[s], SetSystemPrompt(id)[s])
           /\ SetSystemPrompt(id)[s].state = "PROCESSING" => slots[s].state = "PROCESSING"
           /\ IsProcessing(slots[s]) /\ ~IsProcessing(SetSystemPrompt(id)[s])
                  => slots[s].id_task \in TakenBy(id)
<1>1. PICK a : a = slots[s] OBVIOUS
<1>2. SlotOK(a) BY <1>1 DEF SlotsOK
<1>3. CASE id \in SysPrompt
  <2>1. PICK e : e = Release(a) OBVIOUS
  <2>2. /\ SlotStep(a, e) /\ e.state # "PROCESSING" /\ (Loading(e) <=> Loading(a))
    BY <1>2, <2>1, ReleaseIs
  <2>3. SlotOK(e) /\ e.n_past \in Nat BY <2>2 DEF SlotStep, SlotOK, Slot
  <2>4. PICK b : b = [e EXCEPT !.n_past = 0] OBVIOUS
  <2>5. SlotStep(e, b) /\ b.state = e.state /\ b.command = e.command
    BY <2>3, <2>4, PastIs
  <2>6. SetSystemPrompt(id)[s] = b BY <1>1, <1>3, <2>1, <2>4 DEF SetSystemPrompt
  <2>7. SlotStep(a, b) BY <2>2, <2>5 DEF SlotStep
  <2>8. IsProcessing(a) /\ ~IsProcessing(b) => a.state = "PROCESSING"
    BY <2>2, <2>5 DEF IsProcessing, Loading
  <2>9. a.state = "PROCESSING" => a.id_task \in TakenBy(id)
    BY <1>1, <1>3 DEF TakenBy, Generating
  <2> QED BY <1>1, <2>2, <2>5, <2>6, <2>7, <2>8, <2>9
<1>4. CASE id \notin SysPrompt
  BY <1>1, <1>2, <1>4, SlotStepRefl DEF SetSystemPrompt
<1> QED BY <1>3, <1>4

\* A task is launched on an available slot, or refused; a new system prompt
\* takes the slots that generate.
LEMMA LaunchSound ==
    ASSUME IInv, HandleLaunch, UNCHANGED cursor, UNCHANGED clientVars
    PROVE  LoopSound
<1>1. PICK h : h = hand.id OBVIOUS
<1>2. /\ h \in Ids /\ hand' = NoTask /\ loop = "handle" /\ loop' = "pop" /\ batch = <<>>
  BY <1>1, HandledIs DEF HandleLaunch
<1>3. /\ dropped' = dropped \cup TakenBy(h)
      /\ stop_internal_decode' \in BOOLEAN /\ UNCHANGED <<batch, n_batch, ctx_shift>> /\ QueuesKept
  BY <1>1 DEF HandleLaunch
<1>4. PICK s \in Candidates, ok \in BOOLEAN, n \in Request[h].prompts :
          /\ slots' = [SetSystemPrompt(h) EXCEPT ![s] = Launched(h, n, ok)]
          /\ Send(IF ok THEN <<>> ELSE <<Failure(h)>>)
          /\ Record(IF ok THEN <<>> ELSE <<Failure(h)>>)
  BY <1>1 DEF HandleLaunch
<1>5. n \in Nat
  <2>1. Request[h].prompts \in (SUBSET Nat) \ {{}} BY <1>2, SlotsAssumption
  <2> QED BY <2>1
<1>6. s \in Slots /\ Available(slots[s]) /\ ~IsProcessing(slots[s])
  BY DEF Candidates, Available, IsProcessing, Loading
<1>7. SlotsOK BY DEF IInv
<1>8. PICK base : base = SetSystemPrompt(h) OBVIOUS
<1>9. PICK new : new = Launched(h, n, ok) OBVIOUS
<1>10. /\ SlotOK(new) /\ new.id_task = h /\ new.state # "PROCESSING"
       /\ IsProcessing(new) <=> ok
  BY <1>2, <1>5, <1>9, LaunchedIs
<1>11. DOMAIN base = Slots BY <1>7, <1>8 DEF SetSystemPrompt, SlotsOK
<1>12. \A t \in Slots : slots'[t] = IF t = s THEN new ELSE base[t]
  BY <1>4, <1>6, <1>8, <1>9, <1>11
<1>13. \A t \in Slots : /\ SlotStep(slots[t], base[t])
                        /\ base[t].state = "PROCESSING" => slots[t].state = "PROCESSING"
                        /\ IsProcessing(slots[t]) /\ ~IsProcessing(base[t])
                               => slots[t].id_task \in TakenBy(h)
  BY <1>7, <1>8, SetSystemPromptIs
<1>14. SlotsOK'
  <2>1. \A t \in Slots : SlotOK(slots'[t]) /\ slots'[t] \in Slot
    BY <1>10, <1>12, <1>13 DEF SlotStep, SlotOK
  <2>2. slots' = [t \in Slots |-> slots'[t]]
    <3>1. slots' = [t \in Slots |-> IF t = s THEN new ELSE base[t]]
      BY <1>4, <1>6, <1>8, <1>9, <1>11 DEF SetSystemPrompt, SlotsOK
    <3> QED BY <3>1
  <2>3. slots' \in [Slots -> Slot] BY <2>1, <2>2
  <2> QED BY <2>1, <2>3 DEF SlotsOK
<1>15. \A t \in Slots : Available(slots'[t]) => Available(slots[t])
  BY <1>6, <1>12, <1>13 DEF SlotStep
<1>16. queue_tasks' = queue_tasks /\ queue_tasks_deferred' = queue_tasks_deferred
  BY <1>3 DEF QueuesKept, taskQueues
<1>17. \A t : TaskOK(t) => TaskOK(t)' BY TasksKept DEF clientVars
<1>18. QueuesOK' BY <1>16, <1>17 DEF IInv, QueuesOK
<1>19. HandOK' BY <1>2, <1>17, NoTaskOK DEF HandOK
<1>20. Awake'
  <2>1. \A t : NoneFor(t) => NoneFor(t)' BY <1>15 DEF NoneFor
  <2> QED BY <1>2, <1>16, <2>1 DEF IInv, Awake
<1>21. /\ ResultsOK' /\ waiting_task_ids' = waiting_task_ids
       /\ \A id : InSeq(queue_results, id) => InSeq(queue_results', id)
       /\ ~ok /\ h \in waiting_task_ids => InSeq(queue_results', h)
       /\ finals' = finals
  <2>1. finals \in [Ids -> Nat] /\ ResultsOK BY DEF IInv, HistoryOK
  <2>2. CASE ok
    <3>1. PICK q \in Seq(Result) : q = <<>> BY EmptyIs
    <3>2. Send(q) /\ Record(<<>>) BY <1>4, <2>2, <3>1
    <3> QED BY <2>1, <2>2, <3>2, SendIs, RecordNone
  <2>3. CASE ~ok
    <3>1. Failure(h) \in Result /\ Failure(h).id = h BY <1>2, ResultsAre
    <3>2. PICK q \in Seq(Result) : q = <<Failure(h)>> BY <3>1, OneIs
    <3>3. Send(q) /\ Record(<<Failure(h)>>) BY <1>4, <2>3, <3>2
    <3>4. Failure(h) \in Range(q) BY <3>2, OneIs
    <3>5. \A id : Failure(h) # Answer(id) BY DEF Failure, Answer
    <3>6. finals' = finals
      <4>1. finals' \in [Ids -> Nat] BY <2>1, <3>1, <3>3, RecordOne
      <4>2. \A id \in Ids : finals'[id] = finals[id] BY <2>1, <3>1, <3>3, <3>5, RecordOne
      <4> QED BY <2>1, <4>1, <4>2
    <3> QED BY <2>1, <2>3, <3>1, <3>3, <3>4, <3>6, SendIs
  <2> QED BY <2>2, <2>3
<1>22. TakenBy(h) \subseteq Ids
  BY <1>7 DEF TakenBy, Generating, SlotsOK, SlotOK, IsProcessing
<1>23. HistoryOK' /\ ResultsKept BY <1>3, <1>21, <1>22 DEF IInv, HistoryOK, ResultsKept
<1>24. ASSUME NEW id \in Ids, id # h PROVE Journey(id)
  <2>1. Alone(id) /\ hand'.id # id BY <1>2, <1>24, NoTaskOK DEF IInv, Placed
  <2>2. Waits(id)' <=> Waits(id) BY <1>1, <1>16, <1>24, <2>1 DEF Waits
  <2>3. \A t \in Slots : WorksOn(t, id)' => WorksOn(t, id)
    BY <1>10, <1>12, <1>13, <1>24 DEF WorksOn, SlotStep
  <2>4. AtWork(id)' => AtWork(id) BY <2>3 DEF AtWork
  <2>5. Alone(id)' BY <1>16, <2>1, <2>2, <2>3, <2>4 DEF Alone
  <2>6. CASE AtWork(id) /\ ~AtWork(id)'
    <3>1. PICK t \in Slots : WorksOn(t, id) BY <2>6 DEF AtWork
    <3>2. ~WorksOn(t, id)' BY <2>6 DEF AtWork
    <3>3. t # s BY <1>6, <3>1 DEF WorksOn
    <3>4. IsProcessing(slots[t]) /\ ~IsProcessing(base[t]) /\ slots[t].id_task = id
      BY <1>12, <1>13, <3>1, <3>2, <3>3 DEF WorksOn, SlotStep
    <3>5. id \in dropped' BY <1>3, <1>13, <3>4
    <3>6. ~Waits(id)' BY <2>1, <2>2, <2>6 DEF Alone
    <3> QED BY <1>21, <2>5, <2>6, <3>5, <3>6 DEF Journey, Told
  <2>7. CASE AtWork(id)' <=> AtWork(id)
    BY <1>21, <2>2, <2>5, <2>7 DEF Journey
  <2> QED BY <2>4, <2>6, <2>7
<1>25. Journey(h)
  <2>1. Alone(h) /\ Waits(h) /\ hand'.id # h BY <1>1, <1>2, NoTaskOK DEF IInv, Placed, Waits
  <2>2. ~Waits(h)' BY <1>1, <1>16, <2>1 DEF Alone, Waits
  <2>3. \A t \in Slots : ~WorksOn(t, h) BY <2>1 DEF Alone, AtWork
  <2>4. \A t \in Slots : WorksOn(t, h)' => t = s
    BY <1>12, <1>13, <2>3 DEF WorksOn, SlotStep
  <2>5. WorksOn(s, h)' <=> ok BY <1>6, <1>10, <1>12 DEF WorksOn
  <2>6. AtWork(h)' <=> ok BY <1>6, <2>4, <2>5 DEF AtWork
  <2>7. Alone(h)' BY <1>16, <2>1, <2>2, <2>4 DEF Alone, Waits
  <2>8. CASE ok BY <1>21, <2>1, <2>6, <2>7, <2>8 DEF Journey
  <2>9. CASE ~ok
    <3>1. Told(h) BY <1>21, <2>9, ReaderWaitsIs DEF Told
    <3> QED BY <1>21, <2>1, <2>2, <2>6, <2>7, <2>9, <3>1 DEF Journey
  <2> QED BY <2>8, <2>9
<1>26. Journeys BY <1>24, <1>25 DEF Journeys
<1>27. RowsOK'
  <2>1. \A t \in Slots : slots'[t].state = "PROCESSING" =>
            slots[t].state = "PROCESSING" /\ slots'[t].id_task = slots[t].id_task
    BY <1>10, <1>12, <1>13 DEF SlotStep
  <2> QED BY <1>2, <1>3, <2>1, NoRows DEF IInv
<1>28. LoopOK' BY <1>2, <1>3 DEF IInv, LoopOK
<1> QED BY <1>14, <1>18, <1>19, <1>20, <1>21, <1>23, <1>26, <1>27, <1>28 DEF LoopSound

\* The loop thread's steps, all of them.
LEMMA EveryLoopStepSound ==
    ASSUME IInv, Loop
    PROVE  LoopSound
<1>1. UNCHANGED clientVars BY DEF Loop
<1>2. CASE LoopBatch BY <1>1, <1>2, BatchSound
<1>3. CASE LoopPromptEnds BY <1>1, <1>3, PromptEndsSound
<1>4. CASE LoopPromptAdds BY <1>1, <1>4, PromptAddsSound
<1>5. CASE UNCHANGED cursor /\ LoopPop BY <1>1, <1>5, PopSound
<1>6. CASE UNCHANGED cursor /\ HandleDefer BY <1>1, <1>6, DeferSound
<1>7. CASE UNCHANGED cursor /\ HandleLaunch BY <1>1, <1>7, LaunchSound
<1>8. CASE UNCHANGED cursor /\ HandleSlotAction BY <1>1, <1>8, SlotActionSound
<1>9. CASE UNCHANGED cursor /\ HandleAtOnce BY <1>1, <1>9, AtOnceSound
<1>10. CASE UNCHANGED cursor /\ HandleCancel BY <1>1, <1>10, CancelSound
<1>11. CASE UNCHANGED cursor /\ HandleNextResponse BY <1>1, <1>11, NextResponseSound
<1>12. CASE UNCHANGED cursor /\ LoopReleaseSlots BY <1>1, <1>12, ReleaseSlotsSound
<1>13. CASE UNCHANGED cursor /\ LoopDecodeOk BY <1>1, <1>13, DecodeOkSound
<1>14. CASE UNCHANGED cursor /\ LoopDecodeRetry BY <1>1, <1>14, RetrySound
<1>15. CASE UNCHANGED cursor /\ LoopDecodeFail BY <1>1, <1>15, DecodeFailSound
<1> QED BY <1>2, <1>3, <1>4, <1>5, <1>6, <1>7, <1>8, <1>9, <1>10, <1>11, <1>12, <1>13, <1>14, <1>15
        DEF Loop

-----------------------------------------------------------------------------
(* What every step does to a task, as its client sees it                   *)

ServiceMove(id) ==
    \/ /\ Waits(id)' <=> Waits(id)
       /\ AtWork(id)' <=> AtWork(id)
       /\ Posted(id)' <=> Posted(id)
       /\ finals'[id] = finals[id]
    \/ ~Posted(id) /\ Posted(id)' /\ Waits(id)' /\ finals'[id] = finals[id]
    \/ Waits(id) /\ AtWork(id)' /\ ~Waits(id)' /\ Posted(id)' /\ finals'[id] = finals[id]
    \/ /\ Waits(id) \/ AtWork(id)
       /\ ~Waits(id)' /\ ~AtWork(id)' /\ Posted(id)' /\ finals[id] = 0
       /\ finals'[id] = finals[id] \/ finals'[id] = finals[id] + 1
ServiceMoves == \A id \in Ids : ServiceMove(id)

\* A loop step keeps the invariant and moves each task along its life.
LEMMA LoopStep ==
    ASSUME IInv, Loop
    PROVE  IInv' /\ ServiceMoves
<1>1. /\ QueuesOK' /\ HandOK' /\ ResultsOK' /\ SlotsOK' /\ LoopOK' /\ HistoryOK' /\ RowsOK'
      /\ Awake' /\ Journeys /\ ResultsKept
  BY EveryLoopStepSound DEF LoopSound
<1>2. pc' = pc /\ received' = received BY DEF Loop, clientVars
<1>3. ClientsOK' BY <1>2 DEF IInv, ClientsOK
<1>4. ASSUME NEW id \in Ids PROVE Alone(id)' /\ Fresh(id)' /\ ServiceMove(id)
  <2>1. Journey(id) BY <1>1 DEF Journeys
  <2>2. Alone(id) /\ Fresh(id) BY DEF IInv, Placed
  <2>3. Posted(id)' <=> Posted(id) BY <1>2 DEF Posted
  <2>4. Alone(id)' BY <2>1 DEF Journey
  <2>5. Fresh(id)' BY <2>1, <2>2, <2>3 DEF Fresh, Journey
  <2>6. ServiceMove(id) BY <2>1, <2>2, <2>3, <2>4 DEF Fresh, Journey, ServiceMove, Alone
  <2> QED BY <2>4, <2>5, <2>6
<1>5. Awaits' BY <1>1, <1>2 DEF IInv, Awaits, ResultsKept
<1>6. Remembers'
  <2> SUFFICES ASSUME NEW c \in Readers, pc[c] \in {"waiting", "aborting"},
                      NEW id \in TasksOf[c] \ received[c], Forgets(id)'
               PROVE  FALSE
    BY <1>2 DEF Remembers
  <2>1. c \in Clients /\ id \in Ids BY ServerAssumption DEF Clients
  <2>2. ~Forgets(id) BY DEF IInv, Remembers
  <2>3. ~Waits(id)' /\ ~AtWork(id)' /\ id \notin dropped' /\ ~InSeq(queue_results', id)
    BY HasResultIs DEF Forgets
  <2>4. id \notin dropped /\ ~InSeq(queue_results, id) BY <1>1, <2>3 DEF ResultsKept
  <2>5. Waits(id) \/ AtWork(id) BY <2>2, <2>4, HasResultIs DEF Forgets
  <2>6. Journey(id) BY <1>1, <2>1 DEF Journeys
  <2>7. Told(id) BY <2>3, <2>5, <2>6 DEF Journey
  <2>8. ReaderWaits(id) BY DEF ReaderWaits
  <2> QED BY <2>3, <2>7, <2>8 DEF Told
<1> QED BY <1>1, <1>3, <1>4, <1>5, <1>6 DEF IInv, Placed, ServiceMoves

-----------------------------------------------------------------------------
(* Steps of the clients                                                    *)

ClientFrame ==
    /\ UNCHANGED <<slots, batch, n_batch, ctx_shift, loop, cursor, hand, finals, dropped>>
    /\ stop_internal_decode' \in BOOLEAN

\* A client's step changes neither slots nor batch nor what the loop is at.
LEMMA FrameIs ==
    ASSUME IInv, ClientFrame
    PROVE  /\ SlotsOK' /\ LoopOK' /\ RowsOK' /\ HistoryOK'
           /\ \A s \in Slots : \A id : WorksOn(s, id)' <=> WorksOn(s, id)
           /\ \A id : AtWork(id)' <=> AtWork(id)
           /\ \A t : NoneFor(t)' <=> NoneFor(t)
           /\ SlotsIdle' <=> SlotsIdle
<1>1. SlotsOK' BY DEF IInv, ClientFrame, SlotsOK
<1>2. LoopOK' BY DEF IInv, ClientFrame, LoopOK
<1>3. RowsOK' BY DEF IInv, ClientFrame, RowsOK
<1>4. HistoryOK' BY DEF IInv, ClientFrame, HistoryOK
<1>5. \A s \in Slots : \A id : WorksOn(s, id)' <=> WorksOn(s, id) BY DEF ClientFrame, WorksOn
<1>6. \A id : AtWork(id)' <=> AtWork(id) BY <1>5 DEF AtWork
<1>7. \A t : NoneFor(t)' <=> NoneFor(t) BY DEF ClientFrame, NoneFor
<1>8. SlotsIdle' <=> SlotsIdle BY DEF ClientFrame, SlotsIdle
<1> QED BY <1>1, <1>2, <1>3, <1>4, <1>5, <1>6, <1>7, <1>8

\* All client steps but StopDecode leave even the stop flag.
LEMMA KeepsIs == ASSUME IInv, ClientKeeps PROVE ClientFrame
BY DEF IInv, LoopOK, ClientKeeps, ClientFrame, slotVars, historyVars

\* A client that moves has its own tasks, and the others stay where they are.
LEMMA GotoIs ==
    ASSUME ClientsOK, NEW c \in Clients, NEW from, NEW to, Goto(c, from, to)
    PROVE  /\ pc[c] = from /\ pc'[c] = to
           /\ \A d \in Clients : d # c => pc'[d] = pc[d]
           /\ to \in {"posted", "registered", "waiting", "aborting", "stopping", "left", "answered"}
                  => pc' \in [Clients -> {"idle", "posted", "registered", "waiting", "aborting",
                                          "stopping", "left", "answered"}]
BY DEF ClientsOK, Goto

\* A task is of one client.
LEMMA OwnTasks ==
    ASSUME NEW c \in Clients
    PROVE  /\ TasksOf[c] \subseteq Ids /\ TasksOf[c] # {} /\ IsFiniteSet(TasksOf[c])
           /\ \A d \in Clients : \A id \in TasksOf[c] : id \in TasksOf[d] => d = c
<1>1. TasksOf[c] \in (SUBSET Ids) \ {{}} /\ IsFiniteSet(TasksOf[c]) BY ServerAssumption
<1>2. \A d \in Clients : d # c => TasksOf[c] \cap TasksOf[d] = {} BY ServerAssumption
<1> QED BY <1>1, <1>2

\* A client's step that touches no task.
LEMMA QuietStep ==
    ASSUME IInv, ClientFrame, QueuesKept, ResultsOK', ClientsOK', Awaits', Remembers',
           \A c \in Clients : /\ pc'[c] \in {"idle", "registered"} <=> pc[c] \in {"idle", "registered"}
                              /\ pc[c] = "left" => pc'[c] = "left"
    PROVE  IInv' /\ ServiceMoves
<1>1. /\ SlotsOK' /\ LoopOK' /\ RowsOK' /\ HistoryOK'
      /\ \A s \in Slots : \A id : WorksOn(s, id)' <=> WorksOn(s, id)
      /\ \A id : AtWork(id)' <=> AtWork(id)
      /\ \A t : NoneFor(t)' <=> NoneFor(t)
      /\ SlotsIdle' <=> SlotsIdle
  BY FrameIs
<1>2. queue_tasks' = queue_tasks /\ queue_tasks_deferred' = queue_tasks_deferred
  BY DEF QueuesKept, taskQueues
<1>3. loop' = loop /\ hand' = hand /\ finals' = finals BY DEF ClientFrame
<1>4. \A t : TaskOK(t) => TaskOK(t)' BY TasksKept DEF Clients
<1>5. QueuesOK' BY <1>2, <1>4 DEF IInv, QueuesOK
<1>6. HandOK' BY <1>3, <1>4 DEF IInv, HandOK
<1>7. Awake' BY <1>1, <1>2, <1>3 DEF IInv, Awake
<1>8. ASSUME NEW id \in Ids PROVE Alone(id)' /\ Fresh(id)' /\ ServiceMove(id)
  <2>1. Alone(id) /\ Fresh(id) BY DEF IInv, Placed
  <2>2. Waits(id)' <=> Waits(id) BY <1>2, <1>3 DEF Waits
  <2>3. Posted(id)' <=> Posted(id) BY DEF Posted
  <2>4. Alone(id)' BY <1>1, <1>2, <1>3, <2>1, <2>2 DEF Alone
  <2>5. Fresh(id)' BY <1>1, <1>3, <2>1, <2>2, <2>3 DEF Fresh
  <2>6. ServiceMove(id) BY <1>1, <1>3, <2>2, <2>3 DEF ServiceMove
  <2> QED BY <2>4, <2>5, <2>6
<1> QED BY <1>1, <1>5, <1>6, <1>7, <1>8 DEF IInv, Placed, ServiceMoves

\* Of a quiet step, what others remember is still there.
LEMMA OthersRemember ==
    ASSUME IInv, ClientFrame, QueuesKept, NEW c \in Clients,
           \A d \in Clients : d # c => pc'[d] = pc[d] /\ received'[d] = received[d],
           \A id \in Ids \ TasksOf[c] : InSeq(queue_results, id) => InSeq(queue_results', id),
           c \in Readers /\ pc'[c] \in {"waiting", "aborting"} =>
               \A id \in TasksOf[c] \ received'[c] : ~Forgets(id)'
    PROVE  Remembers'
<1> SUFFICES ASSUME NEW d \in Readers, pc'[d] \in {"waiting", "aborting"},
                    NEW id \in TasksOf[d] \ received'[d]
             PROVE  ~Forgets(id)'
  BY DEF Remembers
<1>1. d \in Clients BY DEF Clients
<1>2. CASE d = c BY <1>2
<1>3. CASE d # c
  <2>1. id \in Ids \ TasksOf[c] BY <1>1, <1>3, OwnTasks
  <2>2. ~Forgets(id) BY <1>1, <1>3 DEF IInv, Remembers
  <2>3. Waits(id)' <=> Waits(id) BY DEF Waits, QueuesKept, taskQueues, ClientFrame
  <2>4. AtWork(id)' <=> AtWork(id) BY FrameIs
  <2>5. dropped' = dropped BY DEF ClientFrame
  <2> QED BY <2>1, <2>2, <2>3, <2>4, <2>5, HasResultIs DEF Forgets
<1> QED BY <1>2, <1>3

\* post_tasks registers the ids before it posts.
LEMMA RegisterStep ==
    ASSUME IInv, NEW c \in Readers, Goto(c, "idle", "registered"), AddWaiting(TasksOf[c]),
           UNCHANGED <<taskQueues, received>>, ClientKeeps
    PROVE  IInv' /\ ServiceMoves
<1>1. c \in Clients /\ ClientsOK BY DEF Clients, IInv
<1>2. /\ pc[c] = "idle" /\ pc'[c] = "registered" /\ \A d \in Clients : d # c => pc'[d] = pc[d]
      /\ ClientsOK'
  BY <1>1, GotoIs DEF ClientsOK
<1>3. ClientFrame /\ QueuesKept BY KeepsIs DEF QueuesKept
<1>4. /\ waiting_task_ids' = waiting_task_ids \cup TasksOf[c]
      /\ queue_results' = queue_results /\ queue_results_legacy' = queue_results_legacy
  BY DEF AddWaiting, resultQueues
<1>5. ResultsOK' BY <1>1, <1>4, OwnTasks DEF IInv, ResultsOK
<1>6. Awaits'
  <2>1. \A d \in Readers : d \in Clients BY DEF Clients
  <2> QED BY <1>2, <1>4, <2>1 DEF IInv, Awaits
<1>7. Remembers' BY <1>1, <1>2, <1>3, <1>4, OthersRemember
<1> QED BY <1>2, <1>3, <1>5, <1>6, <1>7, QuietStep

\* next() takes one result of the reader's tasks and notes what it has.
LEMMA NextResultStep ==
    ASSUME IInv, NEW c \in Readers, NextResult(c), ClientKeeps
    PROVE  IInv' /\ ServiceMoves
<1>1. c \in Clients /\ ClientsOK BY DEF Clients, IInv
<1>2. ClientFrame /\ QueuesKept BY KeepsIs DEF QueuesKept, NextResult
<1>3. PICK ids : ids = TasksOf[c] OBVIOUS
<1>4. pc[c] = "waiting" /\ HasResult(queue_results, ids) BY <1>3 DEF NextResult
<1>5. PICK res : res = queue_results[FirstFor(queue_results, ids)] OBVIOUS
<1>6. queue_results \in Seq(Result) BY DEF IInv, ResultsOK
<1>7. PICK rest : rest = TakenOut(queue_results, ids) OBVIOUS
<1>8. /\ res \in Result /\ res.id \in ids /\ rest \in Seq(Result)
      /\ \A x \in Range(queue_results) : x = res \/ x \in Range(rest)
  BY <1>4, <1>5, <1>6, <1>7, TakenOutIs
<1>9. queue_results' = rest /\ queue_results_legacy' = queue_results_legacy
  BY <1>3, <1>7 DEF NextResult, TakeFirstFor
<1>10. PICK e \in BOOLEAN : e = res.error BY <1>8 DEF Result
<1>11. PICK got : got = received[c] \cup {res.id} OBVIOUS
<1>12. PICK end \in BOOLEAN : end = (e \/ got = ids) OBVIOUS
<1>13. PICK to : to = IF e THEN "stopping" ELSE IF end THEN "answered" ELSE "waiting" OBVIOUS
<1>14. /\ received' = IF e THEN received ELSE [received EXCEPT ![c] = got]
       /\ waiting_task_ids' = IF end THEN waiting_task_ids \ ids ELSE waiting_task_ids
       /\ pc' = [pc EXCEPT ![c] = to]
  BY <1>3, <1>5, <1>10, <1>11, <1>12, <1>13 DEF NextResult
<1>15. to \in {"stopping", "answered", "waiting"} /\ (to = "waiting" <=> ~end)
  BY <1>12, <1>13
<1>16. pc'[c] = to /\ \A d \in Clients : d # c => pc'[d] = pc[d]
  BY <1>1, <1>14 DEF ClientsOK
<1>17. ids \subseteq Ids BY <1>1, <1>3, OwnTasks
<1>18. /\ \A d \in Clients : d # c => received'[d] = received[d]
       /\ ~e => received'[c] = got
       /\ e => received'[c] = received[c]
  BY <1>1, <1>14 DEF ClientsOK
<1>19. ClientsOK'
  <2>1. got \subseteq ids /\ got \subseteq Ids
    BY <1>1, <1>3, <1>8, <1>11, <1>17 DEF ClientsOK
  <2>2. received' \in [Clients -> SUBSET Ids] BY <1>1, <1>14, <2>1 DEF ClientsOK
  <2>3. \A d \in Clients : received'[d] \subseteq TasksOf[d]
    BY <1>1, <1>3, <1>18, <2>1 DEF ClientsOK
  <2>4. pc' \in [Clients -> {"idle", "posted", "registered", "waiting", "aborting",
                             "stopping", "left", "answered"}]
    BY <1>1, <1>14, <1>15 DEF ClientsOK
  <2> QED BY <2>2, <2>3, <2>4 DEF ClientsOK
<1>20. ResultsOK' BY <1>8, <1>9, <1>14 DEF IInv, ResultsOK
<1>21. Awaits'
  <2> SUFFICES ASSUME NEW d \in Readers, pc'[d] \in {"registered", "waiting", "aborting"}
               PROVE  TasksOf[d] \subseteq waiting_task_ids'
    BY DEF Awaits
  <2>1. d \in Clients BY DEF Clients
  <2>2. CASE d = c BY <1>4, <1>14, <1>15, <1>16, <2>2 DEF IInv, Awaits
  <2>3. CASE d # c
    <3>1. TasksOf[d] \subseteq waiting_task_ids BY <1>16, <2>1, <2>3 DEF IInv, Awaits
    <3>2. \A id \in TasksOf[d] : id \notin ids BY <1>1, <1>3, <2>1, <2>3, OwnTasks
    <3> QED BY <1>14, <3>1, <3>2
  <2> QED BY <2>2, <2>3
<1>22. Remembers'
  <2>1. \A id : InSeq(queue_results, id) /\ id # res.id => InSeq(queue_results', id)
    BY <1>8, <1>9 DEF InSeq
  <2>2. ASSUME pc'[c] \in {"waiting", "aborting"}, NEW id \in TasksOf[c] \ received'[c]
        PROVE  ~Forgets(id)'
    <3>1. ~e /\ received'[c] = got BY <1>12, <1>15, <1>16, <1>18, <2>2
    <3>2. id # res.id /\ id \in TasksOf[c] \ received[c] BY <1>11, <3>1
    <3>3. ~Forgets(id) BY <1>4, <3>2 DEF IInv, Remembers
    <3>4. Waits(id)' <=> Waits(id) BY <1>2 DEF Waits, QueuesKept, taskQueues, ClientFrame
    <3>5. AtWork(id)' <=> AtWork(id) BY <1>2, FrameIs
    <3>6. dropped' = dropped BY <1>2 DEF ClientFrame
    <3> QED BY <2>1, <3>2, <3>3, <3>4, <3>5, <3>6, HasResultIs DEF Forgets
  <2>3. \A id \in Ids \ TasksOf[c] : InSeq(queue_results, id) => InSeq(queue_results', id)
    BY <1>3, <1>8, <2>1
  <2> QED BY <1>1, <1>2, <1>16, <1>18, <2>2, <2>3, OthersRemember
<1> QED BY <1>2, <1>4, <1>15, <1>16, <1>19, <1>20, <1>21, <1>22, QuietStep

\* The reader goes away; it awaits nothing any more, or has yet to stop the
\* decode.
LEMMA LeaveStep ==
    ASSUME IInv, NEW c \in Readers, NEW from \in {"waiting", "aborting"},
           NEW to \in {"aborting", "stopping"}, Goto(c, from, to), ClientFrame, QueuesKept,
           UNCHANGED <<resultQueues, received>>,
           \/ waiting_task_ids' = waiting_task_ids
           \/ waiting_task_ids' = waiting_task_ids \ TasksOf[c] /\ to = "stopping"
    PROVE  IInv' /\ ServiceMoves
<1>1. c \in Clients /\ ClientsOK BY DEF Clients, IInv
<1>2. /\ pc[c] = from /\ pc'[c] = to /\ \A d \in Clients : d # c => pc'[d] = pc[d]
      /\ ClientsOK'
  BY <1>1, GotoIs DEF ClientsOK
<1>3. queue_results' = queue_results /\ queue_results_legacy' = queue_results_legacy
  BY DEF resultQueues
<1>4. ResultsOK' BY <1>3 DEF IInv, ResultsOK
<1>5. Awaits'
  <2> SUFFICES ASSUME NEW d \in Readers, pc'[d] \in {"registered", "waiting", "aborting"}
               PROVE  TasksOf[d] \subseteq waiting_task_ids'
    BY DEF Awaits
  <2>1. d \in Clients BY DEF Clients
  <2>2. CASE d = c BY <1>2, <2>2 DEF IInv, Awaits
  <2>3. CASE d # c
    <3>1. TasksOf[d] \subseteq waiting_task_ids BY <1>2, <2>1, <2>3 DEF IInv, Awaits
    <3>2. \A id \in TasksOf[d] : id \notin TasksOf[c] BY <1>1, <2>1, <2>3, OwnTasks
    <3> QED BY <3>1, <3>2
  <2> QED BY <2>2, <2>3
<1>6. Remembers'
  <2>1. ASSUME pc'[c] \in {"waiting", "aborting"}, NEW id \in TasksOf[c] \ received'[c]
        PROVE  ~Forgets(id)'
    <3>1. ~Forgets(id) BY <1>2 DEF IInv, Remembers
    <3>2. Waits(id)' <=> Waits(id) BY DEF Waits, QueuesKept, taskQueues, ClientFrame
    <3>3. AtWork(id)' <=> AtWork(id) BY FrameIs
    <3>4. dropped' = dropped BY DEF ClientFrame
    <3> QED BY <1>3, <3>1, <3>2, <3>3, <3>4 DEF Forgets
  <2> QED BY <1>1, <1>2, <1>3, <2>1, OthersRemember
<1> QED BY <1>2, <1>4, <1>5, <1>6, QuietStep

\* A legacy client's queue and registration concern no reader.
LEMMA LegacyStep ==
    ASSUME IInv, NEW c \in LegacyClients, LegacyRegister(c) \/ LegacyRecv(c),
           UNCHANGED received, ClientKeeps
    PROVE  IInv' /\ ServiceMoves
<1>1. c \in Clients /\ ClientsOK /\ c \notin Readers BY ServerAssumption DEF Clients, IInv
<1>2. ClientFrame /\ QueuesKept BY KeepsIs DEF QueuesKept, LegacyRegister, LegacyRecv
<1>3. \/ Goto(c, "posted", "waiting") \/ Goto(c, "waiting", "answered")
  BY DEF LegacyRegister, LegacyRecv
<1>4. /\ pc[c] \notin {"idle", "registered", "left"} /\ pc'[c] \notin {"idle", "registered"}
      /\ \A d \in Clients : d # c => pc'[d] = pc[d]
      /\ ClientsOK'
  <2>1. CASE Goto(c, "posted", "waiting") BY <1>1, <2>1, GotoIs DEF ClientsOK
  <2>2. CASE Goto(c, "waiting", "answered") BY <1>1, <2>2, GotoIs DEF ClientsOK
  <2> QED BY <1>3, <2>1, <2>2
<1>5. /\ queue_results' = queue_results /\ queue_results_legacy' \in Seq(Result)
      /\ \/ waiting_task_ids' = waiting_task_ids \cup TasksOf[c]
         \/ waiting_task_ids' = waiting_task_ids \ TasksOf[c]
  <2>1. ResultsOK BY DEF IInv
  <2>2. CASE LegacyRegister(c)
    BY <2>1, <2>2 DEF LegacyRegister, AddWaiting, resultQueues, ResultsOK
  <2>3. CASE LegacyRecv(c)
    <3>1. PICK id \in TasksOf[c] : Recv(id) BY <2>3 DEF LegacyRecv
    <3>2. PICK ids : ids = {id} OBVIOUS
    <3>3. HasResult(queue_results_legacy, ids) BY <3>1, <3>2 DEF Recv
    <3>4. TakenOut(queue_results_legacy, ids) \in Seq(Result)
      BY <2>1, <3>3, TakenOutIs DEF ResultsOK
    <3> QED BY <2>3, <3>1, <3>2, <3>4 DEF Recv, LegacyRecv
  <2> QED BY <2>2, <2>3
<1>6. ResultsOK' BY <1>1, <1>5, OwnTasks DEF IInv, ResultsOK
<1>7. Awaits'
  <2> SUFFICES ASSUME NEW d \in Readers, pc'[d] \in {"registered", "waiting", "aborting"}
               PROVE  TasksOf[d] \subseteq waiting_task_ids'
    BY DEF Awaits
  <2>1. d \in Clients /\ d # c BY <1>1 DEF Clients
  <2>2. TasksOf[d] \subseteq waiting_task_ids BY <1>4, <2>1 DEF IInv, Awaits
  <2>3. \A id \in TasksOf[d] : id \notin TasksOf[c] BY <1>1, <2>1, OwnTasks
  <2> QED BY <1>5, <2>2, <2>3
<1>8. Remembers' BY <1>1, <1>2, <1>4, <1>5, OthersRemember
<1> QED BY <1>2, <1>4, <1>6, <1>7, <1>8, QuietStep

\* A request has one task for each id of its client, of a type it may have.
LEMMA PostRequestIs ==
    ASSUME NEW c \in Clients, PostRequest(c)
    PROVE  \E ts \in Seq(Task) :
               /\ queue_tasks' = queue_tasks \o ts
               /\ queue_tasks_deferred' = queue_tasks_deferred
               /\ \A t \in Range(ts) : TaskOK(t)
               /\ \A id : InSeq(ts, id) <=> id \in TasksOf[c]
               /\ \A id : Once(ts, id)
<1>1. PICK ids : ids = TasksOf[c] OBVIOUS
<1>2. ids \subseteq Ids /\ IsFiniteSet(ids) BY <1>1, OwnTasks
<1>3. PICK type \in [ids -> {"slot_task", "at_once"}],
           slot \in [ids -> UNION {IdSlots[id] : id \in ids}] :
        /\ \A id \in ids : type[id] \in Kinds[id] /\ slot[id] \in IdSlots[id]
        /\ Post(SetToSeq({NewTask(type[id], id, slot[id]) : id \in ids}))
  BY <1>1 DEF PostRequest
<1>4. PICK f : f = [id \in ids |-> NewTask(type[id], id, slot[id])] OBVIOUS
<1>5. PICK S : S = {NewTask(type[id], id, slot[id]) : id \in ids} OBVIOUS
<1>6. \A id \in ids : f[id] = NewTask(type[id], id, slot[id]) /\ f[id] \in S BY <1>4, <1>5
<1>7. \A t \in S : \E id \in ids : t = f[id] BY <1>5, <1>6
<1>8. IsFiniteSet(S)
  <2>1. f \in [ids -> S] BY <1>4, <1>5
  <2>2. f \in Surjection(ids, S) BY <1>7, <2>1 DEF Surjection
  <2> QED BY <1>2, <2>2, FS_Surjection
<1>9. \A id \in ids : TaskOK(f[id]) /\ f[id].id = id
  <2> SUFFICES ASSUME NEW id \in ids PROVE TaskOK(f[id]) /\ f[id].id = id OBVIOUS
  <2>1. PICK k : k = type[id] OBVIOUS
  <2>2. PICK n : n = slot[id] OBVIOUS
  <2>3. k \in {"slot_task", "at_once"} /\ k \in Kinds[id] BY <1>3, <2>1
  <2>4. n \in Nat
    <3>1. IdSlots[id] \in (SUBSET Nat) \ {{}} BY <1>2, ServerAssumption
    <3> QED BY <1>3, <2>2, <3>1
  <2>5. PICK t : t = NewTask(k, id, n) OBVIOUS
  <2>6. /\ t \in Task /\ t.type = k /\ t.id = id
    BY <1>2, <2>3, <2>4, <2>5 DEF NewTask, Task, TaskTypes
  <2>7. TaskOK(t) BY <1>2, <2>3, <2>6 DEF TaskOK
  <2> QED BY <1>6, <2>1, <2>2, <2>5, <2>6, <2>7
<1>10. PICK ts : ts = SetToSeq(S) OBVIOUS
<1>11. ts \in Seq(S) /\ Range(ts) = S BY <1>8, <1>10, SetToSeqIs
<1>12. \A id : (\A x, y \in S : x.id = id /\ y.id = id => x = y) => Once(ts, id)
  BY <1>8, <1>10, SetToSeqIs
<1>13. \A x, y \in S : x.id = y.id => x = y BY <1>7, <1>9
<1>14. \A id : Once(ts, id) BY <1>12, <1>13
<1>15. \A t \in Range(ts) : TaskOK(t) BY <1>7, <1>9, <1>11
<1>16. ts \in Seq(Task)
  <2>1. \A t \in S : t \in Task BY <1>7, <1>9 DEF TaskOK
  <2> QED BY <1>11, <2>1
<1>17. \A id : InSeq(ts, id) <=> id \in ids
  <2>1. \A id : id \in ids => f[id] \in S /\ f[id].id = id BY <1>6, <1>9
  <2>2. \A t \in S : t.id \in ids BY <1>7, <1>9
  <2> QED BY <1>11, <2>1, <2>2 DEF InSeq
<1>18. queue_tasks' = queue_tasks \o ts /\ queue_tasks_deferred' = queue_tasks_deferred
  BY <1>3, <1>5, <1>10 DEF Post
<1> QED BY <1>1, <1>14, <1>15, <1>16, <1>17, <1>18

\* A client posts tasks nobody has posted before.
LEMMA PostStep ==
    ASSUME IInv, NEW c \in Clients, PostRequest(c), ClientFrame,
           UNCHANGED <<waiting_task_ids, resultQueues, received>>,
           \/ c \in Readers /\ Goto(c, "registered", "waiting")
           \/ c \in LegacyClients /\ Goto(c, "idle", "posted")
    PROVE  IInv' /\ ServiceMoves
<1>1. ClientsOK BY DEF IInv
<1>2. /\ pc[c] \in {"idle", "registered"} /\ pc'[c] \in {"posted", "waiting"}
      /\ \A d \in Clients : d # c => pc'[d] = pc[d]
      /\ c \in Readers => pc[c] = "registered" /\ pc'[c] = "waiting"
      /\ ClientsOK'
  <2>1. CASE c \in Readers /\ Goto(c, "registered", "waiting")
    BY <1>1, <2>1, GotoIs DEF ClientsOK
  <2>2. CASE c \in LegacyClients /\ Goto(c, "idle", "posted")
    <3>1. c \notin Readers BY <2>2, ServerAssumption
    <3> QED BY <1>1, <2>2, <3>1, GotoIs DEF ClientsOK
  <2> QED BY <2>1, <2>2
<1>3. /\ SlotsOK' /\ LoopOK' /\ RowsOK' /\ HistoryOK'
      /\ \A s \in Slots : \A id : WorksOn(s, id)' <=> WorksOn(s, id)
      /\ \A id : AtWork(id)' <=> AtWork(id)
      /\ \A t : NoneFor(t)' <=> NoneFor(t)
      /\ SlotsIdle' <=> SlotsIdle
  BY FrameIs
<1>4. loop' = loop /\ hand' = hand /\ finals' = finals /\ dropped' = dropped BY DEF ClientFrame
<1>5. PICK ts \in Seq(Task) :
          /\ queue_tasks' = queue_tasks \o ts
          /\ queue_tasks_deferred' = queue_tasks_deferred
          /\ \A t \in Range(ts) : TaskOK(t)
          /\ \A id : InSeq(ts, id) <=> id \in TasksOf[c]
          /\ \A id : Once(ts, id)
  BY PostRequestIs
<1>6. queue_tasks \in Seq(Task) /\ QueuesOK BY DEF IInv, QueuesOK
<1>7. /\ queue_tasks \o ts \in Seq(Task)
      /\ Range(queue_tasks \o ts) = Range(queue_tasks) \cup Range(ts)
  BY <1>6, CatIs
<1>8. \A id : InSeq(queue_tasks \o ts, id) <=> InSeq(queue_tasks, id) \/ InSeq(ts, id)
  BY <1>6, CatIs
<1>9. \A id : Once(queue_tasks, id) /\ Once(ts, id) /\ ~(InSeq(queue_tasks, id) /\ InSeq(ts, id))
                  => Once(queue_tasks \o ts, id)
  BY <1>6, CatIs
<1>10. \A t : TaskOK(t) => TaskOK(t)'
  <2>1. \A d \in Readers : pc[d] = "left" => pc'[d] = "left" BY <1>2 DEF Clients
  <2> QED BY <2>1, TasksKept
<1>11. QueuesOK' BY <1>5, <1>6, <1>7, <1>10 DEF QueuesOK
<1>12. HandOK' BY <1>4, <1>10 DEF IInv, HandOK
<1>13. ResultsOK' BY DEF IInv, ResultsOK, resultQueues
<1>14. Awake'
  <2>1. queue_tasks \o ts = <<>> => queue_tasks = <<>> BY <1>6
  <2> QED BY <1>3, <1>4, <1>5, <1>7, <2>1 DEF IInv, Awake
<1>15. ASSUME NEW id \in Ids PROVE Alone(id)' /\ Fresh(id)' /\ ServiceMove(id)
  <2>1. Alone(id) /\ Fresh(id) BY DEF IInv, Placed
  <2>2. CASE id \in TasksOf[c]
    <3>1. ~Posted(id) /\ Posted(id)'
      <4>1. \A d \in Clients : id \in TasksOf[d] => d = c BY <2>2, OwnTasks
      <4> QED BY <1>2, <2>2, <4>1 DEF Posted
    <3>2. ~Waits(id) /\ ~AtWork(id) /\ finals[id] = 0 BY <2>1, <3>1 DEF Fresh
    <3>3. InSeq(queue_tasks', id) /\ Once(queue_tasks', id)
      BY <1>5, <1>8, <1>9, <2>1, <2>2, <3>2 DEF Alone, Waits
    <3>4. Alone(id)' BY <1>3, <1>4, <1>5, <2>1, <3>2, <3>3 DEF Alone, Waits
    <3>5. Waits(id)' BY <3>3 DEF Waits
    <3>6. Fresh(id)' BY <1>4, <3>1, <3>2 DEF Fresh
    <3> QED BY <1>4, <3>1, <3>4, <3>5, <3>6 DEF ServiceMove
  <2>3. CASE id \notin TasksOf[c]
    <3>1. Posted(id)' <=> Posted(id) BY <1>2, <2>3 DEF Posted
    <3>2. InSeq(queue_tasks', id) <=> InSeq(queue_tasks, id) BY <1>5, <1>8, <2>3
    <3>3. Waits(id)' <=> Waits(id) BY <1>4, <1>5, <3>2 DEF Waits
    <3>4. Once(queue_tasks', id) BY <1>5, <1>9, <2>1, <2>3 DEF Alone
    <3>5. Alone(id)' BY <1>3, <1>4, <1>5, <2>1, <3>2, <3>3, <3>4 DEF Alone
    <3>6. Fresh(id)' BY <1>3, <1>4, <2>1, <3>1, <3>3 DEF Fresh
    <3>7. ServiceMove(id) BY <1>3, <1>4, <3>1, <3>3 DEF ServiceMove
    <3> QED BY <3>5, <3>6, <3>7
  <2> QED BY <2>2, <2>3
<1>16. Awaits'
  <2>1. \A d \in Readers : d \in Clients BY DEF Clients
  <2> QED BY <1>2, <2>1 DEF IInv, Awaits
<1>17. Remembers'
  <2> SUFFICES ASSUME NEW d \in Readers, pc'[d] \in {"waiting", "aborting"},
                      NEW id \in TasksOf[d] \ received'[d]
               PROVE  ~Forgets(id)'
    BY DEF Remembers
  <2>1. d \in Clients BY DEF Clients
  <2>2. CASE d = c BY <1>5, <1>8, <2>2 DEF Forgets, Waits
  <2>3. CASE d # c
    <3>1. ~Forgets(id) BY <1>2, <2>1, <2>3 DEF IInv, Remembers
    <3>2. Waits(id) => Waits(id)' BY <1>4, <1>5, <1>8 DEF Waits
    <3>3. queue_results' = queue_results BY DEF resultQueues
    <3> QED BY <1>3, <1>4, <3>1, <3>2, <3>3 DEF Forgets
  <2> QED BY <2>2, <2>3
<1> QED BY <1>2, <1>3, <1>11, <1>12, <1>13, <1>14, <1>15, <1>16, <1>17
        DEF IInv, Placed, ServiceMoves

\* stop() posts a cancel for each task, in some order.
LEMMA CancelsAre ==
    ASSUME NEW c \in Readers, pc'[c] = "left"
    PROVE  LET cs == SetToSeq({CancelTask(id) : id \in TasksOf[c]})
           IN  /\ cs \in Seq(Task) /\ cs # <<>>
               /\ \A t \in Range(cs) : TaskOK(t)'
               /\ \A id \in Ids : ~InSeq(cs, id) /\ Once(cs, id)
<1>1. PICK ids : ids = TasksOf[c] OBVIOUS
<1>2. c \in Clients BY DEF Clients
<1>3. ids \subseteq Ids /\ ids # {} /\ IsFiniteSet(ids) BY <1>1, <1>2, OwnTasks
<1>4. PICK S : S = {CancelTask(id) : id \in ids} OBVIOUS
<1>5. PICK f : f = [id \in ids |-> CancelTask(id)] OBVIOUS
<1>6. \A id \in ids : f[id] = CancelTask(id) /\ f[id] \in S BY <1>4, <1>5
<1>7. \A t \in S : \E id \in ids : t = f[id] BY <1>4, <1>6
<1>8. IsFiniteSet(S)
  <2>1. f \in [ids -> S] BY <1>4, <1>5
  <2>2. f \in Surjection(ids, S) BY <1>7, <2>1 DEF Surjection
  <2> QED BY <1>3, <2>2, FS_Surjection
<1>9. \A id \in ids : TaskOK(f[id])' /\ f[id].id = NoId /\ f[id] \in Task
  <2> SUFFICES ASSUME NEW id \in ids PROVE TaskOK(f[id])' /\ f[id].id = NoId /\ f[id] \in Task
    OBVIOUS
  <2>1. PICK t : t = CancelTask(id) OBVIOUS
  <2>2. t.type = "CANCEL" /\ t.id = NoId /\ t.target = id /\ t \in Task
    BY <1>3, <2>1 DEF CancelTask, NewTask, Task, TaskTypes
  <2>3. NoId \notin Ids BY ServerAssumption
  <2>4. TaskOK(t)' BY <1>1, <2>2, <2>3 DEF TaskOK
  <2> QED BY <1>6, <2>1, <2>2, <2>4
<1>10. PICK cs : cs = SetToSeq(S) OBVIOUS
<1>11. cs \in Seq(S) /\ Range(cs) = S BY <1>8, <1>10, SetToSeqIs
<1>12. cs \in Seq(Task)
  <2>1. \A t \in S : t \in Task BY <1>7, <1>9
  <2> QED BY <1>11, <2>1
<1>13. cs # <<>>
  <2>1. S # {} BY <1>3, <1>6
  <2> QED BY <1>11, <2>1, EmptyIs
<1>14. \A t \in Range(cs) : TaskOK(t)' /\ t.id = NoId BY <1>7, <1>9, <1>11
<1>15. \A id \in Ids : ~InSeq(cs, id)
  <2>1. NoId \notin Ids BY ServerAssumption
  <2> QED BY <1>14, <2>1 DEF InSeq
<1>16. \A id \in Ids : Once(cs, id) BY <1>15 DEF InSeq, Once, Range
<1> QED BY <1>1, <1>4, <1>10, <1>12, <1>13, <1>14, <1>15, <1>16

\* The targets that wait in a queue end there, the one in the loop's hand
\* and those on slots go on until their cancels are handled.
LEMMA StopStep ==
    ASSUME IInv, NEW c \in Readers, Stop(c), ClientKeeps
    PROVE  IInv' /\ ServiceMoves
<1>1. c \in Clients /\ ClientsOK /\ ClientFrame BY KeepsIs DEF Clients, IInv
<1>2. /\ pc[c] = "stopping" /\ pc'[c] = "left" /\ \A d \in Clients : d # c => pc'[d] = pc[d]
      /\ ClientsOK'
  BY <1>1, GotoIs DEF Stop, ClientsOK
<1>3. /\ SlotsOK' /\ LoopOK' /\ RowsOK' /\ HistoryOK'
      /\ \A s \in Slots : \A id : WorksOn(s, id)' <=> WorksOn(s, id)
      /\ \A id : AtWork(id)' <=> AtWork(id)
      /\ \A t : NoneFor(t)' <=> NoneFor(t)
      /\ SlotsIdle' <=> SlotsIdle
  BY <1>1, FrameIs
<1>4. loop' = loop /\ hand' = hand /\ finals' = finals /\ dropped' = dropped
  BY <1>1 DEF ClientFrame
<1>5. UNCHANGED <<waiting_task_ids, resultQueues, received>> BY DEF Stop
<1>6. PICK ids : ids = TasksOf[c] OBVIOUS
<1>7. PICK cs : cs = SetToSeq({CancelTask(id) : id \in ids}) OBVIOUS
<1>8. /\ cs \in Seq(Task) /\ cs # <<>>
      /\ \A t \in Range(cs) : TaskOK(t)'
      /\ \A id \in Ids : ~InSeq(cs, id) /\ Once(cs, id)
  BY <1>2, <1>6, <1>7, CancelsAre
<1>9. PICK w : w = Without(queue_tasks, ids) OBVIOUS
<1>10. PICK v : v = Without(queue_tasks_deferred, ids) OBVIOUS
<1>11. queue_tasks' = cs \o w /\ queue_tasks_deferred' = v
  BY <1>6, <1>7, <1>9, <1>10 DEF Stop, PostCancels
<1>12. queue_tasks \in Seq(Task) /\ queue_tasks_deferred \in Seq(Task) /\ QueuesOK
  BY DEF IInv, QueuesOK
<1>13. /\ w \in Seq(Task)
       /\ \A t \in Range(w) : t \in Range(queue_tasks)
       /\ \A t \in Range(queue_tasks) : t.id \notin ids => t \in Range(w)
       /\ \A id : InSeq(w, id) <=> InSeq(queue_tasks, id) /\ id \notin ids
       /\ \A id : Once(queue_tasks, id) => Once(w, id)
  BY <1>9, <1>12, WithoutIs
<1>14. /\ v \in Seq(Task)
       /\ \A t \in Range(v) : t \in Range(queue_tasks_deferred)
       /\ \A id : InSeq(v, id) <=> InSeq(queue_tasks_deferred, id) /\ id \notin ids
       /\ \A id : Once(queue_tasks_deferred, id) => Once(v, id)
  BY <1>10, <1>12, WithoutIs
<1>15. cs \o w \in Seq(Task) /\ Range(cs \o w) = Range(cs) \cup Range(w) BY <1>8, <1>13, CatIs
<1>16. \A id : InSeq(cs \o w, id) <=> InSeq(cs, id) \/ InSeq(w, id) BY <1>8, <1>13, CatIs
<1>17. \A id : Once(cs, id) /\ Once(w, id) /\ ~(InSeq(cs, id) /\ InSeq(w, id))
                   => Once(cs \o w, id)
  BY <1>8, <1>13, CatIs
<1>18. \A t : TaskOK(t) => TaskOK(t)'
  <2>1. \A d \in Readers : pc[d] = "left" => pc'[d] = "left" BY <1>2 DEF Clients
  <2> QED BY <2>1, TasksKept
<1>19. QueuesOK' BY <1>8, <1>11, <1>12, <1>13, <1>14, <1>15, <1>18 DEF QueuesOK
<1>20. HandOK' BY <1>4, <1>18 DEF IInv, HandOK
<1>21. ResultsOK' BY <1>5 DEF IInv, ResultsOK, resultQueues
<1>22. Awake'
  <2>1. NextResponse.id \notin ids
    BY <1>1, <1>6, NoTaskOK, OwnTasks DEF NoTask
  <2>2. NextResponse \in Range(queue_tasks) => NextResponse \in Range(queue_tasks')
    BY <1>11, <1>13, <1>15, <2>1
  <2>3. queue_tasks' # <<>> BY <1>8, <1>11, <1>13
  <2>4. \A t \in Range(queue_tasks_deferred') : NoneFor(t)'
    BY <1>3, <1>11, <1>14 DEF IInv, Awake
  <2> QED BY <1>4, <2>2, <2>3, <2>4 DEF IInv, Awake
<1>23. ASSUME NEW id \in Ids PROVE Alone(id)' /\ Fresh(id)' /\ ServiceMove(id)
  <2>1. Alone(id) /\ Fresh(id) BY DEF IInv, Placed
  <2>2. Posted(id)' <=> Posted(id) BY <1>2 DEF Posted
  <2>3. InSeq(queue_tasks', id) <=> InSeq(queue_tasks, id) /\ id \notin ids
    BY <1>8, <1>11, <1>13, <1>16
  <2>4. InSeq(queue_tasks_deferred', id) <=> InSeq(queue_tasks_deferred, id) /\ id \notin ids
    BY <1>11, <1>14
  <2>5. Once(queue_tasks', id) /\ Once(queue_tasks_deferred', id)
    BY <1>8, <1>11, <1>13, <1>14, <1>17, <2>1 DEF Alone
  <2>6. Waits(id)' => Waits(id) BY <1>4, <2>3, <2>4 DEF Waits
  <2>7. Alone(id)' BY <1>3, <1>4, <2>1, <2>3, <2>4, <2>5, <2>6 DEF Alone
  <2>8. Fresh(id)' BY <1>3, <1>4, <2>1, <2>2, <2>6 DEF Fresh
  <2>9. CASE Waits(id)' <=> Waits(id)
    <3>1. ServiceMove(id) BY <1>3, <1>4, <2>2, <2>9 DEF ServiceMove
    <3> QED BY <2>7, <2>8, <3>1
  <2>10. CASE Waits(id) /\ ~Waits(id)'
    <3>1. ~AtWork(id)' /\ Posted(id)' /\ finals[id] = 0
      BY <1>3, <2>1, <2>2, <2>10 DEF Alone, Fresh
    <3>2. ServiceMove(id) BY <1>4, <2>10, <3>1 DEF ServiceMove
    <3> QED BY <2>7, <2>8, <3>2
  <2> QED BY <2>6, <2>9, <2>10
<1>24. Awaits'
  <2>1. \A d \in Readers : d \in Clients BY DEF Clients
  <2> QED BY <1>2, <1>5, <2>1 DEF IInv, Awaits
<1>25. Remembers'
  <2> SUFFICES ASSUME NEW d \in Readers, pc'[d] \in {"waiting", "aborting"},
                      NEW id \in TasksOf[d] \ received'[d]
               PROVE  ~Forgets(id)'
    BY DEF Remembers
  <2>1. d \in Clients /\ d # c BY <1>2 DEF Clients
  <2>2. id \in Ids /\ id \notin ids BY <1>1, <1>6, <2>1, OwnTasks
  <2>3. ~Forgets(id) BY <1>2, <1>5, <2>1 DEF IInv, Remembers
  <2>4. InSeq(queue_tasks', id) <=> InSeq(queue_tasks, id)
    BY <1>8, <1>11, <1>13, <1>16, <2>2
  <2>5. Waits(id)' <=> Waits(id) BY <1>4, <1>11, <1>14, <2>2, <2>4 DEF Waits
  <2>6. queue_results' = queue_results BY <1>5 DEF resultQueues
  <2> QED BY <1>3, <1>4, <2>3, <2>5, <2>6 DEF Forgets
<1> QED BY <1>2, <1>3, <1>19, <1>20, <1>21, <1>22, <1>23, <1>24, <1>25
        DEF IInv, Placed, ServiceMoves

\* The steps of a server_response_reader, all of them.
LEMMA ReaderStep ==
    ASSUME IInv, NEW c \in Readers, Reader(c)
    PROVE  IInv' /\ ServiceMoves
<1>1. c \in Clients BY DEF Clients
<1>2. CASE PostTasks(c) /\ ClientKeeps
  <2>1. ClientFrame BY <1>2, KeepsIs
  <2>2. CASE /\ Goto(c, "idle", "registered")
             /\ AddWaiting(TasksOf[c]) /\ UNCHANGED <<taskQueues, received>>
    BY <1>2, <2>2, RegisterStep
  <2>3. CASE /\ Goto(c, "registered", "waiting")
             /\ PostRequest(c) /\ UNCHANGED <<waiting_task_ids, resultQueues, received>>
    BY <1>1, <2>1, <2>3, PostStep
  <2> QED BY <1>2, <2>2, <2>3 DEF PostTasks
<1>3. CASE NextResult(c) /\ ClientKeeps BY <1>3, NextResultStep
<1>4. CASE Leave(c) /\ ClientKeeps
  <2>1. ClientFrame /\ QueuesKept /\ UNCHANGED <<resultQueues, received>>
    BY <1>4, KeepsIs DEF Leave, QueuesKept
  <2>2. CASE Goto(c, "waiting", "aborting") /\ UNCHANGED waiting_task_ids
    BY <2>1, <2>2, LeaveStep
  <2>3. CASE /\ Goto(c, "waiting", "stopping")
             /\ waiting_task_ids' = waiting_task_ids \ TasksOf[c]
    BY <2>1, <2>3, LeaveStep
  <2> QED BY <1>4, <2>2, <2>3 DEF Leave
<1>5. CASE Stop(c) /\ ClientKeeps BY <1>5, StopStep
<1>6. CASE StopDecode(c)
  <2>1. ClientFrame BY <1>6 DEF StopDecode, ClientFrame, historyVars
  <2>2. /\ QueuesKept /\ UNCHANGED <<resultQueues, received>>
        /\ waiting_task_ids' = waiting_task_ids \ TasksOf[c]
        /\ Goto(c, "aborting", "stopping")
    BY <1>6 DEF StopDecode, QueuesKept, RemoveWaiting
  <2> QED BY <2>1, <2>2, LeaveStep
<1> QED BY <1>2, <1>3, <1>4, <1>5, <1>6 DEF Reader

\* The steps of a legacy handler, all of them.
LEMMA LegacyClientStep ==
    ASSUME IInv, NEW c \in LegacyClients, Legacy(c)
    PROVE  IInv' /\ ServiceMoves
<1>1. c \in Clients /\ UNCHANGED received /\ ClientKeeps BY DEF Clients, Legacy
<1>2. CASE LegacyPost(c)
  <2>1. ClientFrame BY <1>1, KeepsIs
  <2>2. /\ Goto(c, "idle", "posted") /\ PostRequest(c)
        /\ UNCHANGED <<waiting_task_ids, resultQueues, received>>
    BY <1>1, <1>2 DEF LegacyPost
  <2> QED BY <1>1, <2>1, <2>2, PostStep
<1>3. CASE LegacyRegister(c) \/ LegacyRecv(c) BY <1>1, <1>3, LegacyStep
<1> QED BY <1>2, <1>3 DEF Legacy

\* Every step keeps the invariant and moves each task along its life.
LEMMA NextStep ==
    ASSUME IInv, Next
    PROVE  IInv' /\ ServiceMoves
<1>1. CASE \E c \in Readers : Reader(c) BY <1>1, ReaderStep
<1>2. CASE \E c \in LegacyClients : Legacy(c) BY <1>2, LegacyClientStep
<1>3. CASE Loop BY <1>3, LoopStep
<1> QED BY <1>1, <1>2, <1>3 DEF Next

\* Nothing changes.
LEMMA StutterStep ==
    ASSUME IInv, UNCHANGED vars
    PROVE  IInv'
<1>1. /\ UNCHANGED <<queue_tasks, queue_tasks_deferred, waiting_task_ids, queue_results,
                     queue_results_legacy>>
      /\ UNCHANGED <<slots, batch, n_batch, ctx_shift, stop_internal_decode>>
      /\ UNCHANGED <<pc, received, loop, cursor, hand, finals, dropped>>
  BY DEF vars, queueVars, taskQueues, resultQueues, slotVars, clientVars, historyVars
<1>2. \A t : TaskOK(t)' <=> TaskOK(t) BY <1>1 DEF TaskOK
<1>3. QueuesOK' /\ HandOK' /\ ResultsOK' BY <1>1, <1>2 DEF IInv, QueuesOK, HandOK, ResultsOK
<1>4. SlotsOK' /\ LoopOK' /\ ClientsOK' /\ HistoryOK'
  BY <1>1 DEF IInv, SlotsOK, LoopOK, ClientsOK, HistoryOK
<1>5. \A s \in Slots : \A id : WorksOn(s, id)' <=> WorksOn(s, id) BY <1>1 DEF WorksOn
<1>6. \A id : (AtWork(id)' <=> AtWork(id)) /\ (Waits(id)' <=> Waits(id))
  BY <1>1, <1>5 DEF AtWork, Waits
<1>7. \A id : Posted(id)' <=> Posted(id) BY <1>1 DEF Posted
<1>8. \A id \in Ids : Alone(id)' BY <1>1, <1>5, <1>6 DEF IInv, Placed, Alone
<1>9. \A id \in Ids : Fresh(id)' BY <1>1, <1>6, <1>7 DEF IInv, Placed, Fresh
<1>10. Awaits' BY <1>1 DEF IInv, Awaits
<1>11. RowsOK' BY <1>1 DEF IInv, RowsOK
<1>12. \A t : NoneFor(t)' <=> NoneFor(t) BY <1>1 DEF NoneFor
<1>13. Awake' BY <1>1, <1>12 DEF IInv, Awake, SlotsIdle
<1>14. \A id : Forgets(id)' <=> Forgets(id) BY <1>1, <1>6 DEF Forgets
<1>15. Remembers' BY <1>1, <1>14 DEF IInv, Remembers
<1> QED BY <1>3, <1>4, <1>8, <1>9, <1>10, <1>11, <1>13, <1>15 DEF IInv, Placed

\* The server starts with empty queues and idle slots.
LEMMA InitSound ==
    ASSUME Init
    PROVE  IInv
<1>1. /\ queue_tasks = <<>> /\ queue_tasks_deferred = <<>> /\ waiting_task_ids = {}
      /\ queue_results = <<>> /\ queue_results_legacy = <<>>
      /\ hand = NoTask /\ loop = "wait" /\ cursor = 0
      /\ slots = [s \in Slots |-> UnusedSlot] /\ batch = <<>> /\ n_batch = NBatch
      /\ ctx_shift \in BOOLEAN /\ stop_internal_decode = FALSE
      /\ pc = [c \in Clients |-> "idle"] /\ received = [c \in Clients |-> {}]
      /\ finals = [id \in Ids |-> 0] /\ dropped = {}
  BY DEF Init, QueueInit, SlotsInit
<1>2. Range(queue_tasks) = {} /\ Range(queue_tasks_deferred) = {} BY <1>1, EmptyIs
<1>3. /\ queue_tasks \in Seq(Task) /\ queue_tasks_deferred \in Seq(Task)
      /\ queue_results \in Seq(Result) /\ queue_results_legacy \in Seq(Result)
      /\ batch \in Seq(Row)
  BY <1>1
<1>4. \A id : /\ ~InSeq(queue_tasks, id) /\ ~InSeq(queue_tasks_deferred, id)
              /\ Once(queue_tasks, id) /\ Once(queue_tasks_deferred, id)
  BY <1>1, EmptyIs
<1>5. \A s \in Slots : slots[s] = UnusedSlot BY <1>1
<1>6. /\ SlotOK(UnusedSlot) /\ ~IsProcessing(UnusedSlot) /\ Available(UnusedSlot)
      /\ UnusedSlot \in Slot /\ UnusedSlot.state = "IDLE"
  BY DEF UnusedSlot, SlotOK, Slot, IsProcessing, Loading, Available
<1>7. QueuesOK /\ ResultsOK BY <1>1, <1>2, <1>3 DEF QueuesOK, ResultsOK
<1>8. HandOK BY <1>1, NoTaskOK DEF HandOK
<1>9. SlotsOK BY <1>1, <1>5, <1>6 DEF SlotsOK
<1>10. LoopOK
  <2>1. cursor = 0 /\ n_batch = NBatch /\ loop = "wait" BY <1>1
  <2>2. cursor \in 0..NSlots /\ n_batch \in 1..NBatch BY <2>1, ConstantsAre
  <2>3. ctx_shift \in BOOLEAN /\ stop_internal_decode \in BOOLEAN BY <1>1
  <2> QED BY <2>1, <2>2, <2>3 DEF LoopOK
<1>11. ClientsOK BY <1>1 DEF ClientsOK
<1>12. HistoryOK BY <1>1 DEF HistoryOK
<1>13. \A id : ~AtWork(id) BY <1>5, <1>6 DEF AtWork, WorksOn
<1>14. \A id \in Ids : ~Waits(id) BY <1>1, <1>4, NoTaskOK DEF Waits
<1>15. \A id \in Ids : Alone(id)
  <2>1. \A s \in Slots : \A id : ~WorksOn(s, id) BY <1>13 DEF AtWork
  <2> QED BY <1>4, <1>14, <2>1 DEF Alone
<1>16. \A id \in Ids : Fresh(id) BY <1>1, <1>13, <1>14 DEF Fresh
<1>17. \A c \in Readers : pc[c] = "idle" BY <1>1 DEF Clients
<1>18. Awaits /\ Remembers BY <1>17 DEF Awaits, Remembers
<1>19. RowsOK
  <2>1. DOMAIN batch = {} BY <1>1
  <2> QED BY <1>1, <1>3, <1>5, <1>6, <2>1 DEF RowsOK
<1>20. Awake BY <1>1, <1>2, <1>5, <1>6 DEF Awake, SlotsIdle
<1> QED BY <1>7, <1>8, <1>9, <1>10, <1>11, <1>12, <1>15, <1>16, <1>18, <1>19, <1>20
        DEF IInv, Placed

\* The invariant holds in every state the server can reach.
THEOREM ServerInductive == Spec => []IInv
<1>1. Init => IInv BY InitSound
<1>2. IInv /\ [Next]_vars => IInv' BY NextStep, StutterStep
<1> QED BY <1>1, <1>2, PTL DEF Spec

-----------------------------------------------------------------------------
(* What the invariant says                                                 *)

\* The places of OnePlace in the terms of the invariant.
LEMMA PlacesAre ==
    ASSUME NEW id
    PROVE  /\ Queued(id) <=> Waits(id)
           /\ OnASlot(id) <=> AtWork(id)
           /\ Places(id) # {} <=> Waits(id) \/ AtWork(id)
<1>1. InSeq(queue_tasks, id) <=> \E i \in DOMAIN queue_tasks : queue_tasks[i].id = id
  BY DEF InSeq, Range
<1>2. InSeq(queue_tasks_deferred, id)
          <=> \E i \in DOMAIN queue_tasks_deferred : queue_tasks_deferred[i].id = id
  BY DEF InSeq, Range
<1>3. \A p : p \in Places(id) <=>
          \/ \E i \in DOMAIN queue_tasks : queue_tasks[i].id = id /\ p = <<"queue", i>>
          \/ \E i \in DOMAIN queue_tasks_deferred :
                 queue_tasks_deferred[i].id = id /\ p = <<"deferred", i>>
          \/ hand.id = id /\ p = <<"hand", 0>>
          \/ \E s \in Slots : WorksOn(s, id) /\ p = <<"slot", s>>
  BY DEF Places, Working, WorksOn
<1>4. Queued(id) <=> Waits(id)
  <2>1. ASSUME Queued(id) PROVE Waits(id)
    <3>1. PICK p \in Places(id) : p[1] # "slot" BY <2>1 DEF Queued
    <3> QED BY <1>1, <1>2, <1>3, <3>1 DEF Waits
  <2>2. ASSUME Waits(id) PROVE Queued(id)
    <3>1. \A i : <<"queue", i>>[1] # "slot" /\ <<"deferred", i>>[1] # "slot"
                 /\ <<"hand", i>>[1] # "slot"
      OBVIOUS
    <3>2. CASE InSeq(queue_tasks, id)
      <4>1. PICK i \in DOMAIN queue_tasks : queue_tasks[i].id = id BY <1>1, <3>2
      <4>2. <<"queue", i>> \in Places(id) BY <1>3, <4>1
      <4> QED BY <3>1, <4>2 DEF Queued
    <3>3. CASE InSeq(queue_tasks_deferred, id)
      <4>1. PICK i \in DOMAIN queue_tasks_deferred : queue_tasks_deferred[i].id = id BY <1>2, <3>3
      <4>2. <<"deferred", i>> \in Places(id) BY <1>3, <4>1
      <4> QED BY <3>1, <4>2 DEF Queued
    <3>4. CASE hand.id = id
      <4>1. <<"hand", 0>> \in Places(id) BY <1>3, <3>4
      <4> QED BY <3>1, <4>1 DEF Queued
    <3> QED BY <2>2, <3>2, <3>3, <3>4 DEF Waits
  <2> QED BY <2>1, <2>2
<1>5. OnASlot(id) <=> AtWork(id)
  <2>1. ASSUME OnASlot(id) PROVE AtWork(id)
    <3>1. PICK p \in Places(id) : p[1] = "slot" BY <2>1 DEF OnASlot
    <3>2. \E s \in Slots : WorksOn(s, id) /\ p = <<"slot", s>> BY <1>3, <3>1
    <3> QED BY <3>2 DEF AtWork
  <2>2. ASSUME AtWork(id) PROVE OnASlot(id)
    <3>1. PICK s \in Slots : WorksOn(s, id) BY <2>2 DEF AtWork
    <3>2. <<"slot", s>> \in Places(id) BY <1>3, <3>1
    <3>3. <<"slot", s>>[1] = "slot" OBVIOUS
    <3> QED BY <3>2, <3>3 DEF OnASlot
  <2> QED BY <2>1, <2>2
<1>6. Places(id) # {} <=> Waits(id) \/ AtWork(id)
  <2>1. Places(id) # {} <=> Queued(id) \/ OnASlot(id) BY DEF Queued, OnASlot
  <2> QED BY <1>4, <1>5, <2>1
<1> QED BY <1>4, <1>5, <1>6

\* A task that is Alone has at most one place.
LEMMA OnePlaceHolds ==
    ASSUME IInv
    PROVE  OnePlace
<1> SUFFICES ASSUME NEW id \in Ids PROVE Cardinality(Places(id)) <= 1 BY DEF OnePlace
<1>1. Alone(id) BY DEF IInv, Placed
<1>2. InSeq(queue_tasks, id) <=> \E i \in DOMAIN queue_tasks : queue_tasks[i].id = id
  BY DEF InSeq, Range
<1>3. InSeq(queue_tasks_deferred, id)
          <=> \E i \in DOMAIN queue_tasks_deferred : queue_tasks_deferred[i].id = id
  BY DEF InSeq, Range
<1>4. \A p : p \in Places(id) <=>
          \/ \E i \in DOMAIN queue_tasks : queue_tasks[i].id = id /\ p = <<"queue", i>>
          \/ \E i \in DOMAIN queue_tasks_deferred :
                 queue_tasks_deferred[i].id = id /\ p = <<"deferred", i>>
          \/ hand.id = id /\ p = <<"hand", 0>>
          \/ \E s \in Slots : WorksOn(s, id) /\ p = <<"slot", s>>
  BY DEF Places, Working, WorksOn
<1>5. \A p, q \in Places(id) : p = q
  <2>1. \A i, j \in DOMAIN queue_tasks :
            queue_tasks[i].id = id /\ queue_tasks[j].id = id => i = j
    BY <1>1 DEF Alone, Once
  <2>2. \A i, j \in DOMAIN queue_tasks_deferred :
            queue_tasks_deferred[i].id = id /\ queue_tasks_deferred[j].id = id => i = j
    BY <1>1 DEF Alone, Once
  <2>3. \A s, t \in Slots : WorksOn(s, id) /\ WorksOn(t, id) => s = t BY <1>1 DEF Alone
  <2>4. AtWork(id) <=> \E s \in Slots : WorksOn(s, id) BY DEF AtWork
  <2> SUFFICES ASSUME NEW p \in Places(id), NEW q \in Places(id) PROVE p = q OBVIOUS
  <2>5. CASE InSeq(queue_tasks, id)
    <3>1. ~InSeq(queue_tasks_deferred, id) /\ hand.id # id /\ ~AtWork(id)
      BY <1>1, <2>5 DEF Alone, Waits
    <3> QED BY <1>3, <1>4, <2>1, <2>4, <3>1
  <2>6. CASE InSeq(queue_tasks_deferred, id)
    <3>1. ~InSeq(queue_tasks, id) /\ hand.id # id /\ ~AtWork(id)
      BY <1>1, <2>6 DEF Alone, Waits
    <3> QED BY <1>2, <1>4, <2>2, <2>4, <3>1
  <2>7. CASE hand.id = id
    <3>1. ~InSeq(queue_tasks, id) /\ ~InSeq(queue_tasks_deferred, id) /\ ~AtWork(id)
      BY <1>1, <2>7 DEF Alone, Waits
    <3> QED BY <1>2, <1>3, <1>4, <2>4, <3>1
  <2>8. CASE ~Waits(id) BY <1>2, <1>3, <1>4, <2>3, <2>8 DEF Waits
  <2> QED BY <2>5, <2>6, <2>7, <2>8 DEF Waits
<1>6. CASE Places(id) = {} BY <1>6, FS_EmptySet
<1>7. CASE Places(id) # {}
  <2>1. PICK p : p \in Places(id) BY <1>7
  <2>2. Places(id) = {p} BY <1>5, <2>1
  <2> QED BY <2>2, FS_Singleton
<1> QED BY <1>6, <1>7

\* Each part of a server's state keeps its type: the queues hold tasks and
\* results, a slot a state of server_slot, a view of the batch has a row.
THEOREM ServerTypeCorrect == Spec => []TypeOK
<1>1. IInv => TypeOK
  BY DEF IInv, QueuesOK, HandOK, ResultsOK, SlotsOK, LoopOK, ClientsOK, HistoryOK, RowsOK, Row,
         TaskOK, TypeOK, QueueTypeOK
<1> QED BY <1>1, ServerInductive, PTL

\* However defer, notify_slot_changed, the cancels of post and the handlers
\* interleave, a task is in one place at a time.
THEOREM TasksInOnePlace == Spec => []OnePlace
<1>1. IInv => OnePlace BY OnePlaceHolds
<1> QED BY <1>1, ServerInductive, PTL

\* start_loop waits on an empty queue only when every slot is idle and every
\* deferred task names a slot that does not exist.
THEOREM LoopSleepsIdle == Spec => []SleepsOnlyIdle
<1>1. IInv => SleepsOnlyIdle
  <2> SUFFICES ASSUME IInv, loop = "wait", queue_tasks = <<>>,
                      NEW i \in DOMAIN queue_tasks_deferred
               PROVE  /\ SlotsIdle
                      /\ queue_tasks_deferred[i].id_slot \notin Slots \cup {AnySlot}
    BY DEF SleepsOnlyIdle, IInv, Awake
  <2>1. SlotsIdle BY DEF IInv, Awake
  <2>2. queue_tasks_deferred[i] \in Range(queue_tasks_deferred) BY DEF Range
  <2>3. PICK t : t = queue_tasks_deferred[i] OBVIOUS
  <2>4. NoneFor(t) BY <2>2, <2>3 DEF IInv, Awake
  <2>5. 1 \in Slots BY ConstantsAre
  <2> QED BY <2>1, <2>3, <2>4, <2>5 DEF SlotsIdle, NoneFor
<1> QED BY <1>1, ServerInductive, PTL

\* The batch update_slots decodes is all embeddings or all completions, with
\* one row of logits for each slot.
THEOREM BatchesWellFormed == Spec => []BatchWellFormed
<1>1. IInv => BatchWellFormed BY DEF IInv, RowsOK, BatchWellFormed
<1> QED BY <1>1, ServerInductive, PTL

\* A waiting reader's task is somewhere, its result is on the way, or it was
\* dropped by a cancelled decode or a new system prompt.
THEOREM NobodyForgotten == Spec => []NeverForgotten
<1>1. IInv => NeverForgotten
  <2> SUFFICES ASSUME IInv, NEW c \in Readers, pc[c] \in {"waiting", "aborting"},
                      NEW id \in TasksOf[c] \ (received[c] \cup dropped)
               PROVE  Places(id) # {} \/ HasResult(queue_results, {id})
    BY DEF NeverForgotten
  <2>1. ~Forgets(id) BY DEF IInv, Remembers
  <2> QED BY <2>1, PlacesAre DEF Forgets
<1> QED BY <1>1, ServerInductive, PTL

-----------------------------------------------------------------------------
(* Server implements TaskService                                           *)

LifeIs ==
    \A id \in Ids :
        Life[id] = IF Waits(id) THEN "queued" ELSE IF AtWork(id) THEN "running"
                   ELSE IF Posted(id) THEN "over" ELSE "new"

\* The life of a task in the terms of the invariant.
LEMMA LifeHolds == LifeIs
BY PlacesAre DEF LifeIs, Life

\* The same after a step.
LEMMA LifeHoldsNext == LifeIs'
BY LifeHolds, PTL

\* What happens to a task in one step is a step of the service.
LEMMA ServiceStep ==
    ASSUME IInv, IInv', ServiceMoves
    PROVE  Service!Next
<1> SUFFICES ASSUME NEW id \in Ids
             PROVE  Service!Stays(id) \/ Service!Moved(id) \/ Service!Answered(id)
  BY DEF Service!Next
<1>1. PICK old : old = Life[id] OBVIOUS
<1>2. PICK new : new = Life'[id] OBVIOUS
<1>3. old = IF Waits(id) THEN "queued" ELSE IF AtWork(id) THEN "running"
            ELSE IF Posted(id) THEN "over" ELSE "new"
  BY <1>1, LifeHolds DEF LifeIs
<1>4. new = IF Waits(id)' THEN "queued" ELSE IF AtWork(id)' THEN "running"
            ELSE IF Posted(id)' THEN "over" ELSE "new"
  BY <1>2, LifeHoldsNext DEF LifeIs
<1>5. Alone(id) /\ Fresh(id) /\ Alone(id)' /\ Fresh(id)' BY DEF IInv, Placed
<1>6. ServiceMove(id) BY DEF ServiceMoves
<1>7. CASE /\ Waits(id)' <=> Waits(id)
           /\ AtWork(id)' <=> AtWork(id)
           /\ Posted(id)' <=> Posted(id)
           /\ finals'[id] = finals[id]
  <2>1. new = old BY <1>3, <1>4, <1>7
  <2> QED BY <1>1, <1>2, <1>7, <2>1 DEF Service!Stays
<1>8. CASE ~Posted(id) /\ Posted(id)' /\ Waits(id)' /\ finals'[id] = finals[id]
  <2>1. ~Waits(id) /\ ~AtWork(id) BY <1>5, <1>8 DEF Fresh
  <2>2. old = "new" /\ new = "queued" BY <1>3, <1>4, <1>8, <2>1
  <2>3. <<old, new>> \in Service!Moves BY <2>2 DEF Service!Moves
  <2> QED BY <1>1, <1>2, <1>8, <2>3 DEF Service!Moved
<1>9. CASE Waits(id) /\ AtWork(id)' /\ ~Waits(id)' /\ Posted(id)' /\ finals'[id] = finals[id]
  <2>1. old = "queued" /\ new = "running" BY <1>3, <1>4, <1>9
  <2>2. <<old, new>> \in Service!Moves BY <2>1 DEF Service!Moves
  <2> QED BY <1>1, <1>2, <1>9, <2>2 DEF Service!Moved
<1>10. CASE /\ Waits(id) \/ AtWork(id)
            /\ ~Waits(id)' /\ ~AtWork(id)' /\ Posted(id)' /\ finals[id] = 0
            /\ finals'[id] = finals[id] \/ finals'[id] = finals[id] + 1
  <2>1. old \in {"queued", "running"} /\ new = "over" BY <1>3, <1>4, <1>10
  <2>2. CASE finals'[id] = finals[id]
    <3>1. <<old, new>> \in Service!Moves BY <2>1 DEF Service!Moves
    <3> QED BY <1>1, <1>2, <2>2, <3>1 DEF Service!Moved
  <2>3. CASE finals'[id] = finals[id] + 1
    <3>1. finals'[id] = 1 BY <1>10, <2>3
    <3> QED BY <1>1, <1>2, <1>10, <2>1, <3>1 DEF Service!Answered
  <2> QED BY <1>10, <2>2, <2>3
<1> QED BY <1>6, <1>7, <1>8, <1>9, <1>10 DEF ServiceMove

\* At the start every task is new.
LEMMA ServiceStarts ==
    ASSUME Init
    PROVE  Service!Init
<1>1. IInv BY InitSound
<1>2. pc = [c \in Clients |-> "idle"] /\ finals = [id \in Ids |-> 0] BY DEF Init
<1>3. \A id \in Ids : ~Posted(id) BY <1>2 DEF Posted
<1>4. \A id \in Ids : ~Waits(id) /\ ~AtWork(id) BY <1>1, <1>3 DEF IInv, Placed, Fresh
<1>5. \A id \in Ids : Life[id] = "new" BY <1>3, <1>4, LifeHolds DEF LifeIs
<1>6. Life = [id \in Ids |-> "new"] BY <1>5 DEF Life
<1> QED BY <1>2, <1>6 DEF Service!Init

\* When nothing changes the service stutters.
LEMMA ServiceStutters ==
    ASSUME UNCHANGED vars
    PROVE  UNCHANGED <<Life, finals>>
<1>1. /\ UNCHANGED <<queue_tasks, queue_tasks_deferred, hand, slots, pc, finals>>
  BY DEF vars, queueVars, taskQueues, slotVars, clientVars, historyVars
<1>2. \A id : /\ Waits(id)' <=> Waits(id)
              /\ AtWork(id)' <=> AtWork(id)
              /\ Posted(id)' <=> Posted(id)
  BY <1>1 DEF Waits, AtWork, WorksOn, Posted
<1>3. \A id \in Ids : Life'[id] = Life[id] BY <1>2, LifeHolds, LifeHoldsNext DEF LifeIs
<1>4. Life = [id \in Ids |-> Life[id]] BY DEF Life
<1>5. Life' = [id \in Ids |-> Life'[id]] BY DEF Life
<1>6. Life' = Life BY <1>3, <1>4, <1>5
<1> QED BY <1>1, <1>6

\* Every run of the server is a run of the service its clients count on: a
\* task is started once and its final result is sent by the step that ends it.
THEOREM ServerIsTaskService == Spec => IsTaskService
<1>1. Init => Service!Init BY ServiceStarts
<1>2. IInv /\ IInv' /\ [Next]_vars => [Service!Next]_<<Life, finals>>
  <2> SUFFICES ASSUME IInv, IInv', [Next]_vars PROVE [Service!Next]_<<Life, finals>>
    OBVIOUS
  <2>1. CASE Next
    <3>1. Service!Next BY <2>1, NextStep, ServiceStep
    <3> QED BY <3>1
  <2>2. CASE UNCHANGED vars
    <3>1. UNCHANGED <<Life, finals>> BY <2>2, ServiceStutters
    <3> QED BY <3>1
  <2> QED BY <2>1, <2>2
<1> QED BY <1>1, <1>2, ServerInductive, PTL DEF Spec, IsTaskService, Service!Spec

=============================================================================
