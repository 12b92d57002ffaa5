--------------------------- MODULE MoeShadowProofs ---------------------------
(***************************************************************************)
(* Who owns the shadow and whose accesses it counts, and that its list is  *)
(* a byte-bounded LRU, for any contexts, slices, budgets, trace limit and  *)
(* kernel entries.                                                         *)
(***************************************************************************)
EXTENDS MoeShadow, FiniteSetTheorems, WellFoundedInduction, NaturalsInduction,
        SequenceTheorems, TLAPS

-----------------------------------------------------------------------------
(* Sums over finite sets                                                   *)

\* Of the subsets of a finite set for which a claim fails, one is smallest.
LEMMA SmallestSet ==
    ASSUME NEW S, IsFiniteSet(S), NEW Bad, Bad \subseteq SUBSET S, Bad # {}
    PROVE  \E T \in Bad : \A U \in SUBSET T : U # T => U \notin Bad
<1>1. IsWellFoundedOn(StrictSubsetOrdering(S), FiniteSubsetsOf(S))
  BY FS_StrictSubsetOrderingWellFounded
<1>2. Bad \subseteq FiniteSubsetsOf(S) BY FS_Subset DEF FiniteSubsetsOf
<1>3. \E T \in Bad : \A U \in Bad : <<U, T>> \notin StrictSubsetOrdering(S)
  BY <1>1, <1>2, WFMin
<1> QED BY <1>3 DEF StrictSubsetOrdering

\* The recursive function behind SumFunctionOnSet(f, S).
Picked(S) == CHOOSE x \in S : TRUE
Sums(f, S, g) == g = [T \in SUBSET S |-> IF T = {} THEN 0 ELSE f[Picked(T)] + g[T \ {Picked(T)}]]

LEMMA SumUnfolds ==
    ASSUME NEW f, NEW S
    PROVE  SumFunctionOnSet(f, S) = (CHOOSE g : Sums(f, S, g))[S]
BY Zenon DEF SumFunctionOnSet, FoldFunctionOnSet, MapThenFoldSet, Sums, Picked

\* Two such functions agree where both are defined.
LEMMA SumsAgree ==
    ASSUME NEW f, NEW S, NEW T, NEW g, NEW h, Sums(f, S, g), Sums(f, T, h),
           NEW U \in SUBSET S, U \in SUBSET T, IsFiniteSet(U)
    PROVE  g[U] = h[U]
<1> DEFINE Bad == {V \in SUBSET U : g[V] # h[V]}
<1>1. SUFFICES ASSUME Bad # {} PROVE FALSE OBVIOUS
<1>2. PICK V \in Bad : \A W \in SUBSET V : W # V => W \notin Bad
  <2>1. Bad \subseteq SUBSET U OBVIOUS
  <2> HIDE DEF Bad
  <2> QED BY <1>1, <2>1, SmallestSet
<1>3. V # {} /\ V \in SUBSET S /\ V \in SUBSET T BY <1>2 DEF Sums
<1>4. Picked(V) \in V BY <1>3 DEF Picked
<1>5. g[V \ {Picked(V)}] = h[V \ {Picked(V)}] BY <1>2, <1>4
<1>6. /\ g[V] = f[Picked(V)] + g[V \ {Picked(V)}]
      /\ h[V] = f[Picked(V)] + h[V \ {Picked(V)}]
  BY <1>3 DEF Sums
<1> QED BY <1>2, <1>5, <1>6

\* There is one for every finite set.
LEMMA SumsExist ==
    ASSUME NEW f, NEW S, IsFiniteSet(S)
    PROVE  \E g : Sums(f, S, g)
<1> DEFINE Bad == {V \in SUBSET S : ~\E g : Sums(f, V, g)}
<1>1. SUFFICES ASSUME Bad # {} PROVE FALSE OBVIOUS
<1>2. PICK V \in Bad : \A W \in SUBSET V : W # V => W \notin Bad
  <2>1. Bad \subseteq SUBSET S OBVIOUS
  <2> HIDE DEF Bad
  <2> QED BY <1>1, <2>1, SmallestSet
<1> DEFINE H(T) == CHOOSE h : Sums(f, T, h)
           Rest(T) == T \ {Picked(T)}
           g == [T \in SUBSET V |-> IF T = {} THEN 0 ELSE f[Picked(T)] + H(Rest(T))[Rest(T)]]
<1>3. \A T \in SUBSET V : IsFiniteSet(T) BY <1>2, FS_Subset
<1>4. \A T \in SUBSET V : T # V => Sums(f, T, H(T)) BY <1>2
<1>5. \A T \in SUBSET V : T # {} => Rest(T) \in SUBSET V /\ Rest(T) # V /\ Rest(T) \in SUBSET T
  BY DEF Picked
<1> HIDE DEF H
<1>6. ASSUME NEW T \in SUBSET V, T # V PROVE g[T] = H(T)[T]
  <2>1. Sums(f, T, H(T)) BY <1>4, <1>6
  <2>2. H(T)[T] = IF T = {} THEN 0 ELSE f[Picked(T)] + H(T)[Rest(T)] BY <2>1 DEF Sums
  <2>3. ASSUME T # {} PROVE H(T)[Rest(T)] = H(Rest(T))[Rest(T)]
    <3>1. Sums(f, Rest(T), H(Rest(T))) BY <1>4, <1>5, <2>3
    <3>2. IsFiniteSet(Rest(T)) BY <1>3, <1>5, <2>3
    <3> QED BY <2>1, <3>1, <3>2, SumsAgree
  <2> QED BY <2>2, <2>3
<1>7. Sums(f, V, g)
  <2>1. \A T \in SUBSET V : T # {} => g[T] = f[Picked(T)] + g[Rest(T)]
    <3> HIDE DEF Rest
    <3> QED BY <1>5, <1>6
  <2>2. \A T \in SUBSET V : g[T] = IF T = {} THEN 0 ELSE f[Picked(T)] + g[Rest(T)]
    BY <2>1
  <2>3. g = [T \in SUBSET V |-> g[T]] OBVIOUS
  <2> HIDE DEF g
  <2> QED BY <2>2, <2>3 DEF Sums
<1> QED BY <1>2, <1>7

\* What SumFunctionOnSet computes.
LEMMA SumOfPicked ==
    ASSUME NEW f, NEW S, IsFiniteSet(S)
    PROVE  SumFunctionOnSet(f, S) = IF S = {} THEN 0 ELSE f[Picked(S)] + SumFunctionOnSet(f, S \ {Picked(S)})
<1> DEFINE H(T) == CHOOSE h : Sums(f, T, h)
           Rest == S \ {Picked(S)}
<1>1. IsFiniteSet(Rest) BY FS_Subset
<1>2. Sums(f, S, H(S)) /\ Sums(f, Rest, H(Rest)) BY <1>1, SumsExist
<1>3. SumFunctionOnSet(f, S) = H(S)[S] /\ SumFunctionOnSet(f, Rest) = H(Rest)[Rest] BY SumUnfolds
<1> HIDE DEF H
<1>4. H(S)[Rest] = H(Rest)[Rest] BY <1>1, <1>2, SumsAgree
<1>5. H(S)[S] = IF S = {} THEN 0 ELSE f[Picked(S)] + H(S)[Rest] BY <1>2 DEF Sums
<1> QED BY <1>3, <1>4, <1>5

LEMMA SumOfNone == ASSUME NEW f PROVE SumFunctionOnSet(f, {}) = 0
BY SumOfPicked, FS_EmptySet

\* Sums of naturals are naturals.
LEMMA SumIsNat ==
    ASSUME NEW f, NEW S, IsFiniteSet(S), \A x \in S : f[x] \in Nat
    PROVE  SumFunctionOnSet(f, S) \in Nat
<1> DEFINE Bad == {T \in SUBSET S : SumFunctionOnSet(f, T) \notin Nat}
<1>1. SUFFICES ASSUME Bad # {} PROVE FALSE OBVIOUS
<1>2. PICK T \in Bad : \A U \in SUBSET T : U # T => U \notin Bad
  <2>1. Bad \subseteq SUBSET S OBVIOUS
  <2> HIDE DEF Bad
  <2> QED BY <1>1, <2>1, SmallestSet
<1>3. IsFiniteSet(T) BY FS_Subset
<1>4. T # {} BY SumOfNone
<1>5. Picked(T) \in T BY <1>4 DEF Picked
<1>6. SumFunctionOnSet(f, T \ {Picked(T)}) \in Nat BY <1>2, <1>5
<1>7. SumFunctionOnSet(f, T) = f[Picked(T)] + SumFunctionOnSet(f, T \ {Picked(T)})
  BY <1>3, <1>4, SumOfPicked
<1> QED BY <1>5, <1>6, <1>7

\* Any element can be taken out first.
LEMMA SumWithout ==
    ASSUME NEW f, NEW S, IsFiniteSet(S), \A x \in S : f[x] \in Nat, NEW x \in S
    PROVE  SumFunctionOnSet(f, S) = f[x] + SumFunctionOnSet(f, S \ {x})
<1> DEFINE Sum(T) == SumFunctionOnSet(f, T)
           Bad == {T \in SUBSET S : \E y \in T : Sum(T) # f[y] + Sum(T \ {y})}
<1>0. \A T \in SUBSET S : IsFiniteSet(T) /\ Sum(T) \in Nat
  <2> SUFFICES ASSUME NEW T \in SUBSET S PROVE IsFiniteSet(T) /\ Sum(T) \in Nat OBVIOUS
  <2>1. IsFiniteSet(T) BY FS_Subset
  <2> QED BY <2>1, SumIsNat
<1>1. SUFFICES ASSUME Bad # {} PROVE FALSE OBVIOUS
<1>2. PICK T \in Bad : \A U \in SUBSET T : U # T => U \notin Bad
  <2>1. Bad \subseteq SUBSET S OBVIOUS
  <2> HIDE DEF Bad
  <2> QED BY <1>1, <2>1, SmallestSet
<1>3. PICK y \in T : Sum(T) # f[y] + Sum(T \ {y}) BY <1>2
<1> DEFINE p == Picked(T)
<1>4. p \in T BY <1>3 DEF Picked
<1>5. Sum(T) = f[p] + Sum(T \ {p}) BY <1>0, <1>3, SumOfPicked
<1>6. p # y BY <1>3, <1>5
<1>7. T \ {p} \notin Bad /\ T \ {y} \notin Bad BY <1>2, <1>3, <1>4
<1> HIDE DEF p
<1>8. Sum(T \ {p}) = f[y] + Sum((T \ {p}) \ {y}) BY <1>6, <1>7, <1>3
<1>9. Sum(T \ {y}) = f[p] + Sum((T \ {y}) \ {p}) BY <1>6, <1>7, <1>4
<1>10. (T \ {p}) \ {y} = (T \ {y}) \ {p} OBVIOUS
<1>11. f[p] \in Nat /\ f[y] \in Nat /\ Sum((T \ {p}) \ {y}) \in Nat BY <1>0, <1>3, <1>4
<1> HIDE DEF Sum
<1> QED BY <1>3, <1>5, <1>8, <1>9, <1>10, <1>11

\* Renaming what is summed.
LEMMA SumRenamed ==
    ASSUME NEW f, NEW g, NEW S, NEW R, NEW h \in Bijection(S, R), IsFiniteSet(S),
           \A x \in S : f[x] \in Nat /\ g[h[x]] = f[x]
    PROVE  SumFunctionOnSet(g, R) = SumFunctionOnSet(f, S)
<1>0. /\ R = {h[x] : x \in S}
      /\ \A x, y \in S : h[x] = h[y] => x = y
  BY DEF Bijection, Injection, Surjection, IsInjective
<1> DEFINE Image(T) == {h[x] : x \in T}
           Bad == {T \in SUBSET S : SumFunctionOnSet(g, Image(T)) # SumFunctionOnSet(f, T)}
<1>1. SUFFICES ASSUME Bad # {} PROVE FALSE BY <1>0
<1>2. PICK T \in Bad : \A U \in SUBSET T : U # T => U \notin Bad
  <2>1. Bad \subseteq SUBSET S OBVIOUS
  <2> HIDE DEF Bad
  <2> QED BY <1>1, <2>1, SmallestSet
<1>3. T # {}
  <2>1. Image({}) = {} OBVIOUS
  <2> QED BY <1>2, <2>1, SumOfNone
<1>4. PICK y \in T : TRUE BY <1>3
<1>5. IsFiniteSet(T) /\ IsFiniteSet(Image(T))
  <2> DEFINE k == [x \in T |-> h[x]]
  <2>1. IsFiniteSet(T) BY FS_Subset
  <2>2. k \in Surjection(T, Image(T)) BY DEF Surjection
  <2> HIDE DEF Image, k
  <2> QED BY <2>1, <2>2, FS_Surjection
<1>6. Image(T \ {y}) = Image(T) \ {h[y]} BY <1>0, <1>4
<1>7. T \ {y} \notin Bad BY <1>2, <1>4
<1>8. SumFunctionOnSet(f, T) = f[y] + SumFunctionOnSet(f, T \ {y})
  BY <1>4, <1>5, SumWithout
<1>9. \A z \in Image(T) : g[z] \in Nat OBVIOUS
<1>10. h[y] \in Image(T) BY <1>4
<1> HIDE DEF Image
<1>11. SumFunctionOnSet(g, Image(T)) = g[h[y]] + SumFunctionOnSet(g, Image(T) \ {h[y]})
  BY <1>5, <1>9, <1>10, SumWithout
<1>12. SumFunctionOnSet(g, Image(T \ {y})) = SumFunctionOnSet(f, T \ {y}) BY <1>7
<1> QED BY <1>2, <1>4, <1>6, <1>8, <1>11, <1>12

\* Only the values that are summed count.
LEMMA SumSame ==
    ASSUME NEW f, NEW g, NEW S, IsFiniteSet(S), \A x \in S : f[x] \in Nat /\ g[x] = f[x]
    PROVE  SumFunctionOnSet(g, S) = SumFunctionOnSet(f, S)
<1> DEFINE h == [x \in S |-> x]
<1>1. h \in Bijection(S, S) BY DEF Bijection, Injection, Surjection, IsInjective
<1>2. \A x \in S : g[h[x]] = f[x] OBVIOUS
<1> HIDE DEF h
<1> QED BY <1>1, <1>2, SumRenamed

\* Two parts of a sum.
LEMMA SumParts ==
    ASSUME NEW f, NEW S, NEW T, IsFiniteSet(S), \A x \in S : f[x] \in Nat, T \in SUBSET S
    PROVE  SumFunctionOnSet(f, S) = SumFunctionOnSet(f, T) + SumFunctionOnSet(f, S \ T)
<1> DEFINE Sum(U) == SumFunctionOnSet(f, U)
           Bad == {U \in SUBSET T : Sum((S \ T) \cup U) # Sum(U) + Sum(S \ T)}
<1>0. \A U \in SUBSET S : IsFiniteSet(U) /\ Sum(U) \in Nat
  <2> SUFFICES ASSUME NEW U \in SUBSET S PROVE IsFiniteSet(U) /\ Sum(U) \in Nat OBVIOUS
  <2>1. IsFiniteSet(U) BY FS_Subset
  <2> QED BY <2>1, SumIsNat
<1>1. SUFFICES Bad = {}
  <2>1. (S \ T) \cup T = S OBVIOUS
  <2> QED BY <2>1
<1>2. SUFFICES ASSUME Bad # {} PROVE FALSE OBVIOUS
<1>3. PICK U \in Bad : \A V \in SUBSET U : V # U => V \notin Bad
  <2>1. Bad \subseteq SUBSET T OBVIOUS
  <2>2. IsFiniteSet(T) BY <1>0
  <2> HIDE DEF Bad
  <2> QED BY <1>2, <2>1, <2>2, SmallestSet
<1>4. U # {}
  <2> SUFFICES ASSUME U = {} PROVE FALSE OBVIOUS
  <2>1. (S \ T) \cup U = S \ T OBVIOUS
  <2>2. Sum(S \ T) \in Nat /\ Sum(U) = 0 BY <1>0, SumOfNone
  <2>3. Sum((S \ T) \cup U) # Sum(U) + Sum(S \ T) BY <1>3
  <2> HIDE DEF Sum
  <2> QED BY <2>1, <2>2, <2>3
<1>5. PICK y \in U : TRUE BY <1>4
<1>6. U \ {y} \notin Bad BY <1>3, <1>5
<1>7. ((S \ T) \cup U) \ {y} = (S \ T) \cup (U \ {y}) BY <1>5
<1>8. y \in (S \ T) \cup U /\ (S \ T) \cup U \in SUBSET S /\ U \in SUBSET S BY <1>5
<1>9. \A x \in (S \ T) \cup U : f[x] \in Nat BY <1>8
<1>10. Sum((S \ T) \cup U) = f[y] + Sum(((S \ T) \cup U) \ {y})
  BY <1>0, <1>8, <1>9, SumWithout
<1>11. Sum(U) = f[y] + Sum(U \ {y}) BY <1>0, <1>5, <1>8, SumWithout
<1>12. f[y] \in Nat /\ Sum(U \ {y}) \in Nat /\ Sum(S \ T) \in Nat BY <1>0, <1>5, <1>8
<1>13. Sum((S \ T) \cup (U \ {y})) = Sum(U \ {y}) + Sum(S \ T) BY <1>5, <1>6
<1>14. Sum((S \ T) \cup U) # Sum(U) + Sum(S \ T) BY <1>3
<1>15. Sum((S \ T) \cup U) = f[y] + (Sum(U \ {y}) + Sum(S \ T)) BY <1>7, <1>10, <1>13
<1>16. Sum(U) + Sum(S \ T) = (f[y] + Sum(U \ {y})) + Sum(S \ T) BY <1>11
<1> HIDE DEF Sum
<1> QED BY <1>12, <1>14, <1>15, <1>16

\* A sum splits into the sums of a part and of the rest.
Splits(f, S) ==
    \A T \in SUBSET S :
        SumFunctionOnSet(f, S) = SumFunctionOnSet(f, T) + SumFunctionOnSet(f, S \ T)

LEMMA SumSplits ==
    ASSUME NEW f, NEW S, IsFiniteSet(S), \A x \in S : f[x] \in Nat
    PROVE  Splits(f, S)
BY SumParts DEF Splits

-----------------------------------------------------------------------------
(* Lists of entries                                                        *)

Entries == [key : Keys, bytes : Sizes]

Listed(s, I) ==
    /\ I = {s[i].key : i \in 1..Len(s)}
    /\ \A i, j \in 1..Len(s) : s[i].key = s[j].key => i = j

\* Sizes are numbers of bytes.
LEMMA SizesAreNumbers ==
    /\ SizeMax \in Nat /\ \A b \in Sizes : b \in Nat /\ b <= SizeMax
    /\ \A c \in Capacities : c \in Nat /\ c <= SizeMax
BY SizesAssumption

\* size_t arithmetic that does not leave the range is arithmetic.
LEMMA SmallSums ==
    ASSUME NEW a \in Nat, NEW b \in Nat
    PROVE  /\ a + b <= SizeMax => Plus(a, b) = a + b
           /\ b <= a /\ a <= SizeMax => Minus(a, b) = a - b
<1>1. \A x \in Nat : x <= SizeMax => x % (SizeMax + 1) = x
  BY SizesAreNumbers
<1>2. a + b \in Nat /\ (b <= a => a - b \in Nat /\ a - b <= a) OBVIOUS
<1> QED BY <1>1, <1>2, SizesAreNumbers DEF Plus, Minus

LEMMA EntryFacts ==
    ASSUME NEW s \in Seq(Entries), NEW i \in 1..Len(s)
    PROVE  s[i] \in Entries /\ s[i].key \in Keys /\ s[i].bytes \in Sizes /\ s[i].bytes \in Nat
<1>1. s[i] \in Entries OBVIOUS
<1> QED BY <1>1, SizesAreNumbers DEF Entries

\* Place finds the one entry of a key.
LEMMA PlaceFinds ==
    ASSUME NEW s \in Seq(Entries), NEW I, Listed(s, I)
    PROVE  /\ \A k \in I : Place(s, k) \in 1..Len(s) /\ s[Place(s, k)].key = k
           /\ \A i \in 1..Len(s) : s[i].key \in I /\ Place(s, s[i].key) = i
<1>1. ASSUME NEW k \in I PROVE Place(s, k) \in 1..Len(s) /\ s[Place(s, k)].key = k
  <2>1. \E i \in 1..Len(s) : s[i].key = k BY DEF Listed
  <2> QED BY <2>1 DEF Place
<1>2. ASSUME NEW i \in 1..Len(s) PROVE s[i].key \in I /\ Place(s, s[i].key) = i
  <2>1. s[i].key \in I BY DEF Listed
  <2>2. Place(s, s[i].key) \in 1..Len(s) /\ s[Place(s, s[i].key)].key = s[i].key
    BY <1>1, <2>1
  <2> QED BY <2>1, <2>2 DEF Listed
<1> QED BY <1>1, <1>2

\* Bytes are numbers, and add up.
LEMMA BytesAdd ==
    ASSUME NEW s \in Seq(Entries), NEW S \in SUBSET (1..Len(s))
    PROVE  /\ Bytes(s, S) \in Nat
           /\ \A T \in SUBSET S : Bytes(s, S) = Bytes(s, T) + Bytes(s, S \ T)
           /\ \A i \in S : Bytes(s, S) = s[i].bytes + Bytes(s, S \ {i})
           /\ Bytes(s, {}) = 0
<1> DEFINE f == [i \in 1..Len(s) |-> s[i].bytes]
<1>1. IsFiniteSet(S)
  <2>1. Len(s) \in Int OBVIOUS
  <2>2. IsFiniteSet(1..Len(s)) BY <2>1, FS_Interval
  <2> QED BY <2>2, FS_Subset
<1>2. \A i \in S : f[i] = s[i].bytes /\ f[i] \in Nat BY EntryFacts
<1>3. \A T : Bytes(s, T) = SumFunctionOnSet(f, T) BY DEF Bytes
<1> HIDE DEF f
<1>4. SumFunctionOnSet(f, S) \in Nat BY <1>1, <1>2, SumIsNat
<1>7. \A i \in S : f[i] \in Nat BY <1>2
<1>5. Splits(f, S) BY <1>1, <1>7, SumSplits
<1>6. \A i \in S : SumFunctionOnSet(f, S) = f[i] + SumFunctionOnSet(f, S \ {i})
  BY <1>1, <1>2, SumWithout
<1> QED BY <1>2, <1>3, <1>4, <1>5, <1>6, SumOfNone DEF Splits

\* The bytes of entries are the same at other places.
LEMMA BytesMoved ==
    ASSUME NEW s \in Seq(Entries), NEW t \in Seq(Entries), NEW S, NEW R,
           \A i \in S : i \in 1..Len(s), \A i \in R : i \in 1..Len(t),
           NEW h \in Bijection(S, R),
           \A i \in S : t[h[i]].bytes = s[i].bytes
    PROVE  Bytes(t, R) = Bytes(s, S)
<1> DEFINE f == [i \in 1..Len(s) |-> s[i].bytes]
           g == [i \in 1..Len(t) |-> t[i].bytes]
<1>1. IsFiniteSet(S)
  <2>1. Len(s) \in Int OBVIOUS
  <2>2. IsFiniteSet(1..Len(s)) BY <2>1, FS_Interval
  <2>3. S \in SUBSET (1..Len(s)) OBVIOUS
  <2> QED BY <2>2, <2>3, FS_Subset
<1>2. \A i \in S : h[i] \in 1..Len(t) BY DEF Bijection, Injection
<1>4. \A i \in S : f[i] \in Nat /\ g[h[i]] = f[i] BY <1>2, EntryFacts
<1>3. Bytes(s, S) = SumFunctionOnSet(f, S)
      /\ Bytes(t, R) = SumFunctionOnSet(g, R)
  BY DEF Bytes
<1> HIDE DEF f, g
<1>5. SumFunctionOnSet(g, R) = SumFunctionOnSet(f, S)
  BY <1>1, <1>4, SumRenamed
<1> QED BY <1>3, <1>5

\* r and its keys J are s and its keys I without the entry at p.
Dropped(s, I, p, r, J) ==
    /\ Len(r) = Len(s) - 1 /\ \A i \in 1..Len(r) : r[i] = s[IF i < p THEN i ELSE i + 1]
    /\ J = I \ {s[p].key}

\* The list without an entry keeps the others in their order.
LEMMA ListWithout ==
    ASSUME NEW s \in Seq(Entries), NEW I, Listed(s, I), NEW p \in 1..Len(s),
           NEW r \in Seq(Entries), NEW J, Dropped(s, I, p, r, J)
    PROVE  /\ Listed(r, J)
           /\ \A x \in J : r[Place(r, x)] = s[Place(s, x)]
           /\ \A x, y \in J : Place(r, x) < Place(r, y) <=> Place(s, x) < Place(s, y)
           /\ Bytes(s, 1..Len(s)) = s[p].bytes + Bytes(r, 1..Len(r))
<1>0. J = I \ {s[p].key} BY DEF Dropped
<1> DEFINE h == [i \in 1..Len(s) - 1 |-> IF i < p THEN i ELSE i + 1]
<1>1. Len(r) = Len(s) - 1 /\ Len(s) \in Nat /\ Len(r) \in Nat /\ p \in Nat
  BY DEF Dropped
<1>2. \A i \in 1..Len(r) : h[i] \in 1..Len(s) \ {p} /\ r[i] = s[h[i]] BY <1>1 DEF Dropped
<1>3. \A i, j \in 1..Len(r) : i < j <=> h[i] < h[j] BY <1>1
<1>4. \A j \in 1..Len(s) \ {p} : \E i \in 1..Len(r) : h[i] = j
  <2> SUFFICES ASSUME NEW j \in 1..Len(s) \ {p} PROVE \E i \in 1..Len(r) : h[i] = j
    OBVIOUS
  <2>1. CASE j < p
    <3>1. j \in 1..Len(r) /\ h[j] = j BY <1>1, <2>1
    <3> QED BY <3>1
  <2>2. CASE j > p
    <3>1. j - 1 \in 1..Len(r) /\ h[j - 1] = j BY <1>1, <2>2
    <3> QED BY <3>1
  <2>3. j < p \/ j > p BY <1>1
  <2> QED BY <2>1, <2>2, <2>3
<1>5. \A i \in 1..Len(r) : h[i] \in Nat /\ i \in Nat BY <1>1
<1>6. h \in [1..Len(r) -> 1..Len(s) \ {p}] BY <1>1
<1> HIDE DEF h
<1>11. Listed(r, J)
  <2>1. ASSUME NEW i \in 1..Len(r), NEW j \in 1..Len(r), r[i].key = r[j].key PROVE i = j
    <3>1. /\ h[i] \in 1..Len(s) /\ h[j] \in 1..Len(s)
          /\ s[h[i]].key = s[h[j]].key
      BY <1>2, <2>1
    <3>2. h[i] = h[j] BY <3>1 DEF Listed
    <3>3. ~(i < j) /\ ~(j < i) BY <1>3, <1>5, <3>2
    <3> QED BY <1>5, <3>3
  <2>2. \A i \in 1..Len(r) : r[i].key \in J BY <1>0, <1>2 DEF Listed
  <2>3. \A x \in J : \E i \in 1..Len(r) : r[i].key = x
    <3> SUFFICES ASSUME NEW x \in J PROVE \E i \in 1..Len(r) : r[i].key = x OBVIOUS
    <3>1. PICK j \in 1..Len(s) : s[j].key = x BY <1>0 DEF Listed
    <3>2. j \in 1..Len(s) \ {p} BY <1>0, <3>1
    <3>3. PICK i \in 1..Len(r) : h[i] = j BY <1>4, <3>2
    <3>4. r[i].key = x BY <1>2, <3>1, <3>3
    <3> QED BY <3>4
  <2>4. J = {r[i].key : i \in 1..Len(r)} BY <2>2, <2>3
  <2> QED BY <2>1, <2>4 DEF Listed
<1>7. \A x \in J : Place(r, x) \in 1..Len(r) /\ h[Place(r, x)] = Place(s, x)
  <2> SUFFICES ASSUME NEW x \in J
               PROVE  Place(r, x) \in 1..Len(r) /\ h[Place(r, x)] = Place(s, x)
    OBVIOUS
  <2>1. Place(r, x) \in 1..Len(r) /\ r[Place(r, x)].key = x BY <1>1, <1>11, PlaceFinds
  <2>2. h[Place(r, x)] \in 1..Len(s) /\ s[h[Place(r, x)]].key = x BY <1>2, <2>1
  <2> QED BY <1>0, <2>1, <2>2, PlaceFinds
<1>8. Bytes(s, 1..Len(s)) = s[p].bytes + Bytes(r, 1..Len(r))
  <2>0. 1..Len(s) \in SUBSET (1..Len(s)) /\ 1..Len(r) \in SUBSET (1..Len(r)) OBVIOUS
  <2>1. Bytes(s, 1..Len(s)) = s[p].bytes + Bytes(s, 1..Len(s) \ {p}) BY <2>0, BytesAdd
  <2>2. \A i, j \in 1..Len(r) : h[i] = h[j] => i = j BY <1>3, <1>5
  <2>3. h \in Bijection(1..Len(r), 1..Len(s) \ {p})
    BY <1>2, <1>4, <1>6, <2>2 DEF Bijection, Injection, Surjection, IsInjective
  <2>4. \A i \in 1..Len(r) : s[h[i]].bytes = r[i].bytes BY <1>2
  <2>5. Bytes(s, 1..Len(s) \ {p}) = Bytes(r, 1..Len(r))
    BY <2>0, <2>3, <2>4, BytesMoved
  <2> QED BY <2>1, <2>5
<1>9. \A x \in J : r[Place(r, x)] = s[Place(s, x)] BY <1>2, <1>7
<1>10. \A x, y \in J : Place(r, x) < Place(r, y) <=> Place(s, x) < Place(s, y) BY <1>3, <1>7
<1> QED BY <1>1, <1>11, <1>8, <1>9, <1>10

KeysUpTo(r, n) == {r[i].key : i \in 1..n}

\* t is the entry e before the first n of r, whose keys are K.
InFront(e, r, n, t, K) ==
    /\ Len(t) = n + 1 /\ t[1] = e /\ \A i \in 1..n : t[i + 1] = r[i]
    /\ K = KeysUpTo(r, n)

\* The first n of r are one place further in t.
LEMMA OnePlaceFurther ==
    ASSUME NEW r \in Seq(Entries), NEW J, Listed(r, J), NEW e,
           NEW n \in 0..Len(r), NEW t \in Seq(Entries), NEW K, InFront(e, r, n, t, K),
           NEW I, Listed(t, I), NEW x \in K
    PROVE  Place(t, x) = Place(r, x) + 1 /\ t[Place(t, x)] = r[Place(r, x)]
<1>1. PICK i \in 1..n : r[i].key = x BY DEF InFront, KeysUpTo
<1>2. i \in 1..Len(r) /\ i + 1 \in 1..Len(t) /\ t[i + 1] = r[i] BY DEF InFront
<1>3. Place(r, x) = i BY <1>1, <1>2, PlaceFinds
<1>4. t[i + 1].key = x BY <1>1, <1>2
<1>5. Place(t, x) = i + 1 BY <1>2, <1>4, PlaceFinds
<1> QED BY <1>2, <1>3, <1>5

\* A new entry in front of the n most recent ones.
LEMMA ListWith ==
    ASSUME NEW r \in Seq(Entries), NEW J, Listed(r, J), NEW e \in Entries, e.key \notin J,
           NEW n \in 0..Len(r), NEW t \in Seq(Entries), NEW K, InFront(e, r, n, t, K)
    PROVE  /\ Listed(t, K \cup {e.key})
           /\ Place(t, e.key) = 1
<1>0. K = {r[i].key : i \in 1..n} BY DEF InFront, KeysUpTo
<1>1. /\ Len(t) = n + 1 /\ Len(r) \in Nat /\ n \in Nat /\ t[1] = e
      /\ \A i \in 1..n : t[i + 1] = r[i] /\ i + 1 \in 1..Len(t) /\ i \in 1..Len(r) /\ i \in Nat
  BY DEF InFront
<1>2. \A i \in 1..Len(t) : i = 1 \/ (i - 1 \in 1..n /\ t[i] = r[i - 1]) BY <1>1
<1>7. \A i \in 1..n : r[i].key \in K BY <1>0
<1>3. Listed(t, K \cup {e.key})
  <2>1. \A i \in 1..Len(t) : t[i].key \in K \cup {e.key}
    <3> SUFFICES ASSUME NEW i \in 1..Len(t) PROVE t[i].key \in K \cup {e.key} OBVIOUS
    <3>1. CASE i = 1 BY <1>1, <3>1
    <3>2. CASE i - 1 \in 1..n /\ t[i] = r[i - 1] BY <1>7, <3>2
    <3> QED BY <1>2, <3>1, <3>2
  <2>2. \A x \in K \cup {e.key} : \E i \in 1..Len(t) : t[i].key = x
    <3>1. 1 \in 1..Len(t) BY <1>1
    <3> QED BY <1>0, <1>1, <3>1
  <2>3. \A i \in 1..n : r[i].key \in J BY <1>1 DEF Listed
  <2>4. ASSUME NEW i \in 1..Len(t), NEW j \in 1..Len(t), t[i].key = t[j].key PROVE i = j
    <3>4. \A k \in 1..Len(t) : k # 1 => t[k].key # e.key BY <1>2, <2>3
    <3>1. i = 1 => j = 1 BY <1>1, <2>4, <3>4
    <3>2. j = 1 => i = 1 BY <1>1, <2>4, <3>4
    <3>3. ASSUME i # 1, j # 1 PROVE i = j
      <4>1. i - 1 \in 1..n /\ j - 1 \in 1..n BY <1>2, <3>3
      <4>2. t[i] = r[i - 1] /\ t[j] = r[j - 1] BY <1>1, <1>2, <3>3
      <4>3. i - 1 = j - 1 BY <1>1, <2>4, <4>1, <4>2 DEF Listed
      <4> QED BY <4>3
    <3> QED BY <3>1, <3>2, <3>3
  <2>5. K \cup {e.key} = {t[i].key : i \in 1..Len(t)} BY <2>1, <2>2
  <2> QED BY <2>4, <2>5 DEF Listed
<1>4. Place(t, e.key) = 1
  <2>1. 1 \in 1..Len(t) BY <1>1
  <2> QED BY <1>1, <1>3, <2>1, PlaceFinds
<1> QED BY <1>3, <1>4

\* The bytes of the list with a new entry in front.
LEMMA BytesInFront ==
    ASSUME NEW r \in Seq(Entries), NEW e, NEW b \in Nat, b = e.bytes,
           NEW n \in 0..Len(r), NEW t \in Seq(Entries), NEW K, InFront(e, r, n, t, K)
    PROVE  Bytes(t, 1..Len(t)) = b + Bytes(r, 1..n)
<1>8. /\ Len(t) = n + 1 /\ Len(r) \in Nat /\ n \in Nat /\ t[1] = e
      /\ \A i \in 1..n : t[i + 1] = r[i] /\ i + 1 \in 1..Len(t) /\ i \in 1..Len(r) /\ i \in Nat
  BY DEF InFront
<1> DEFINE h == [i \in 1..n |-> i + 1]
<1>1. 1 \in 1..Len(t) BY <1>8
<1>0. 1..Len(t) \in SUBSET (1..Len(t)) OBVIOUS
<1>2. Bytes(t, 1..Len(t)) = t[1].bytes + Bytes(t, 1..Len(t) \ {1}) BY <1>0, <1>1, BytesAdd
<1>3. h \in Bijection(1..n, 1..Len(t) \ {1})
  <2>1. h \in [1..n -> 1..Len(t) \ {1}] BY <1>8
  <2>2. \A j \in 1..Len(t) \ {1} : j - 1 \in 1..n /\ h[j - 1] = j BY <1>8
  <2>3. \A i, j \in 1..n : h[i] = h[j] => i = j OBVIOUS
  <2> HIDE DEF h
  <2> QED BY <2>1, <2>2, <2>3 DEF Bijection, Injection, Surjection, IsInjective
<1>4. \A i \in 1..n : t[h[i]].bytes = r[i].bytes BY <1>8
<1>6. /\ \A i \in 1..n : i \in 1..Len(r)
      /\ \A i \in 1..Len(t) \ {1} : i \in 1..Len(t)
  BY <1>8
<1> HIDE DEF h
<1>7. Bytes(t, 1..Len(t) \ {1}) = Bytes(r, 1..n)
  BY <1>3, <1>4, <1>6, BytesMoved
<1> QED BY <1>8, <1>2, <1>7

\* A sequence without one of its elements.
LEMMA RemovedAt ==
    ASSUME NEW S, NEW s \in Seq(S), NEW i \in 1..Len(s)
    PROVE  /\ RemoveAt(s, i) \in Seq(S) /\ Len(RemoveAt(s, i)) = Len(s) - 1
           /\ \A k \in 1..Len(s) - 1 : RemoveAt(s, i)[k] = IF k < i THEN s[k] ELSE s[k + 1]
<1>0. Len(s) \in Nat /\ i \in Int OBVIOUS
<1> DEFINE a == SubSeq(s, 1, i - 1)  b == SubSeq(s, i + 1, Len(s))
<1>1. /\ a \in Seq(S) /\ Len(a) = i - 1 /\ \A k \in 1..i - 1 : a[k] = s[k]
      /\ b \in Seq(S) /\ Len(b) = Len(s) - i /\ \A k \in 1..Len(s) - i : b[k] = s[k + i]
  OBVIOUS
<1> HIDE DEF a, b
<1>2. /\ a \o b \in Seq(S) /\ Len(a \o b) = Len(s) - 1
      /\ \A k \in 1..Len(s) - 1 : (a \o b)[k] = IF k <= i - 1 THEN a[k] ELSE b[k - (i - 1)]
  <2>1. Len(a) + Len(b) = Len(s) - 1 BY <1>1
  <2>2. /\ a \o b \in Seq(S) /\ Len(a \o b) = Len(a) + Len(b)
        /\ \A k \in 1..Len(a) + Len(b) :
              (a \o b)[k] = IF k <= Len(a) THEN a[k] ELSE b[k - Len(a)]
    BY <1>1, ConcatProperties, Zenon
  <2> QED BY <1>0, <1>1, <2>1, <2>2
<1>3. \A k \in 1..Len(s) - 1 : (a \o b)[k] = IF k < i THEN s[k] ELSE s[k + 1]
  <2> TAKE k \in 1..Len(s) - 1
  <2>1. CASE k < i BY <2>1, <1>1, <1>2
  <2>2. CASE k >= i
    <3> DEFINE m == k - (i - 1)
    <3>1. m \in 1..Len(s) - i /\ m + i = k + 1 BY <2>2
    <3>2. b[m] = s[m + i] BY <3>1, <1>1
    <3> QED BY <2>2, <3>1, <3>2, <1>2
  <2>3. k < i \/ k >= i BY <1>0
  <2> QED BY <2>1, <2>2, <2>3, Zenon
<1> QED BY <1>2, <1>3 DEF RemoveAt, a, b

\* A sequence in front of which an element is put.
LEMMA PutInFront ==
    ASSUME NEW S, NEW e \in S, NEW r \in Seq(S), NEW n \in 0..Len(r)
    PROVE  /\ <<e>> \o SubSeq(r, 1, n) \in Seq(S)
           /\ Len(<<e>> \o SubSeq(r, 1, n)) = n + 1
           /\ (<<e>> \o SubSeq(r, 1, n))[1] = e
           /\ \A i \in 1..n : (<<e>> \o SubSeq(r, 1, n))[i + 1] = r[i]
OBVIOUS

-----------------------------------------------------------------------------
(* The list, its index and its budget                                      *)

LruInv == LruTypeOK /\ IndexMatchesList /\ BudgetKept

\* The list without a key, as access() leaves it before it puts the key in front.
LEMMA OthersList ==
    ASSUME LruInv, NEW key \in Keys, NEW rest, rest = Others(key),
           NEW others, others = index \ {key}
    PROVE  /\ rest \in Seq(Entries) /\ Listed(rest, others)
           /\ ResidentWithout(key) = Bytes(rest, 1..Len(rest))
           /\ Bytes(rest, 1..Len(rest)) \in Nat /\ Bytes(rest, 1..Len(rest)) <= stats.resident
           /\ key \in index => stats.resident = Entry(key).bytes + Bytes(rest, 1..Len(rest))
           /\ \A x \in others : rest[Place(rest, x)] = Entry(x)
           /\ \A x, y \in others : Place(rest, x) < Place(rest, y)
                                      <=> Place(entries, x) < Place(entries, y)
<1>1. entries \in Seq(Entries) /\ Listed(entries, index)
  BY DEF LruInv, LruTypeOK, IndexMatchesList, Listed, Entries
<1>2. /\ stats.resident = Bytes(entries, 1..Len(entries)) /\ stats.resident \in Nat
      /\ stats.resident <= SizeMax
  BY SizesAreNumbers DEF LruInv, LruTypeOK, BudgetKept
<1>3. CASE key \notin index
  <2>1. rest = entries /\ others = index BY <1>3 DEF Others
  <2>2. ResidentWithout(key) = stats.resident BY <1>3 DEF ResidentWithout
  <2>3. \A x \in others : rest[Place(rest, x)] = Entry(x) BY <2>1 DEF Entry
  <2>4. Bytes(rest, 1..Len(rest)) = stats.resident BY <1>2, <2>1
  <2>5. rest \in Seq(Entries) /\ Listed(rest, others) BY <1>1, <2>1
  <2>6. \A x, y \in others : Place(rest, x) < Place(rest, y)
                                      <=> Place(entries, x) < Place(entries, y)
    BY <2>1
  <2>7. ResidentWithout(key) = Bytes(rest, 1..Len(rest)) BY <2>2, <2>4
  <2>8. Bytes(rest, 1..Len(rest)) <= stats.resident BY <1>2, <2>4
  <2> QED BY <1>2, <1>3, <2>3, <2>4, <2>5, <2>6, <2>7, <2>8
<1>4. CASE key \in index
  <2> DEFINE p == Place(entries, key)
  <2>1. p \in 1..Len(entries) /\ entries[p].key = key BY <1>1, <1>4, PlaceFinds
  <2>2. rest = RemoveAt(entries, p) BY <1>4 DEF Others
  <2> HIDE DEF p
  <2>3. /\ rest \in Seq(Entries) /\ Len(rest) = Len(entries) - 1
        /\ \A i \in 1..Len(entries) - 1 : rest[i] = IF i < p THEN entries[i] ELSE entries[i + 1]
    BY <1>1, <2>1, <2>2, RemovedAt
  <2>4. \A i \in 1..Len(rest) : rest[i] = entries[IF i < p THEN i ELSE i + 1] BY <2>3
  <2>5. others = index \ {entries[p].key} BY <2>1
  <2>11. rest \in Seq(Entries) /\ Dropped(entries, index, p, rest, others)
    BY <2>3, <2>4, <2>5 DEF Dropped
  <2>6. /\ Listed(rest, others)
        /\ \A x \in others : rest[Place(rest, x)] = entries[Place(entries, x)]
        /\ \A x, y \in others : Place(rest, x) < Place(rest, y)
                                      <=> Place(entries, x) < Place(entries, y)
        /\ Bytes(entries, 1..Len(entries)) = entries[p].bytes + Bytes(rest, 1..Len(rest))
    BY <1>1, <2>1, <2>11, ListWithout
  <2>7. entries[p].bytes \in Nat BY <1>1, <2>1, EntryFacts
  <2>8. Bytes(rest, 1..Len(rest)) \in Nat
    <3>1. 1..Len(rest) \in SUBSET (1..Len(rest)) OBVIOUS
    <3> QED BY <2>3, <3>1, BytesAdd
  <2>9. ResidentWithout(key) = Minus(stats.resident, entries[p].bytes)
    BY <1>4 DEF ResidentWithout, Entry, p
  <2>10. Minus(stats.resident, entries[p].bytes) = Bytes(rest, 1..Len(rest))
    BY <1>2, <2>6, <2>7, <2>8, SmallSums
  <2>12. Entry(key) = entries[p] BY DEF Entry, p
  <2>13. \A x \in others : rest[Place(rest, x)] = Entry(x) BY <2>6 DEF Entry
  <2>14. Bytes(rest, 1..Len(rest)) <= stats.resident BY <1>2, <2>6, <2>7, <2>8
  <2>15. stats.resident = Entry(key).bytes + Bytes(rest, 1..Len(rest)) BY <1>2, <2>6, <2>12
  <2> QED BY <2>3, <2>6, <2>8, <2>9, <2>10, <2>13, <2>14, <2>15
<1> QED BY <1>3, <1>4

\* Of numbers up to a bound one is greatest.
LEMMA GreatestNumber ==
    ASSUME NEW m \in Nat, NEW N, \A k \in N : k \in 0..m, N # {}
    PROVE  \E n \in N : \A k \in N : k <= n
<1> DEFINE Less == {p \in Nat \X Nat : p[1] < p[2]}
           Gaps == {m - n : n \in N}
<1>1. IsWellFoundedOn(Less, Nat)
  BY NatLessThanWellFounded DEF IsWellFoundedOn, OpToRel
<1>5. \A k \in N : k \in Nat /\ k <= m OBVIOUS
<1>2. Gaps \subseteq Nat /\ Gaps # {} BY <1>5
<1>3. \E x \in Gaps : \A y \in Gaps : <<y, x>> \notin Less
  <2> HIDE DEF Less, Gaps
  <2> QED BY <1>1, <1>2, WFMin
<1>4. PICK n \in N : \A k \in N : <<m - k, m - n>> \notin Less BY <1>3
<1>6. \A k \in N : ~(m - k < m - n)
  <2> SUFFICES ASSUME NEW k \in N PROVE ~(m - k < m - n) OBVIOUS
  <2>1. m - k \in Nat /\ m - n \in Nat BY <1>5
  <2> QED BY <1>4, <2>1
<1> QED BY <1>5, <1>6

\* The n most recent entries of s fit next to a slice, and no more of them do.
MostThatFit(s, n, bytes) ==
    /\ n \in 0..Len(s)
    /\ n = 0 \/ bytes + Bytes(s, 1..n) <= stats.capacity
    /\ \A m \in n + 1..Len(s) : bytes + Bytes(s, 1..m) > stats.capacity

\* The eviction loop keeps the most recent entries, as many as fit.
LEMMA LoopKeeps ==
    ASSUME NEW s \in Seq(Entries), NEW resident, resident = Bytes(s, 1..Len(s)),
           stats.capacity \in Nat, stats.capacity <= SizeMax, resident <= stats.capacity,
           NEW bytes \in Nat, NEW n, n = Survivors(s, bytes, resident)
    PROVE  MostThatFit(s, n, bytes) /\ ResidentLeft(s, n, resident) = Bytes(s, 1..n)
<1> DEFINE OK(m) == m = 0 \/ Fits(bytes, ResidentLeft(s, m, resident))
           N == {m \in 0..Len(s) : OK(m)}
<1>1. Len(s) \in Nat OBVIOUS
<1>2. (\A m \in N : m \in 0..Len(s)) /\ 0 \in N BY <1>1
<1>3. PICK k \in N : \A m \in N : m <= k
  <2> HIDE DEF N
  <2> QED BY <1>1, <1>2, GreatestNumber
<1>4. \A m \in k + 1..Len(s) : ~Fits(bytes, ResidentLeft(s, m, resident)) BY <1>1, <1>3
<1>5. \E m \in 0..Len(s) : OK(m) /\ \A j \in m + 1..Len(s) : ~Fits(bytes, ResidentLeft(s, j, resident))
  BY <1>3, <1>4
<1>6. /\ n \in 0..Len(s) /\ OK(n)
      /\ \A m \in n + 1..Len(s) : ~Fits(bytes, ResidentLeft(s, m, resident))
  BY <1>5 DEF Survivors
<1>7. ASSUME NEW m \in 0..Len(s)
      PROVE  /\ Bytes(s, 1..m) \in Nat /\ Bytes(s, 1..m) <= resident
             /\ ResidentLeft(s, m, resident) = Bytes(s, 1..m)
             /\ Fits(bytes, ResidentLeft(s, m, resident)) <=> bytes + Bytes(s, 1..m) <= stats.capacity
  <2>1. /\ 1..Len(s) \in SUBSET (1..Len(s)) /\ 1..m \in SUBSET (1..Len(s))
        /\ m + 1..Len(s) \in SUBSET (1..Len(s))
        /\ (1..Len(s)) \ (1..m) = m + 1..Len(s)
    BY <1>1
  <2>2. /\ Bytes(s, 1..m) \in Nat /\ Bytes(s, m + 1..Len(s)) \in Nat
        /\ Bytes(s, 1..Len(s)) = Bytes(s, 1..m) + Bytes(s, m + 1..Len(s))
    <3> DEFINE A == 1..Len(s)  B == 1..m  C == m + 1..Len(s)
    <3>1. /\ A \in SUBSET (1..Len(s)) /\ B \in SUBSET (1..Len(s)) /\ C \in SUBSET (1..Len(s))
          /\ B \in SUBSET A /\ A \ B = C
      BY <2>1
    <3> HIDE DEF A, B, C
    <3>2. Bytes(s, B) \in Nat /\ Bytes(s, C) \in Nat BY <3>1, BytesAdd
    <3>3. Bytes(s, A) = Bytes(s, B) + Bytes(s, C) BY <3>1, BytesAdd
    <3> QED BY <3>2, <3>3 DEF A, B, C
  <2>3. Minus(resident, Bytes(s, m + 1..Len(s))) = Bytes(s, 1..m)
    BY <2>2, SmallSums, SizesAreNumbers
  <2>4. Bytes(s, 1..m) <= stats.capacity BY <2>2
  <2>5. Minus(stats.capacity, Bytes(s, 1..m)) = stats.capacity - Bytes(s, 1..m)
    BY <2>2, <2>4, SmallSums
  <2> QED BY <2>2, <2>3, <2>5 DEF ResidentLeft, Fits
<1>8. \A m \in n + 1..Len(s) : m \in 0..Len(s) BY <1>1, <1>6
<1>9. n = 0 \/ bytes + Bytes(s, 1..n) <= stats.capacity BY <1>6, <1>7
<1>10. \A m \in n + 1..Len(s) : bytes + Bytes(s, 1..m) > stats.capacity
  BY <1>6, <1>7, <1>8
<1> QED BY <1>6, <1>7, <1>9, <1>10 DEF MostThatFit


\* t is the list that access() leaves with the n most recent of the others.
Fronted(key, bytes, rest, n, t, K) ==
    /\ key \in Keys /\ bytes \in Sizes /\ n \in 0..Len(rest) /\ t \in Seq(Entries)
    /\ rest = Others(key) /\ InFront([key |-> key, bytes |-> bytes], rest, n, t, K)

\* The others in it are other keys of the index.
LEMMA FrontKeys ==
    ASSUME LruInv, NEW key, NEW bytes, NEW rest, NEW n, NEW t, NEW K,
           Fronted(key, bytes, rest, n, t, K)
    PROVE  K \in SUBSET (index \ {key})
<1>1. key \in Keys /\ n \in 0..Len(rest) /\ rest = Others(key) /\ K = KeysUpTo(rest, n)
  BY DEF Fronted, InFront
<1>2. rest \in Seq(Entries) /\ Listed(rest, index \ {key}) BY <1>1, OthersList
<1>3. \A i \in 1..n : i \in 1..Len(rest) BY <1>1, <1>2
<1>4. \A x \in K : x \in index \ {key} BY <1>1, <1>2, <1>3 DEF Listed, KeysUpTo
<1> QED BY <1>4

\* The list access() leaves: an entry of the key before the n most recent others.
LEMMA FrontList ==
    ASSUME LruInv, NEW key, NEW bytes, NEW rest, NEW n, NEW t, NEW K,
           Fronted(key, bytes, rest, n, t, K)
    PROVE  /\ Listed(t, K \cup {key})
           /\ Place(t, key) = 1
           /\ Bytes(t, 1..Len(t)) = bytes + Bytes(rest, 1..n)
<1> DEFINE J == index \ {key}
           e == [key |-> key, bytes |-> bytes]
<1>11. /\ key \in Keys /\ bytes \in Sizes /\ n \in 0..Len(rest) /\ t \in Seq(Entries)
       /\ rest = Others(key) /\ InFront(e, rest, n, t, K)
  BY DEF Fronted
<1>1. /\ rest \in Seq(Entries) /\ Listed(rest, J)
      /\ \A x \in J : rest[Place(rest, x)] = Entry(x)
  BY <1>11, OthersList
<1>2. e \in Entries /\ e.key = key /\ e.bytes = bytes /\ e.key \notin J BY <1>11 DEF Entries
<1> HIDE DEF J, e
<1>8. rest \in Seq(Entries) /\ Listed(rest, J) /\ e \in Entries /\ e.key \notin J
  BY <1>1, <1>2
<1>7. Listed(t, K \cup {e.key}) /\ Place(t, e.key) = 1 BY <1>8, <1>11, ListWith
<1>9. bytes \in Nat /\ bytes = e.bytes BY <1>2, <1>11, SizesAreNumbers
<1>12. Bytes(t, 1..Len(t)) = bytes + Bytes(rest, 1..n) BY <1>8, <1>9, <1>11, BytesInFront
<1> QED BY <1>2, <1>7, <1>12

\* The others in it are one place further than without the key.
LEMMA FrontPlaces ==
    ASSUME LruInv, NEW key, NEW bytes, NEW rest, NEW n, NEW t, NEW K,
           Fronted(key, bytes, rest, n, t, K)
    PROVE  \A x \in K : Place(t, x) = Place(rest, x) + 1 /\ t[Place(t, x)] = Entry(x)
<1>5. Listed(t, K \cup {key}) BY FrontList
<1>7. K \in SUBSET (index \ {key}) BY FrontKeys
<1> DEFINE J == index \ {key}
           e == [key |-> key, bytes |-> bytes]
<1>1. /\ key \in Keys /\ bytes \in Sizes /\ n \in 0..Len(rest) /\ t \in Seq(Entries)
      /\ rest = Others(key) /\ InFront(e, rest, n, t, K)
  BY DEF Fronted
<1>2. /\ rest \in Seq(Entries) /\ Listed(rest, J)
      /\ \A y \in J : rest[Place(rest, y)] = Entry(y)
  BY <1>1, OthersList
<1>3. SUFFICES ASSUME NEW x \in K
               PROVE  Place(t, x) = Place(rest, x) + 1 /\ t[Place(t, x)] = Entry(x)
  OBVIOUS
<1>6. Listed(t, K \cup {key}) /\ x \in J BY <1>5, <1>7
<1> HIDE DEF J, e
<1>4. Place(t, x) = Place(rest, x) + 1 /\ t[Place(t, x)] = rest[Place(rest, x)]
  BY <1>1, <1>2, <1>6, OnePlaceFurther
<1> QED BY <1>2, <1>4, <1>6

\* The index that access() leaves holds the keys of that list.
LEMMA FrontIndex ==
    ASSUME LruInv, NEW key \in Keys, NEW rest, rest = Others(key),
           NEW n \in 0..Len(rest)
    PROVE  /\ IndexAfter(key, rest, n) = KeysUpTo(rest, n) \cup {key}
           /\ n = Len(rest) => KeysUpTo(rest, n) = index \ {key}
<1> DEFINE K == {rest[i].key : i \in 1..n}
<1>1. rest \in Seq(Entries) /\ Listed(rest, index \ {key}) BY OthersList
<1>2. Len(rest) \in Nat /\ n \in Nat BY <1>1
<1>3. ASSUME NEW x
      PROVE  x \in K <=> x \in index \ {key} /\ x \notin {rest[i].key : i \in n + 1..Len(rest)}
  <2>1. ASSUME x \in K
        PROVE  x \in index \ {key} /\ x \notin {rest[i].key : i \in n + 1..Len(rest)}
    <3>1. PICK i \in 1..n : x = rest[i].key BY <2>1
    <3>2. i \in 1..Len(rest) /\ \A j \in n + 1..Len(rest) : j \in 1..Len(rest) /\ j # i BY <1>2
    <3> QED BY <1>1, <3>1, <3>2 DEF Listed
  <2>2. ASSUME x \in index \ {key}, x \notin {rest[i].key : i \in n + 1..Len(rest)}
        PROVE  x \in K
    <3>1. PICK i \in 1..Len(rest) : x = rest[i].key BY <1>1, <2>2 DEF Listed
    <3>2. i \notin n + 1..Len(rest) BY <2>2, <3>1
    <3>3. i \in 1..n BY <1>2, <3>2
    <3> QED BY <3>1, <3>3
  <2> QED BY <2>1, <2>2
<1> HIDE DEF K
<1>4. IndexAfter(key, rest, n) = K \cup {key} BY <1>3 DEF IndexAfter
<1>5. n = Len(rest) => n + 1..Len(rest) = {} BY <1>2
<1>6. n = Len(rest) => K = index \ {key} BY <1>3, <1>5
<1>7. K = KeysUpTo(rest, n) BY DEF K, KeysUpTo
<1> QED BY <1>4, <1>6, <1>7

LEMMA LruInvUnfolds ==
    ASSUME LruInv
    PROVE  /\ entries \in Seq(Entries) /\ Listed(entries, index) /\ index \subseteq Keys
           /\ stats.capacity \in Nat /\ stats.capacity <= SizeMax
           /\ stats.resident = Bytes(entries, 1..Len(entries))
           /\ stats.resident \in Nat /\ stats.resident <= stats.capacity
           /\ stats.capacity \in Capacities
           /\ stats.requests \in Nat /\ stats.hits \in Nat /\ stats.misses \in Nat
           /\ stats.evictions \in Nat /\ stats.evicted \in Nat /\ stats.bypasses \in Nat
           /\ stats \in [capacity : Capacities, resident : Nat, requests : Nat, hits : Nat,
                         misses : Nat, evictions : Nat, evicted : Nat, bypasses : Nat]
<1>1. entries \in Seq(Entries) /\ Listed(entries, index) /\ index \subseteq Keys
  BY DEF LruInv, LruTypeOK, IndexMatchesList, Listed, Entries
<1>2. /\ stats \in [capacity : Capacities, resident : 0..SizeMax, requests : Nat, hits : Nat,
                    misses : Nat, evictions : Nat, evicted : Nat, bypasses : Nat]
      /\ stats.resident = Bytes(entries, 1..Len(entries)) /\ stats.resident <= stats.capacity
  BY DEF LruInv, LruTypeOK, BudgetKept
<1> QED BY <1>1, <1>2, SizesAreNumbers

\* What access() must establish.
LEMMA LruInvFolds ==
    ASSUME NEW t \in Seq(Entries), NEW I, Listed(t, I), NEW u, entries' = t, index' = I, stats' = u,
           u \in [capacity : Capacities, resident : Nat, requests : Nat, hits : Nat,
                  misses : Nat, evictions : Nat, evicted : Nat, bypasses : Nat],
           u.resident = Bytes(t, 1..Len(t)), u.resident <= u.capacity
    PROVE  LruInv'
<1>1. I \subseteq Keys
  <2>1. \A i \in 1..Len(t) : t[i].key \in Keys BY EntryFacts
  <2> QED BY <2>1 DEF Listed
<1>2. u.resident \in 0..SizeMax
  <2>1. u.capacity \in Nat /\ u.capacity <= SizeMax /\ u.resident \in Nat /\ SizeMax \in Nat
    BY SizesAreNumbers
  <2> QED BY <2>1
<1>3. u \in [capacity : Capacities, resident : 0..SizeMax, requests : Nat, hits : Nat,
             misses : Nat, evictions : Nat, evicted : Nat, bypasses : Nat]
  BY <1>2
<1>4. LruTypeOK' BY <1>1, <1>3 DEF LruTypeOK, Entries
<1>5. IndexMatchesList' BY DEF IndexMatchesList, Listed
<1>6. BudgetKept' BY DEF BudgetKept
<1> QED BY <1>4, <1>5, <1>6 DEF LruInv

\* reset() leaves an empty list under the new budget.
LEMMA ResetLru ==
    ASSUME NEW cap \in Capacities, Reset(cap)
    PROVE  LruInv'
<1> DEFINE t == <<>>
           u == NoStats(cap)
<1>1. t \in Seq(Entries) /\ Len(t) = 0 OBVIOUS
<1>2. \A i \in 1..Len(t) : FALSE BY <1>1
<1>3. 1..Len(t) = {} BY <1>2
<1>4. Listed(t, {}) BY <1>2 DEF Listed
<1>5. {} \in SUBSET (1..Len(t)) OBVIOUS
<1>6. Bytes(t, 1..Len(t)) = 0 BY <1>1, <1>3, <1>5, BytesAdd
<1>7. /\ u \in [capacity : Capacities, resident : Nat, requests : Nat, hits : Nat,
                misses : Nat, evictions : Nat, evicted : Nat, bypasses : Nat]
      /\ u.resident = 0 /\ u.resident <= u.capacity
  BY SizesAreNumbers DEF NoStats
<1>8. entries' = t /\ index' = {} /\ stats' = u BY DEF Reset
<1> HIDE DEF t, u
<1> QED BY <1>1, <1>4, <1>6, <1>7, <1>8, LruInvFolds

\* The eviction loop of access() on the list without the key.
LEMMA LoopOnOthers ==
    ASSUME LruInv, NEW key \in Keys, NEW bytes \in Sizes, NEW rest, rest = Others(key),
           NEW n, n = Survivors(rest, bytes, ResidentWithout(key))
    PROVE  /\ MostThatFit(rest, n, bytes)
           /\ ResidentLeft(rest, n, ResidentWithout(key)) = Bytes(rest, 1..n)
<1>1. /\ rest \in Seq(Entries) /\ ResidentWithout(key) = Bytes(rest, 1..Len(rest))
      /\ Bytes(rest, 1..Len(rest)) \in Nat /\ Bytes(rest, 1..Len(rest)) <= stats.resident
  BY OthersList
<1>2. /\ stats.capacity \in Nat /\ stats.capacity <= SizeMax
      /\ stats.resident \in Nat /\ stats.resident <= stats.capacity
  BY LruInvUnfolds
<1>3. bytes \in Nat BY SizesAreNumbers
<1> DEFINE R == ResidentWithout(key)
<1>4. R = Bytes(rest, 1..Len(rest)) /\ R <= stats.capacity /\ n = Survivors(rest, bytes, R)
  BY <1>1, <1>2
<1> HIDE DEF R
<1> SUFFICES MostThatFit(rest, n, bytes) /\ ResidentLeft(rest, n, R) = Bytes(rest, 1..n)
  BY DEF R
<1> QED BY <1>1, <1>2, <1>3, <1>4, LoopKeeps

\* The bytes of a part of the list are numbers.
LEMMA BytesOfPrefix ==
    ASSUME NEW s \in Seq(Entries), NEW n \in 0..Len(s)
    PROVE  /\ Bytes(s, 1..n) \in Nat /\ Bytes(s, n + 1..Len(s)) \in Nat
           /\ Bytes(s, 1..n) <= Bytes(s, 1..Len(s))
<1> DEFINE A == 1..Len(s)  B == 1..n  C == n + 1..Len(s)
<1>1. /\ A \in SUBSET (1..Len(s)) /\ B \in SUBSET (1..Len(s)) /\ C \in SUBSET (1..Len(s))
      /\ B \in SUBSET A /\ A \ B = C
  OBVIOUS
<1> HIDE DEF A, B, C
<1>2. Bytes(s, B) \in Nat /\ Bytes(s, C) \in Nat BY <1>1, BytesAdd
<1>3. Bytes(s, A) = Bytes(s, B) + Bytes(s, C) BY <1>1, BytesAdd
<1>4. Bytes(s, B) <= Bytes(s, A) BY <1>2, <1>3
<1> QED BY <1>2, <1>4 DEF A, B, C

\* Every request keeps the list, the index and the budget together.
LEMMA AccessLru ==
    ASSUME LruInv, NEW key \in Keys, NEW bytes \in Sizes, Access(key, bytes)
    PROVE  LruInv'
<1> DEFINE rest == Others(key)
           e == [key |-> key, bytes |-> bytes]
           K(n) == KeysUpTo(rest, n)
           t(n) == <<e>> \o SubSeq(rest, 1, n)
<1>1. /\ rest \in Seq(Entries) /\ Listed(rest, index \ {key})
      /\ ResidentWithout(key) = Bytes(rest, 1..Len(rest))
      /\ Bytes(rest, 1..Len(rest)) \in Nat /\ Bytes(rest, 1..Len(rest)) <= stats.resident
      /\ key \in index => stats.resident = Entry(key).bytes + Bytes(rest, 1..Len(rest))
  BY OthersList
<1>2. /\ stats.capacity \in Nat /\ stats.capacity <= SizeMax /\ stats.capacity \in Capacities
      /\ stats.resident \in Nat /\ stats.resident <= stats.capacity
      /\ stats \in [capacity : Capacities, resident : Nat, requests : Nat, hits : Nat,
                    misses : Nat, evictions : Nat, evicted : Nat, bypasses : Nat]
  BY LruInvUnfolds
<1>3. bytes \in Nat /\ e \in Entries BY SizesAreNumbers DEF Entries
<1>4. Len(rest) \in Nat /\ Len(rest) \in 0..Len(rest) BY <1>1
<1>5. ASSUME NEW n \in 0..Len(rest)
      PROVE  /\ t(n) \in Seq(Entries) /\ Listed(t(n), K(n) \cup {key})
             /\ Bytes(t(n), 1..Len(t(n))) = bytes + Bytes(rest, 1..n)
  <2> DEFINE tn == t(n)  Kn == K(n)
  <2>1. tn = <<e>> \o SubSeq(rest, 1, n) /\ Kn = KeysUpTo(rest, n) OBVIOUS
  <2>2. e = [key |-> key, bytes |-> bytes] /\ rest = Others(key) OBVIOUS
  <2> HIDE DEF tn, Kn, e, rest, t, K
  <2>3. tn \in Seq(Entries) /\ InFront(e, rest, n, tn, Kn)
    BY <1>1, <1>3, <2>1, PutInFront DEF InFront
  <2>5. Fronted(key, bytes, rest, n, tn, Kn) BY <2>2, <2>3 DEF Fronted
  <2>4. Listed(tn, Kn \cup {key}) /\ Bytes(tn, 1..Len(tn)) = bytes + Bytes(rest, 1..n)
    BY <2>3, <2>5, FrontList
  <2> QED BY <2>3, <2>4 DEF tn, Kn
<1>6. CASE AccessHit(key, bytes)
  <2> DEFINE n == Len(rest)  tn == t(n)  I == K(n) \cup {key}
  <2>1. key \in index /\ Entry(key).bytes = bytes BY <1>6 DEF AccessHit, Found
  <2>2. SubSeq(rest, 1, n) = rest BY <1>1
  <2>3. entries' = tn BY <1>6, <2>2 DEF AccessHit, Promoted
  <2>4. I = index
    <3> DEFINE Kn == K(n)
    <3>1. Kn = index \ {key}
      <4>1. rest = Others(key) /\ Kn = KeysUpTo(rest, n) OBVIOUS
      <4>2. n \in 0..Len(rest) /\ n = Len(rest) BY <1>4
      <4> HIDE DEF rest, Kn, K, n
      <4> QED BY <4>1, <4>2, FrontIndex
    <3> HIDE DEF Kn
    <3> SUFFICES Kn \cup {key} = index BY DEF Kn
    <3> QED BY <2>1, <3>1
  <2>5. tn \in Seq(Entries) /\ Listed(tn, I) /\ Bytes(tn, 1..Len(tn)) = stats.resident
    BY <1>1, <1>4, <1>5, <2>1
  <2> DEFINE u == stats'
  <2>6. /\ u \in [capacity : Capacities, resident : Nat, requests : Nat, hits : Nat,
                  misses : Nat, evictions : Nat, evicted : Nat, bypasses : Nat]
        /\ u.resident = stats.resident /\ u.capacity = stats.capacity
    <3>1. stats' = [stats EXCEPT !.requests = @ + 1, !.hits = @ + 1] BY <1>6 DEF AccessHit
    <3>2. stats.requests + 1 \in Nat /\ stats.hits + 1 \in Nat BY <1>2
    <3> QED BY <1>2, <3>1, <3>2
  <2>7. index' = I /\ stats' = u BY <1>6, <2>4 DEF AccessHit
  <2> HIDE DEF tn, I, u
  <2> QED BY <1>2, <2>3, <2>5, <2>6, <2>7, LruInvFolds
<1>7. CASE AccessBypass(key, bytes)
  <2> DEFINE J == index \ {key}  u == stats'
  <2>1. entries' = rest /\ index' = J /\ stats' = u BY <1>7 DEF AccessBypass
  <2>2. /\ u \in [capacity : Capacities, resident : Nat, requests : Nat, hits : Nat,
                  misses : Nat, evictions : Nat, evicted : Nat, bypasses : Nat]
        /\ u.resident = Bytes(rest, 1..Len(rest)) /\ u.capacity = stats.capacity
    <3> HIDE DEF rest
    <3>1. stats' = [stats EXCEPT !.requests = @ + 1, !.misses = @ + 1,
                                 !.resident = ResidentWithout(key), !.bypasses = @ + 1]
      BY <1>7 DEF AccessBypass
    <3>2. stats.requests + 1 \in Nat /\ stats.misses + 1 \in Nat /\ stats.bypasses + 1 \in Nat
      BY <1>2
    <3> QED BY <1>1, <1>2, <3>1, <3>2
  <2> HIDE DEF rest, J, u
  <2>3. u.resident <= u.capacity BY <1>1, <1>2, <2>2
  <2>4. Listed(rest, J) BY <1>1 DEF J
  <2> QED BY <1>1, <2>1, <2>2, <2>3, <2>4, LruInvFolds
<1>8. CASE AccessInsert(key, bytes)
  <2> DEFINE R == ResidentWithout(key)
             n == Survivors(rest, bytes, R)
             tn == t(n)  Kn == K(n)  I == Kn \cup {key}  u == stats'
  <2>1. /\ n \in 0..Len(rest) /\ ResidentLeft(rest, n, R) = Bytes(rest, 1..n)
        /\ n = 0 \/ bytes + Bytes(rest, 1..n) <= stats.capacity
    <3> HIDE DEF rest
    <3> QED BY LoopOnOthers DEF rest, MostThatFit
  <2>2. /\ tn \in Seq(Entries) /\ Listed(tn, I)
        /\ Bytes(tn, 1..Len(tn)) = bytes + Bytes(rest, 1..n)
    BY <1>5, <2>1
  <2>3. /\ entries' = tn /\ index' = IndexAfter(key, rest, n)
        /\ stats' = [stats EXCEPT
              !.requests = @ + 1, !.misses = @ + 1,
              !.resident = Plus(ResidentLeft(rest, n, R), bytes),
              !.evictions = @ + Len(rest) - n,
              !.evicted = @ + Bytes(rest, n + 1..Len(rest))]
        /\ bytes <= stats.capacity
    BY <1>2, <1>3, <1>8 DEF AccessInsert, TooBig
  <2>4. IndexAfter(key, rest, n) = I
    <3>1. rest = Others(key) /\ Kn = KeysUpTo(rest, n) OBVIOUS
    <3> HIDE DEF rest, Kn, K, n
    <3> QED BY <2>1, <3>1, FrontIndex
  <2>5. Bytes(rest, 1..n) \in Nat /\ Bytes(rest, n + 1..Len(rest)) \in Nat
    <3> HIDE DEF rest, n
    <3> QED BY <1>1, <2>1, BytesOfPrefix
  <2>6. bytes + Bytes(rest, 1..n) <= stats.capacity
    <3>1. CASE n = 0
      <4>1. {} \in SUBSET (1..Len(rest)) /\ 1..0 = {} OBVIOUS
      <4> HIDE DEF rest, n
      <4>2. Bytes(rest, {}) = 0 BY <1>1, <4>1, BytesAdd
      <4>3. Bytes(rest, 1..n) = 0 BY <3>1, <4>1, <4>2
      <4> QED BY <1>2, <1>3, <2>3, <4>3
    <3> QED BY <2>1, <3>1
  <2>7. Plus(Bytes(rest, 1..n), bytes) = Bytes(rest, 1..n) + bytes
    <3> DEFINE b == Bytes(rest, 1..n)
    <3>1. b \in Nat /\ b + bytes <= SizeMax
      <4>1. SizeMax \in Nat BY SizesAreNumbers
      <4> HIDE DEF rest, n
      <4> QED BY <1>2, <1>3, <2>5, <2>6, <4>1
    <3> HIDE DEF b
    <3>2. Plus(b, bytes) = b + bytes BY <1>3, <3>1, SmallSums
    <3> QED BY <3>2 DEF b
  <2> HIDE DEF rest, n, R, tn, I
  <2>8. Len(rest) - n \in Nat BY <1>4, <2>1
  <2>9. /\ u \in [capacity : Capacities, resident : Nat, requests : Nat, hits : Nat,
                  misses : Nat, evictions : Nat, evicted : Nat, bypasses : Nat]
        /\ u.resident = bytes + Bytes(rest, 1..n) /\ u.capacity = stats.capacity
    <3>1. Plus(ResidentLeft(rest, n, R), bytes) = bytes + Bytes(rest, 1..n)
          /\ bytes + Bytes(rest, 1..n) \in Nat
      BY <1>3, <2>1, <2>5, <2>7
    <3>2. /\ stats.requests + 1 \in Nat /\ stats.misses + 1 \in Nat
          /\ stats.evictions + Len(rest) - n \in Nat
          /\ stats.evicted + Bytes(rest, n + 1..Len(rest)) \in Nat
      <4>1. stats.requests + 1 \in Nat /\ stats.misses + 1 \in Nat BY <1>2
      <4>2. n \in Nat /\ n <= Len(rest) /\ Len(rest) \in Nat BY <1>4, <2>1
      <4>3. stats.evictions + Len(rest) - n \in Nat BY <1>2, <4>2
      <4>4. stats.evicted + Bytes(rest, n + 1..Len(rest)) \in Nat BY <1>2, <2>5
      <4> QED BY <4>1, <4>3, <4>4
    <3> QED BY <1>2, <2>3, <3>1, <3>2
  <2>10. index' = I /\ stats' = u BY <2>3, <2>4
  <2> HIDE DEF u
  <2> QED BY <1>2, <2>2, <2>3, <2>6, <2>9, <2>10, LruInvFolds
<1> QED BY <1>6, <1>7, <1>8 DEF Access
-----------------------------------------------------------------------------
(* Owners and counters                                                     *)

\* What the counters need of their record; the byte counts are not read here.
Counters == {"capacity", "resident", "requests", "hits", "misses",
             "evictions", "evicted", "bypasses"}
CountersOK ==
    /\ DOMAIN stats = Counters
    /\ stats.requests \in Nat /\ stats.hits \in Nat /\ stats.misses \in Nat
    /\ stats.hits + stats.misses = stats.requests

ContextsOK ==
    /\ budget \in [Contexts -> Nat] /\ observed \in [Contexts -> Nat]
    /\ life \in [Contexts -> {"none", "live", "rejected"}]
    /\ isOwner \in [Contexts -> BOOLEAN]

Observes(c) == life[c] = "live" /\ budget[c] > 0

\* One context at most observes, it is the owner, and only it feeds.
Ownership ==
    /\ \A c \in Contexts : isOwner[c] <=> Observes(c)
    /\ \A c \in Contexts : isOwner[c] => owned
    /\ \A c, d \in Contexts : isOwner[c] /\ isOwner[d] => c = d
    /\ feeder # None => feeder \in Contexts /\ isOwner[feeder]

Accounts ==
    trace # None =>
        /\ owned /\ trace \in [written : Nat, dropped : Nat]
        /\ trace.written + trace.dropped = stats.requests

Inv == CountersOK /\ ContextsOK /\ Ownership /\ OwnerUndisturbed /\ Accounts
-----------------------------------------------------------------------------
\* A budget a context may ask for is a number of bytes.
LEMMA BudgetsAreNumbers == Capacities \subseteq Nat
BY SizesAssumption

\* A reset leaves an empty shadow of the capacity asked for.
LEMMA FreshCounters ==
    ASSUME NEW cap, Reset(cap)
    PROVE  CountersOK' /\ stats'.capacity = cap /\ stats'.requests = 0
BY DEF Reset, NoStats, CountersOK, Counters

\* Each access counts one request, and it is a hit or a miss.
LEMMA AccessCounts ==
    ASSUME CountersOK, NEW key, NEW bytes, Access(key, bytes)
    PROVE  /\ CountersOK' /\ stats'.capacity = stats.capacity
           /\ stats'.requests = stats.requests + 1
<1>1. CASE AccessHit(key, bytes)
  BY <1>1 DEF AccessHit, CountersOK, Counters
<1>2. CASE AccessBypass(key, bytes)
  BY <1>2 DEF AccessBypass, CountersOK, Counters
<1>3. CASE AccessInsert(key, bytes)
  BY <1>3 DEF AccessInsert, CountersOK, Counters
<1> QED BY <1>1, <1>2, <1>3 DEF Access

\* At first there is no context, no owner and no trace.
LEMMA InitInv == ShadowInit => Inv
BY DEF ShadowInit, LruInit, NoStats, Inv, CountersOK, Counters, ContextsOK, Ownership,
       OwnerUndisturbed, Observes, Accounts
-----------------------------------------------------------------------------
\* A context without a budget neither observes nor owns.
LEMMA StepCreateWithout ==
    ASSUME Inv, NEW c \in Contexts, CreateWithout(c)
    PROVE  Inv'
<1> USE DEF Inv, CreateWithout, lruVars, ownVars, feedVars
<1>1. CountersOK' BY DEF CountersOK
<1>2. ContextsOK' BY DEF ContextsOK
<1>3. Ownership' BY DEF Ownership, Observes, ContextsOK
<1>4. OwnerUndisturbed' BY DEF OwnerUndisturbed, ContextsOK
<1>5. Accounts' BY DEF Accounts
<1> QED BY <1>1, <1>2, <1>3, <1>4, <1>5

\* The shadow is free, so nobody observes before or beside the new owner.
LEMMA StepCreateOwner ==
    ASSUME Inv, NEW c \in Contexts, NEW cap \in Capacities, CreateOwner(c, cap)
    PROVE  Inv'
<1> USE DEF Inv, CreateOwner, TryAcquire, MayAcquire, Unlocked
<1>1. /\ CountersOK' /\ stats'.capacity = cap /\ stats'.requests = 0
  BY FreshCounters
<1>2. ContextsOK' BY BudgetsAreNumbers DEF ContextsOK
<1>3. \A d \in Contexts : ~isOwner[d] BY DEF Ownership
<1>4. Ownership' BY <1>3, BudgetsAreNumbers DEF Ownership, Observes, ContextsOK
<1>5. OwnerUndisturbed'
  BY <1>1, <1>3 DEF OwnerUndisturbed, ContextsOK, CountersOK, Ownership, Observes
<1>6. Accounts' BY <1>1 DEF Accounts, OpenTrace
<1> QED BY <1>1, <1>2, <1>4, <1>5, <1>6

\* A context that finds the shadow taken does not live, so does not observe.
LEMMA StepCreateRejected ==
    ASSUME Inv, NEW c \in Contexts, NEW cap \in Capacities, CreateRejected(c, cap)
    PROVE  Inv'
<1> USE DEF Inv, CreateRejected, lruVars, ownVars, feedVars
<1>1. CountersOK' BY DEF CountersOK
<1>2. ContextsOK' BY BudgetsAreNumbers DEF ContextsOK
<1>3. Ownership' BY DEF Ownership, Observes, ContextsOK
<1>4. OwnerUndisturbed' BY DEF OwnerUndisturbed, ContextsOK
<1>5. Accounts' BY DEF Accounts
<1> QED BY <1>1, <1>2, <1>3, <1>4, <1>5

\* An owner's shadow goes with it; any other context leaves it alone.
LEMMA StepLlamaFree ==
    ASSUME Inv, NEW c \in Contexts, LlamaFree(c)
    PROVE  Inv'
<1> USE DEF Inv, LlamaFree, Releases, feedVars
<1>1. CASE isOwner[c]
  <2>1. owned /\ \A d \in Contexts : isOwner[d] => d = c BY <1>1 DEF Ownership
  <2>2. Reset(0) /\ owned' = FALSE /\ trace' = None /\ Unlocked
    BY <1>1, <2>1 DEF Release, TraceAfterRelease
  <2>3. CountersOK' BY <2>2, FreshCounters
  <2>4. ContextsOK' BY DEF ContextsOK
  <2>5. \A d \in Contexts : ~isOwner'[d] /\ ~Observes(d)'
    BY <2>1 DEF Ownership, Observes, ContextsOK
  <2>6. Ownership' BY <2>2, <2>5 DEF Ownership, Unlocked
  <2>7. OwnerUndisturbed' BY <2>5 DEF OwnerUndisturbed, Observes
  <2>8. Accounts' BY <2>2 DEF Accounts
  <2> QED BY <2>3, <2>4, <2>6, <2>7, <2>8
<1>2. CASE ~isOwner[c]
  <2>1. UNCHANGED <<lruVars, ownVars>> BY <1>2
  <2> USE <2>1 DEF lruVars, ownVars
  <2>2. CountersOK' BY DEF CountersOK
  <2>3. ContextsOK' BY DEF ContextsOK
  <2>4. Ownership' BY <1>2 DEF Ownership, Observes, ContextsOK
  <2>5. OwnerUndisturbed' BY DEF OwnerUndisturbed, ContextsOK
  <2>6. Accounts' BY DEF Accounts
  <2> QED BY <2>2, <2>3, <2>4, <2>5, <2>6
<1> QED BY <1>1, <1>2

\* The capacity is set from outside only while nobody owns the shadow.
LEMMA StepSetCapacity ==
    ASSUME Inv, NEW cap \in Capacities, SetCapacity(cap)
    PROVE  Inv'
<1> USE DEF Inv, SetCapacity, ctxVars, ownVars, feedVars, lruVars
<1>1. CountersOK' BY FreshCounters DEF CountersOK
<1>2. ContextsOK' BY DEF ContextsOK
<1>3. Ownership' BY DEF Ownership, Observes
<1>4. OwnerUndisturbed' BY DEF OwnerUndisturbed, Ownership, Observes
<1>5. Accounts' BY DEF Accounts
<1> QED BY <1>1, <1>2, <1>3, <1>4, <1>5

\* A hook that begins feeding changes no counter; only the owner gets there.
LEMMA StepKernelHook ==
    ASSUME Inv, NEW c \in Contexts, NEW slices, KernelHook(c, slices)
    PROVE  Inv'
<1> USE DEF Inv, KernelHook, ctxVars, ownVars, lruVars
<1>1. CountersOK' BY DEF CountersOK
<1>2. ContextsOK' BY DEF ContextsOK
<1>3. Ownership' BY DEF Ownership, Observes
<1>4. OwnerUndisturbed' BY DEF OwnerUndisturbed
<1>5. Accounts' BY DEF Accounts
<1> QED BY <1>1, <1>2, <1>3, <1>4, <1>5

\* The slice fed is the owner's, and trace and counters advance together.
LEMMA StepFeed ==
    ASSUME Inv, Feed
    PROVE  Inv'
<1> USE DEF Inv, Feed, ctxVars
<1>1. /\ CountersOK' /\ stats'.capacity = stats.capacity
      /\ stats'.requests = stats.requests + 1
  BY AccessCounts
<1>2. feeder \in Contexts /\ isOwner[feeder] /\ owned BY DEF Ownership, Unlocked
<1>3. ContextsOK' BY <1>2 DEF ContextsOK
<1>4. Ownership' BY <1>2 DEF Ownership, Observes
<1>5. OwnerUndisturbed'
  <2> SUFFICES ASSUME NEW d \in Contexts, Observes(d)'
               PROVE  /\ stats'.capacity = budget'[d]
                      /\ stats'.requests = observed'[d]
                      /\ stats'.hits + stats'.misses = observed'[d]
    BY DEF OwnerUndisturbed, Observes
  <2>1. d = feeder BY <1>2 DEF Ownership, Observes
  <2>2. observed'[d] = stats'.requests
    BY <1>1, <2>1 DEF OwnerUndisturbed, Observes, ContextsOK
  <2>3. stats'.capacity = budget'[d] BY <1>1 DEF OwnerUndisturbed, Observes
  <2> QED BY <1>1, <2>2, <2>3 DEF CountersOK
<1>6. Accounts'
  <2>1. CASE trace = None BY <2>1 DEF Record, Accounts
  <2>2. CASE trace # None
    <3>1. /\ trace \in [written : Nat, dropped : Nat]
          /\ trace.written \in Nat /\ trace.dropped \in Nat
          /\ trace.written + trace.dropped = stats.requests
      BY <2>2 DEF Accounts
    <3>2. /\ trace' \in [written : Nat, dropped : Nat]
          /\ trace'.written + trace'.dropped = stats.requests + 1
      <4>1. CASE CanWrite
        <5>1. trace' = [written |-> trace.written + 1, dropped |-> trace.dropped]
          BY <3>1, <2>2, <4>1 DEF Record
        <5> QED BY <3>1, <5>1
      <4>2. CASE ~CanWrite
        <5>1. trace' = [written |-> trace.written, dropped |-> trace.dropped + 1]
          BY <3>1, <2>2, <4>2 DEF Record
        <5> QED BY <3>1, <5>1
      <4> QED BY <4>1, <4>2
    <3>3. owned' BY <1>2
    <3> HIDE DEF Inv, Feed
    <3> QED BY <1>1, <3>2, <3>3 DEF Accounts
  <2> QED BY <2>1, <2>2
<1> QED BY <1>1, <1>3, <1>4, <1>5, <1>6

\* Every step keeps the invariant.
LEMMA StepInv == Inv /\ [ShadowNext]_shadowVars => Inv'
<1> SUFFICES ASSUME Inv, [ShadowNext]_shadowVars PROVE Inv'
  OBVIOUS
<1>1. CASE UNCHANGED shadowVars
  BY <1>1 DEF shadowVars, lruVars, ctxVars, ownVars, feedVars, Inv, CountersOK, ContextsOK,
              Ownership, OwnerUndisturbed, Observes, Accounts
<1>2. CASE ShadowNext
  BY <1>2, StepCreateWithout, StepCreateOwner, StepCreateRejected, StepLlamaFree,
     StepSetCapacity, StepKernelHook, StepFeed DEF ShadowNext
<1> QED BY <1>1, <1>2

\* The invariant holds in every reachable state.
LEMMA AlwaysInv == ShadowSpec => []Inv
BY InitInv, StepInv, PTL DEF ShadowSpec
-----------------------------------------------------------------------------
\* Capacity and counters of the shadow are its owner's, whatever contexts are
\* created, rejected and freed beside it (ggml-moe-prefetch.h:50).
THEOREM OwnerCounts == ShadowSpec => []OwnerUndisturbed
<1>1. Inv => OwnerUndisturbed BY DEF Inv
<1> QED BY <1>1, AlwaysInv, PTL

\* The trace accounts for every access of the owner, written or dropped, and
\* is closed with the owner.
THEOREM TraceIsComplete == ShadowSpec => []TraceAccounts
<1>1. Inv => TraceAccounts BY DEF Inv, Accounts, TraceAccounts
<1> QED BY <1>1, AlwaysInv, PTL
-----------------------------------------------------------------------------
(* The list through kernels, owners and resets                             *)

\* cache_sim_mtx is held as long as there is a slice to feed.
HeldWhileFeeding == feeder = None <=> feeding = <<>>

ListInv == LruInv /\ ShadowTypeOK /\ HeldWhileFeeding

\* At first the list is empty.
LEMMA InitList == ShadowInit => ListInv
<1> SUFFICES ASSUME ShadowInit PROVE ListInv OBVIOUS
<1> DEFINE t == <<>>
           u == NoStats(0)
<1>1. t \in Seq(Entries) /\ Len(t) = 0 OBVIOUS
<1>2. \A i \in 1..Len(t) : FALSE BY <1>1
<1>3. 1..Len(t) = {} BY <1>2
<1>4. Listed(t, {}) BY <1>2 DEF Listed
<1>5. {} \in SUBSET (1..Len(t)) OBVIOUS
<1>6. Bytes(t, 1..Len(t)) = 0 BY <1>1, <1>3, <1>5, BytesAdd
<1>7. /\ u \in [capacity : Capacities, resident : 0..SizeMax, requests : Nat, hits : Nat,
                misses : Nat, evictions : Nat, evicted : Nat, bypasses : Nat]
      /\ u.resident = 0 /\ u.capacity = 0
  BY SizesAssumption DEF NoStats
<1>8. entries = t /\ index = {} /\ stats = u BY DEF ShadowInit, LruInit
<1> HIDE DEF t, u
<1>9. LruTypeOK BY <1>1, <1>7, <1>8 DEF LruTypeOK, Entries
<1>10. IndexMatchesList BY <1>4, <1>8 DEF IndexMatchesList, Listed
<1>11. BudgetKept BY <1>6, <1>7, <1>8 DEF BudgetKept
<1>13. HeldWhileFeeding BY DEF ShadowInit, HeldWhileFeeding
<1>14. feeding \in Seq([key : Keys, bytes : Sizes]) BY DEF ShadowInit
<1>15. /\ budget \in [Contexts -> Capacities \cup {0}] /\ observed \in [Contexts -> Nat]
       /\ isOwner \in [Contexts -> BOOLEAN]
       /\ life \in [Contexts -> {"none", "live", "rejected"}]
  BY DEF ShadowInit
<1>12. ShadowTypeOK /\ HeldWhileFeeding
  BY <1>9, <1>13, <1>14, <1>15 DEF ShadowInit, ShadowTypeOK
<1> QED BY <1>9, <1>10, <1>11, <1>12 DEF LruInv, ListInv

\* What a step leaves of the type when the list and the counters keep theirs.
LEMMA SameList ==
    ASSUME LruInv, UNCHANGED lruVars
    PROVE  LruInv'
BY DEF LruInv, LruTypeOK, IndexMatchesList, BudgetKept, lruVars

LEMMA ListOfCreate ==
    ASSUME ListInv, NEW c \in Contexts, NEW cap \in Capacities,
           CreateWithout(c) \/ CreateOwner(c, cap) \/ CreateRejected(c, cap)
    PROVE  ListInv'
<1>1. LruInv'
  <2>1. CASE CreateOwner(c, cap)
    BY <2>1, ResetLru DEF CreateOwner, TryAcquire
  <2>2. CASE UNCHANGED lruVars BY <2>2, SameList DEF ListInv
  <2> QED BY <2>1, <2>2 DEF CreateWithout, CreateRejected
<1>2. LruTypeOK' BY <1>1 DEF LruInv
<1>3. CASE CreateWithout(c)
  BY <1>1, <1>2, <1>3
  DEF ListInv, ShadowTypeOK, HeldWhileFeeding, CreateWithout, ownVars, feedVars
<1>4. CASE CreateRejected(c, cap)
  BY <1>1, <1>2, <1>4
  DEF ListInv, ShadowTypeOK, HeldWhileFeeding, CreateRejected, ownVars, feedVars
<1>5. CASE CreateOwner(c, cap)
  <2>1. trace' = None \/ trace' \in [written : 0..TraceLimit, dropped : Nat]
    BY <1>5, ShadowAssumption DEF CreateOwner, TryAcquire, OpenTrace
  <2>2. traceFile' \in BOOLEAN
    BY <1>5 DEF CreateOwner, TryAcquire, OpenTrace, ListInv, ShadowTypeOK
  <2> QED BY <1>1, <1>2, <1>5, <2>1, <2>2
          DEF ListInv, ShadowTypeOK, HeldWhileFeeding, CreateOwner, TryAcquire
<1> QED BY <1>3, <1>4, <1>5

LEMMA ListOfFree ==
    ASSUME ListInv, NEW c \in Contexts, LlamaFree(c)
    PROVE  ListInv'
<1>1. LruInv' /\ owned' \in BOOLEAN /\ traceFile' \in BOOLEAN
      /\ (trace' = None \/ trace' \in [written : 0..TraceLimit, dropped : Nat])
  <2>1. CASE UNCHANGED <<lruVars, ownVars>>
    BY <2>1, SameList DEF ListInv, ShadowTypeOK, ownVars
  <2>2. CASE Reset(0) /\ owned' = FALSE /\ trace' = None /\ UNCHANGED traceFile
    BY <2>2, ResetLru, SizesAssumption DEF ListInv, ShadowTypeOK
  <2> QED BY <2>1, <2>2 DEF LlamaFree, Release, TraceAfterRelease
<1>2. LruTypeOK' BY <1>1 DEF LruInv
<1> QED BY <1>1, <1>2 DEF ListInv, ShadowTypeOK, HeldWhileFeeding, LlamaFree, feedVars

LEMMA ListOfCapacity ==
    ASSUME ListInv, NEW cap \in Capacities, SetCapacity(cap)
    PROVE  ListInv'
<1>1. LruInv' BY ResetLru, SameList DEF SetCapacity, ListInv
<1>2. LruTypeOK' BY <1>1 DEF LruInv
<1> QED BY <1>1, <1>2
        DEF ListInv, ShadowTypeOK, HeldWhileFeeding, SetCapacity, ctxVars, ownVars, feedVars

LEMMA ListOfHook ==
    ASSUME ListInv, NEW c \in Contexts, NEW slices \in KernelEntries, KernelHook(c, slices)
    PROVE  ListInv'
<1>1. LruInv' BY SameList DEF KernelHook, ListInv
<1>2. LruTypeOK' BY <1>1 DEF LruInv
<1>3. slices \in Seq([key : Keys, bytes : Sizes]) /\ slices # <<>> /\ c # None
  BY ShadowAssumption
<1> QED BY <1>1, <1>2, <1>3
        DEF ListInv, ShadowTypeOK, HeldWhileFeeding, KernelHook, ctxVars, ownVars

LEMMA ListOfFeed ==
    ASSUME ListInv, Feed
    PROVE  ListInv'
<1>1. /\ feeding \in Seq(Entries) /\ feeding # <<>> /\ feeder \in Contexts /\ feeder # None
  BY DEF ListInv, ShadowTypeOK, HeldWhileFeeding, Feed, Unlocked, Entries
<1>2. Head(feeding) \in Entries /\ Tail(feeding) \in Seq(Entries) /\ Len(feeding) \in Nat
  BY <1>1
<1>3. Head(feeding).key \in Keys /\ Head(feeding).bytes \in Sizes BY <1>2 DEF Entries
<1>4. LruInv' BY <1>3, AccessLru DEF Feed, ListInv
<1>5. LruTypeOK' BY <1>4 DEF LruInv
<1>6. Len(feeding) = 1 <=> Tail(feeding) = <<>>
  <2>1. Len(Tail(feeding)) = Len(feeding) - 1 BY <1>1
  <2>2. Tail(feeding) = <<>> <=> Len(Tail(feeding)) = 0 BY <1>2, EmptySeq
  <2> QED BY <1>2, <2>1, <2>2
<1>7. HeldWhileFeeding' BY <1>1, <1>6 DEF HeldWhileFeeding, Feed
<1>8. trace' = None \/ trace' \in [written : 0..TraceLimit, dropped : Nat]
  <2>1. CASE trace = None BY <2>1 DEF Feed, Record
  <2>2. CASE trace # None
    <3>1. /\ trace \in [written : 0..TraceLimit, dropped : Nat]
          /\ trace.written \in Nat /\ trace.dropped \in Nat
      BY <2>2 DEF ListInv, ShadowTypeOK
    <3>2. CASE trace.written < TraceLimit
      <4>1. trace' = [trace EXCEPT !.written = @ + 1]
        BY <2>2, <3>2 DEF Feed, Record, CanWrite
      <4>2. trace.written + 1 \in 0..TraceLimit BY <3>1, <3>2, ShadowAssumption
      <4> QED BY <3>1, <4>1, <4>2
    <3>3. CASE ~(trace.written < TraceLimit)
      <4>1. trace' = [trace EXCEPT !.dropped = @ + 1]
        BY <2>2, <3>3 DEF Feed, Record, CanWrite
      <4>2. trace.dropped + 1 \in Nat BY <3>1
      <4> QED BY <3>1, <4>1, <4>2
    <3> QED BY <3>2, <3>3
  <2> QED BY <2>1, <2>2
<1>9. observed' \in [Contexts -> Nat] BY <1>1 DEF Feed, ListInv, ShadowTypeOK
<1>10. feeding' \in Seq(Entries) /\ feeder' \in Contexts \cup {None}
  BY <1>1, <1>2 DEF Feed
<1>11. ShadowTypeOK' BY <1>5, <1>8, <1>9, <1>10 DEF ShadowTypeOK, ListInv, Feed, ctxVars, Entries
<1> QED BY <1>4, <1>7, <1>11 DEF ListInv

LEMMA StepList == ListInv /\ [ShadowNext]_shadowVars => ListInv'
<1> SUFFICES ASSUME ListInv, [ShadowNext]_shadowVars PROVE ListInv' OBVIOUS
<1>1. CASE UNCHANGED shadowVars
  <2>1. LruInv' BY <1>1, SameList DEF ListInv, shadowVars
  <2>2. LruTypeOK' BY <2>1 DEF LruInv
  <2> QED BY <1>1, <2>1, <2>2 DEF ListInv, ShadowTypeOK, HeldWhileFeeding,
                                   shadowVars, ctxVars, ownVars, feedVars
<1>2. CASE ShadowNext
  <2>1. ASSUME NEW c \in Contexts, CreateWithout(c) PROVE ListInv'
    BY <2>1, ListOfCreate, SizesAssumption
  <2> QED BY <1>2, <2>1, ListOfCreate, ListOfFree, ListOfCapacity, ListOfHook, ListOfFeed
          DEF ShadowNext
<1> QED BY <1>1, <1>2

LEMMA AlwaysList == ShadowSpec => []ListInv
BY InitList, StepList, PTL DEF ShadowSpec
-----------------------------------------------------------------------------
\* The list, the counters, the owner and the trace keep their types: no count
\* of bytes leaves size_t and no kernel feeds without a context.
THEOREM ShadowTyped == ShadowSpec => []ShadowTypeOK
<1>1. ListInv => ShadowTypeOK BY DEF ListInv
<1> QED BY <1>1, AlwaysList, PTL

\* access() and reset() keep index_ and entries_ together: the same keys, each
\* once, so no iterator dangles and no entry is lost to the index.
THEOREM IndexFollowsList == ShadowSpec => []IndexMatchesList
<1>1. ListInv => IndexMatchesList BY DEF ListInv, LruInv
<1> QED BY <1>1, AlwaysList, PTL

\* resident_bytes is the sum of the entries and inside the budget, for every
\* size and capacity of size_t.
THEOREM BudgetIsKept == ShadowSpec => []BudgetKept
<1>1. ListInv => BudgetKept BY DEF ListInv, LruInv
<1> QED BY <1>1, AlwaysList, PTL
-----------------------------------------------------------------------------
(* The list is a byte-bounded LRU                                          *)

\* The policy's weight is the sum over what the list keeps.
LEMMA PolicyWeight == \A S : P!Weight(S) = SumFunctionOnSet(Kept, S)
BY Zenon DEF P!Weight, SumFunctionOnSet, FoldFunctionOnSet, MapThenFoldSet, P!SumFunctionOnSet, P!FoldFunctionOnSet,
            P!MapThenFoldSet

\* What the list keeps of a key is a number, and it keeps finitely many keys.
LEMMA KeptSizes ==
    ASSUME LruInv
    PROVE  /\ IsFiniteSet(index)
           /\ DOMAIN Kept = index
           /\ \A x \in index : Kept[x] = Entry(x).bytes /\ Kept[x] \in Nat
<1>1. entries \in Seq(Entries) /\ Listed(entries, index) BY LruInvUnfolds
<1>2. IsFiniteSet(index)
  <2> DEFINE f == [i \in 1..Len(entries) |-> entries[i].key]
  <2>1. Len(entries) \in Int BY <1>1
  <2>2. IsFiniteSet(1..Len(entries)) BY <2>1, FS_Interval
  <2>3. f \in Surjection(1..Len(entries), index) BY <1>1 DEF Listed, Surjection
  <2> HIDE DEF f
  <2> QED BY <2>2, <2>3, FS_Surjection
<1>3. ASSUME NEW x \in index PROVE Entry(x).bytes \in Nat
  <2>1. Place(entries, x) \in 1..Len(entries) BY <1>1, PlaceFinds
  <2> QED BY <1>1, <2>1, EntryFacts DEF Entry
<1> QED BY <1>2, <1>3 DEF Kept

\* The bytes of the most recent entries are the weight of their keys.
LEMMA WeightOfPrefix ==
    ASSUME LruInv, NEW key \in Keys, NEW rest, rest = Others(key), NEW m \in 0..Len(rest)
    PROVE  SumFunctionOnSet(Kept, KeysUpTo(rest, m)) = Bytes(rest, 1..m)
<1> DEFINE f == [i \in 1..Len(rest) |-> rest[i].bytes]
           h == [i \in 1..m |-> rest[i].key]
           K == KeysUpTo(rest, m)
           J == index \ {key}
<1>1. /\ rest \in Seq(Entries) /\ Listed(rest, J)
      /\ \A x \in J : rest[Place(rest, x)] = Entry(x)
  BY OthersList
<1>2. m \in Nat /\ Len(rest) \in Nat /\ \A i \in 1..m : i \in 1..Len(rest) BY <1>1
<1>3. IsFiniteSet(1..m) BY <1>2, FS_Interval
<1>4. h \in Bijection(1..m, K)
  <2>1. h \in [1..m -> K] BY DEF KeysUpTo
  <2>2. \A x \in K : \E i \in 1..m : h[i] = x BY DEF KeysUpTo
  <2>3. \A i, j \in 1..m : h[i] = h[j] => i = j BY <1>1, <1>2 DEF Listed
  <2> HIDE DEF h, K
  <2> QED BY <2>1, <2>2, <2>3 DEF Bijection, Injection, Surjection, IsInjective
<1>5. ASSUME NEW i \in 1..m PROVE f[i] \in Nat /\ Kept[h[i]] = f[i]
  <2>1. i \in 1..Len(rest) BY <1>2
  <2>2. rest[i].key \in J /\ Place(rest, rest[i].key) = i BY <1>1, <2>1, PlaceFinds
  <2>3. Entry(rest[i].key) = rest[i] BY <1>1, <2>2
  <2>4. Kept[rest[i].key] = rest[i].bytes BY <2>2, <2>3, KeptSizes
  <2>5. rest[i].bytes \in Nat BY <1>1, <2>1, EntryFacts
  <2> QED BY <2>1, <2>4, <2>5
<1>6. Bytes(rest, 1..m) = SumFunctionOnSet(f, 1..m) BY DEF Bytes
<1> HIDE DEF f, h, K
<1>7. SumFunctionOnSet(Kept, K) = SumFunctionOnSet(f, 1..m) BY <1>3, <1>4, <1>5, SumRenamed
<1> QED BY <1>6, <1>7 DEF K

\* A set of kept keys weighs at least as much as its parts.
LEMMA WeightGrows ==
    ASSUME LruInv, NEW T \in SUBSET index, NEW U \in SUBSET T
    PROVE  /\ SumFunctionOnSet(Kept, T) \in Nat /\ SumFunctionOnSet(Kept, U) \in Nat
           /\ SumFunctionOnSet(Kept, U) <= SumFunctionOnSet(Kept, T)
<1>1. IsFiniteSet(T) /\ IsFiniteSet(U) /\ IsFiniteSet(T \ U)
  <2>1. IsFiniteSet(index) BY KeptSizes
  <2> QED BY <2>1, FS_Subset
<1>2. \A x \in T : Kept[x] \in Nat BY KeptSizes
<1>3. SumFunctionOnSet(Kept, T) = SumFunctionOnSet(Kept, U) + SumFunctionOnSet(Kept, T \ U)
  BY <1>1, <1>2, SumParts
<1>4. /\ SumFunctionOnSet(Kept, T) \in Nat /\ SumFunctionOnSet(Kept, U) \in Nat
      /\ SumFunctionOnSet(Kept, T \ U) \in Nat
  BY <1>1, <1>2, SumIsNat
<1> QED BY <1>3, <1>4

\* Sizes of the keys of K and of one more key.
KeptWith(K, key, bytes) == [x \in K \cup {key} |-> IF x = key THEN bytes ELSE Kept[x]]

\* The key in front is the last used, and the others keep their order and size.
LEMMA FrontPolicy ==
    ASSUME LruInv, NEW key, NEW bytes, NEW rest, NEW n, NEW t, NEW K,
           Fronted(key, bytes, rest, n, t, K),
           entries' = t, index' = K \cup {key}
    PROVE  /\ Older' = P!Order(K, key)
           /\ Kept' = KeptWith(K, key, bytes)
<1>3. K \in SUBSET (index \ {key}) BY FrontKeys
<1>10. Listed(t, K \cup {key}) /\ Place(t, key) = 1 BY FrontList
<1>11. t[1].bytes = bytes BY DEF Fronted, InFront
<1>1. /\ Listed(t, K \cup {key}) /\ t[1].bytes = bytes
      /\ Place(t, key) = 1
      /\ \A x \in K : x \in index /\ x # key
  BY <1>3, <1>10, <1>11
<1>2. \A x \in K : Place(t, x) = Place(rest, x) + 1 /\ t[Place(t, x)] = Entry(x)
  BY FrontPlaces
<1>9. key \in Keys /\ bytes \in Sizes /\ n \in 0..Len(rest) /\ t \in Seq(Entries) /\ rest = Others(key)
  BY DEF Fronted
<1>4. /\ rest \in Seq(Entries) /\ Listed(rest, index \ {key})
      /\ \A x, y \in index \ {key} : Place(rest, x) < Place(rest, y)
                                        <=> Place(entries, x) < Place(entries, y)
  BY <1>9, OthersList
<1>5. ASSUME NEW x \in K PROVE Place(rest, x) \in Nat /\ Place(rest, x) > 0
  <2>1. x \in index \ {key} BY <1>1
  <2>2. Place(rest, x) \in 1..Len(rest) BY <1>4, <2>1, PlaceFinds
  <2> QED BY <2>2
<1>6. ASSUME NEW x \in K \cup {key}, NEW y \in K \cup {key}
      PROVE  Place(t, y) < Place(t, x)
               <=> \/ x \in K /\ y \in K /\ Place(entries, y) < Place(entries, x)
                   \/ x \in K /\ y = key
  <2>1. CASE x = key
    <3>1. y = key \/ Place(t, y) = Place(rest, y) + 1 BY <1>2
    <3>2. ~(Place(t, y) < Place(t, x)) BY <1>1, <1>5, <2>1, <3>1
    <3> QED BY <1>1, <2>1, <3>2
  <2>2. CASE x \in K /\ y = key
    <3>1. Place(t, y) < Place(t, x) BY <1>1, <1>2, <1>5, <2>2
    <3> QED BY <2>2, <3>1
  <2>3. CASE x \in K /\ y \in K
    <3>1. Place(t, y) < Place(t, x) <=> Place(rest, y) < Place(rest, x)
      BY <1>2, <1>5, <2>3
    <3>2. Place(rest, y) < Place(rest, x) <=> Place(entries, y) < Place(entries, x)
      BY <1>1, <1>4, <2>3
    <3> QED BY <1>1, <2>3, <3>1, <3>2
  <2> QED BY <2>1, <2>2, <2>3
<1>7. Older' = P!Order(K, key)
  <2>1. Older' = { q \in (K \cup {key}) \X (K \cup {key}) : Place(t, q[2]) < Place(t, q[1]) }
    BY DEF Older
  <2>2. ASSUME NEW x, NEW y
        PROVE  <<x, y>> \in Older' <=> <<x, y>> \in P!Order(K, key)
    <3>1. <<x, y>> \in Older' <=> /\ x \in K \cup {key} /\ y \in K \cup {key}
                                  /\ Place(t, y) < Place(t, x)
      BY <2>1
    <3>2. <<x, y>> \in P!Order(K, key)
            <=> \/ x \in K /\ y \in K /\ Place(entries, y) < Place(entries, x)
                \/ x \in K /\ y = key
      BY <1>1 DEF P!Order, Older
    <3> QED BY <1>6, <3>1, <3>2
  <2>3. ASSUME NEW q PROVE q \in Older' => q = <<q[1], q[2]>> BY <2>1
  <2>4. ASSUME NEW q PROVE q \in P!Order(K, key) => q = <<q[1], q[2]>>
    BY DEF P!Order, Older
  <2>5. ASSUME NEW q PROVE q \in Older' <=> q \in P!Order(K, key)
    <3> DEFINE A == Older'  B == P!Order(K, key)
    <3>1. q = <<q[1], q[2]>> => (q \in A <=> q \in B) BY <2>2
    <3>2. q \in A \/ q \in B => q = <<q[1], q[2]>> BY <2>3, <2>4
    <3> HIDE DEF A, B
    <3>3. q \in A <=> q \in B BY <3>1, <3>2
    <3> QED BY <3>3 DEF A, B
  <2> QED BY <2>5, Zenon
<1>8. Kept' = [x \in K \cup {key} |-> IF x = key THEN bytes ELSE Kept[x]]
  <2>1. Kept' = [x \in K \cup {key} |-> t[Place(t, x)].bytes] BY DEF Kept, Entry
  <2>2. ASSUME NEW x \in K \cup {key}
        PROVE  t[Place(t, x)].bytes = IF x = key THEN bytes ELSE Kept[x]
    <3>1. CASE x = key BY <1>1, <3>1
    <3>2. CASE x # key
      <4>1. x \in K /\ x \in index BY <1>1, <3>2
      <4>2. Kept[x] = Entry(x).bytes BY <4>1, KeptSizes
      <4> QED BY <1>2, <3>2, <4>1, <4>2
    <3> QED BY <3>1, <3>2
  <2> QED BY <2>1, <2>2
<1> QED BY <1>7, <1>8 DEF KeptWith

\* A hit makes the key the last used and keeps every size.
LEMMA HitIsUse ==
    ASSUME LruInv, NEW key \in Keys, NEW bytes \in Sizes, AccessHit(key, bytes)
    PROVE  /\ key \in index /\ Kept[key] = bytes
           /\ Older' = P!Order(index \ {key}, key) /\ Kept' = Kept
<1> DEFINE rest == Others(key)
           n == Len(rest)
           e == [key |-> key, bytes |-> bytes]
           t == <<e>> \o rest
           J == index \ {key}
<1>1. rest \in Seq(Entries) /\ e \in Entries BY OthersList DEF Entries
<1>2. n \in 0..Len(rest) /\ n = Len(rest) /\ rest = Others(key) BY <1>1
<1>3. SubSeq(rest, 1, n) = rest BY <1>1
<1>4. KeysUpTo(rest, n) = J
  <2> HIDE DEF rest, n
  <2> QED BY <1>2, FrontIndex
<1>5. t = <<e>> \o SubSeq(rest, 1, n) BY <1>3
<1>6. t \in Seq(Entries) /\ InFront(e, rest, n, t, J)
  <2> HIDE DEF t, e, rest, n, J
  <2> QED BY <1>1, <1>2, <1>4, <1>5, PutInFront DEF InFront
<1>7. Fronted(key, bytes, rest, n, t, J) BY <1>2, <1>6 DEF Fronted
<1>8. key \in index /\ Entry(key).bytes = bytes /\ entries' = t /\ index' = index
  BY DEF AccessHit, Found, Promoted
<1>9. index' = J \cup {key} BY <1>8
<1>10. Kept[key] = bytes BY <1>8, KeptSizes
<1> HIDE DEF t, e, rest, n
<1>11. /\ Older' = P!Order(J, key)
       /\ Kept' = [x \in J \cup {key} |-> IF x = key THEN bytes ELSE Kept[x]]
  <2>1. entries' = t BY <1>8
  <2> HIDE DEF J
  <2>2. Older' = P!Order(J, key) BY <1>7, <1>9, <2>1, FrontPolicy
  <2>3. Kept' = KeptWith(J, key, bytes) BY <1>7, <1>9, <2>1, FrontPolicy
  <2> QED BY <2>2, <2>3 DEF KeptWith
<1>12. Kept = [x \in index |-> Kept[x]] BY DEF Kept
<1>13. J \cup {key} = index BY <1>8
<1>14. Kept' = Kept BY <1>10, <1>11, <1>12, <1>13
<1> QED BY <1>8, <1>10, <1>11, <1>14

\* A slice that is not worth caching takes its key out and nothing else.
LEMMA BypassIsUse ==
    ASSUME LruInv, NEW key \in Keys, NEW bytes \in Sizes, AccessBypass(key, bytes)
    PROVE  /\ ~(key \in index /\ Kept[key] = bytes)
           /\ bytes = 0 \/ bytes > stats.capacity
           /\ Kept' = [x \in index \ {key} |-> Kept[x]]
           /\ Older' = {p \in Older : key \notin {p[1], p[2]}}
<1> DEFINE rest == Others(key)
           J == index \ {key}
<1>1. /\ \A x \in J : rest[Place(rest, x)] = Entry(x)
      /\ \A x, y \in J : Place(rest, x) < Place(rest, y) <=> Place(entries, x) < Place(entries, y)
  BY OthersList
<1>2. entries' = rest /\ index' = J BY DEF AccessBypass
<1>3. ~(key \in index /\ Kept[key] = bytes) BY KeptSizes DEF AccessBypass, Found
<1>4. bytes = 0 \/ bytes > stats.capacity
  <2>1. stats.capacity \in Nat /\ bytes \in Nat BY LruInvUnfolds, SizesAreNumbers
  <2> QED BY <2>1 DEF AccessBypass, TooBig
<1> HIDE DEF rest
<1>5. Kept' = [x \in J |-> Kept[x]]
  <2>1. Kept' = [x \in J |-> rest[Place(rest, x)].bytes] BY <1>2 DEF Kept, Entry
  <2>2. \A x \in J : rest[Place(rest, x)].bytes = Kept[x] BY <1>1, KeptSizes
  <2> QED BY <2>1, <2>2
<1>6. Older' = {p \in Older : key \notin {p[1], p[2]}}
  <2> DEFINE A == Older'  B == {p \in Older : key \notin {p[1], p[2]}}
  <2>1. A = {q \in J \X J : Place(rest, q[2]) < Place(rest, q[1])} BY <1>2 DEF Older
  <2>2. ASSUME NEW x, NEW y PROVE <<x, y>> \in A <=> <<x, y>> \in B
    <3>1. <<x, y>> \in A <=> x \in J /\ y \in J /\ Place(rest, y) < Place(rest, x) BY <2>1
    <3>2. <<x, y>> \in B <=> x \in J /\ y \in J /\ Place(entries, y) < Place(entries, x)
      BY DEF Older
    <3> QED BY <1>1, <3>1, <3>2
  <2>3. ASSUME NEW q PROVE q \in A => q = <<q[1], q[2]>> BY <2>1
  <2>4. ASSUME NEW q PROVE q \in B => q = <<q[1], q[2]>> BY DEF Older
  <2> HIDE DEF A, B
  <2>5. ASSUME NEW q PROVE q \in A <=> q \in B
    <3>1. q = <<q[1], q[2]>> => (q \in A <=> q \in B) BY <2>2
    <3>2. q \in A \/ q \in B => q = <<q[1], q[2]>> BY <2>3, <2>4
    <3> QED BY <3>1, <3>2
  <2>6. A = B BY <2>5, Zenon
  <2> QED BY <2>6 DEF A, B
<1> QED BY <1>3, <1>4, <1>5, <1>6

\* The keys the loop keeps are the most recent, they fit, and nothing of the
\* most recent that fits is left out.
LEMMA LoopIsPolicy ==
    ASSUME LruInv, NEW key \in Keys, NEW bytes \in Sizes, bytes <= stats.capacity,
           NEW rest, rest = Others(key), NEW n, MostThatFit(rest, n, bytes)
    PROVE  /\ P!Recent(KeysUpTo(rest, n), index \ {key})
           /\ P!Weight(KeysUpTo(rest, n)) + bytes <= stats.capacity
           /\ \A T \in SUBSET (index \ {key}) :
                 P!Recent(T, index \ {key}) /\ P!Weight(T) + bytes <= stats.capacity
                    => T \subseteq KeysUpTo(rest, n)
<1> DEFINE J == index \ {key}
           K(m) == KeysUpTo(rest, m)
<1>1. /\ rest \in Seq(Entries) /\ Listed(rest, J)
      /\ \A x, y \in J : Place(rest, x) < Place(rest, y) <=> Place(entries, x) < Place(entries, y)
  BY OthersList
<1>2. /\ n \in 0..Len(rest) /\ n \in Nat /\ Len(rest) \in Nat
      /\ n = 0 \/ bytes + Bytes(rest, 1..n) <= stats.capacity
      /\ \A m \in n + 1..Len(rest) : bytes + Bytes(rest, 1..m) > stats.capacity
  BY <1>1 DEF MostThatFit
<1>3. bytes \in Nat /\ stats.capacity \in Nat BY LruInvUnfolds, SizesAreNumbers
<1>4. ASSUME NEW m \in 0..Len(rest)
      PROVE  P!Weight(K(m)) = Bytes(rest, 1..m) /\ Bytes(rest, 1..m) \in Nat
  BY <1>1, WeightOfPrefix, PolicyWeight, BytesOfPrefix
<1>5. ASSUME NEW x \in J, NEW y \in J
      PROVE  /\ Place(rest, x) \in 1..Len(rest) /\ Place(rest, y) \in 1..Len(rest)
             /\ <<x, y>> \in Older <=> Place(rest, y) < Place(rest, x)
  <2>1. Place(rest, x) \in 1..Len(rest) /\ Place(rest, y) \in 1..Len(rest)
    BY <1>1, PlaceFinds
  <2>2. <<x, y>> \in Older <=> Place(entries, y) < Place(entries, x) BY DEF Older
  <2> QED BY <1>1, <2>1, <2>2
<1>6. ASSUME NEW x \in J, NEW m \in 0..Len(rest)
      PROVE  x \in K(m) <=> Place(rest, x) <= m
  <2>1. Place(rest, x) \in 1..Len(rest) /\ rest[Place(rest, x)].key = x BY <1>1, PlaceFinds
  <2>2. \A i \in 1..m : i \in 1..Len(rest) /\ Place(rest, rest[i].key) = i
    BY <1>1, <1>2, PlaceFinds
  <2>3. x \in K(m) => Place(rest, x) <= m BY <2>2 DEF KeysUpTo
  <2>4. Place(rest, x) <= m => Place(rest, x) \in 1..m BY <2>1
  <2>5. Place(rest, x) <= m => x \in K(m) BY <2>1, <2>4 DEF KeysUpTo
  <2> QED BY <2>3, <2>5
<1>7. ASSUME NEW m \in 0..Len(rest) PROVE K(m) \in SUBSET J
  <2>1. \A i \in 1..m : i \in 1..Len(rest) BY <1>2
  <2>2. \A x \in K(m) : x \in J BY <1>1, <2>1 DEF Listed, KeysUpTo
  <2> QED BY <2>2
<1> HIDE DEF J, K
<1>8. P!Recent(K(n), J)
  <2> SUFFICES ASSUME NEW a \in K(n), NEW b \in J, <<a, b>> \in Older PROVE b \in K(n)
    BY DEF P!Recent
  <2>1. a \in J BY <1>2, <1>7
  <2>2. Place(rest, a) <= n BY <1>2, <1>6, <2>1
  <2>3. /\ Place(rest, a) \in Nat /\ Place(rest, b) \in Nat
        /\ Place(rest, b) < Place(rest, a)
    BY <1>5, <2>1
  <2>4. Place(rest, b) <= n BY <1>2, <2>2, <2>3
  <2> QED BY <1>2, <1>6, <2>4
<1>9. P!Weight(K(n)) + bytes <= stats.capacity
  <2>1. CASE n = 0
    <3>1. {} \in SUBSET (1..Len(rest)) /\ 1..0 = {} OBVIOUS
    <3>2. Bytes(rest, {}) = 0 BY <1>1, <3>1, BytesAdd
    <3>3. Bytes(rest, 1..n) = 0 BY <2>1, <3>1, <3>2
    <3> QED BY <1>2, <1>3, <1>4, <3>3
  <2>2. CASE bytes + Bytes(rest, 1..n) <= stats.capacity
    BY <1>2, <1>3, <1>4, <2>2
  <2> QED BY <1>2, <2>1, <2>2
<1>10. ASSUME NEW T \in SUBSET J, P!Recent(T, J), P!Weight(T) + bytes <= stats.capacity,
              NEW a \in T, a \notin K(n)
       PROVE  FALSE
  <2> DEFINE m == Place(rest, a)
  <2>1. a \in J OBVIOUS
  <2>8. m \in 1..Len(rest) BY <1>5, <2>1
  <2>9. ~(m <= n) BY <1>2, <1>6, <1>10, <2>1
  <2>2. m \in 1..Len(rest) /\ m \in 0..Len(rest) /\ m \in Nat
    <3> HIDE DEF m
    <3> QED BY <1>2, <2>8
  <2>3. m \in n + 1..Len(rest)
    <3> HIDE DEF m
    <3> QED BY <1>2, <2>2, <2>9
  <2>4. ASSUME NEW b \in K(m) PROVE b \in T
    <3>1. b \in J BY <1>7, <2>2
    <3>2. Place(rest, b) <= m BY <1>6, <2>2, <3>1
    <3>3. CASE Place(rest, b) = m
      <4>1. a = rest[m].key /\ b = rest[m].key BY <1>1, <2>1, <3>1, <3>3, PlaceFinds
      <4> QED BY <4>1
    <3>4. CASE Place(rest, b) < m
      <4>1. <<a, b>> \in Older BY <1>5, <2>1, <3>1, <3>4
      <4> QED BY <1>10, <3>1, <4>1 DEF P!Recent
    <3>6. Place(rest, b) \in 1..Len(rest) BY <1>5, <3>1
    <3>5. Place(rest, b) \in Nat /\ m \in Nat BY <1>2, <2>2, <3>6
    <3> QED BY <3>2, <3>3, <3>4, <3>5
  <2> HIDE DEF m
  <2>5. T \in SUBSET index /\ K(m) \in SUBSET T BY <2>4 DEF J
  <2>6. P!Weight(K(m)) <= P!Weight(T) /\ P!Weight(T) \in Nat /\ P!Weight(K(m)) \in Nat
    BY <2>5, WeightGrows, PolicyWeight
  <2>7. bytes + P!Weight(K(m)) > stats.capacity BY <1>2, <1>4, <2>2, <2>3
  <2> QED BY <1>3, <1>10, <2>6, <2>7
<1> QED BY <1>8, <1>9, <1>10 DEF J, K

\* A miss that is cached keeps what the policy keeps.
LEMMA InsertIsUse ==
    ASSUME LruInv, NEW key \in Keys, NEW bytes \in Sizes, AccessInsert(key, bytes)
    PROVE  /\ ~(key \in index /\ Kept[key] = bytes)
           /\ bytes > 0 /\ bytes <= stats.capacity
           /\ \E S \in SUBSET (index \ {key}) :
                 /\ P!Recent(S, index \ {key})
                 /\ P!Weight(S) + bytes <= stats.capacity
                 /\ \A T \in SUBSET (index \ {key}) :
                       P!Recent(T, index \ {key}) /\ P!Weight(T) + bytes <= stats.capacity
                          => T \subseteq S
                 /\ Kept' = KeptWith(S, key, bytes)
                 /\ Older' = P!Order(S, key)
<1> DEFINE rest == Others(key)
           n == Survivors(rest, bytes, ResidentWithout(key))
           e == [key |-> key, bytes |-> bytes]
           t == <<e>> \o SubSeq(rest, 1, n)
           K == KeysUpTo(rest, n)
           J == index \ {key}
<1>1. rest \in Seq(Entries) /\ e \in Entries BY OthersList DEF Entries
<1>2. MostThatFit(rest, n, bytes)
  <2> HIDE DEF rest
  <2> QED BY LoopOnOthers DEF rest
<1>3. n \in 0..Len(rest) BY <1>2 DEF MostThatFit
<1>4. ~(key \in index /\ Kept[key] = bytes) BY KeptSizes DEF AccessInsert, Found
<1>5. bytes > 0 /\ bytes <= stats.capacity
  <2>1. stats.capacity \in Nat /\ bytes \in Nat BY LruInvUnfolds, SizesAreNumbers
  <2> QED BY <2>1 DEF AccessInsert, TooBig
<1>6. entries' = t /\ index' = IndexAfter(key, rest, n) BY DEF AccessInsert
<1>7. IndexAfter(key, rest, n) = K \cup {key}
  <2>1. rest = Others(key) OBVIOUS
  <2> HIDE DEF rest, n
  <2> QED BY <1>3, <2>1, FrontIndex
<1>8. index' = K \cup {key} BY <1>6, <1>7
<1>9. Fronted(key, bytes, rest, n, t, K)
  <2>1. rest = Others(key) /\ t = <<e>> \o SubSeq(rest, 1, n) /\ K = KeysUpTo(rest, n)
        /\ e = [key |-> key, bytes |-> bytes]
    OBVIOUS
  <2> HIDE DEF rest, n, t, e, K
  <2>2. t \in Seq(Entries) /\ InFront(e, rest, n, t, K)
    BY <1>1, <1>3, <2>1, PutInFront DEF InFront
  <2> QED BY <1>3, <2>1, <2>2 DEF Fronted
<1>10. /\ P!Recent(K, J) /\ P!Weight(K) + bytes <= stats.capacity
       /\ \A T \in SUBSET J : P!Recent(T, J) /\ P!Weight(T) + bytes <= stats.capacity
                                 => T \subseteq K
  <2>1. rest = Others(key) OBVIOUS
  <2> HIDE DEF rest, n
  <2> QED BY <1>2, <1>5, <2>1, LoopIsPolicy
<1>11. entries' = t BY <1>6
<1> HIDE DEF rest, n, t, e, K
<1>12. K \in SUBSET J BY <1>9, FrontKeys
<1>13. Kept' = KeptWith(K, key, bytes) /\ Older' = P!Order(K, key)
  BY <1>8, <1>9, <1>11, FrontPolicy
<1> QED BY <1>4, <1>5, <1>10, <1>12, <1>13

\* access() uses the slice as the policy does.
LEMMA AccessIsUse ==
    ASSUME LruInv, NEW key \in Keys, NEW bytes \in Sizes, Access(key, bytes)
    PROVE  P!Use(key, bytes)
<1>1. DOMAIN Kept = index BY KeptSizes
<1>2. CASE AccessHit(key, bytes)
  <2>1. /\ key \in index /\ Kept[key] = bytes
        /\ Older' = P!Order(index \ {key}, key) /\ Kept' = Kept
    BY <1>2, HitIsUse
  <2> QED BY <1>1, <2>1 DEF P!Use
<1>3. CASE AccessBypass(key, bytes)
  <2>1. /\ ~(key \in index /\ Kept[key] = bytes)
        /\ bytes = 0 \/ bytes > stats.capacity
        /\ Kept' = [x \in index \ {key} |-> Kept[x]]
        /\ Older' = {p \in Older : key \notin {p[1], p[2]}}
    BY <1>3, BypassIsUse
  <2> QED BY <1>1, <2>1 DEF P!Use
<1>4. CASE AccessInsert(key, bytes)
  <2>1. ~(key \in index /\ Kept[key] = bytes) /\ bytes > 0 /\ bytes <= stats.capacity
    BY <1>4, InsertIsUse
  <2>2. PICK S \in SUBSET (index \ {key}) :
                 /\ P!Recent(S, index \ {key})
                 /\ P!Weight(S) + bytes <= stats.capacity
                 /\ \A T \in SUBSET (index \ {key}) :
                       P!Recent(T, index \ {key}) /\ P!Weight(T) + bytes <= stats.capacity
                          => T \subseteq S
                 /\ Kept' = KeptWith(S, key, bytes)
                 /\ Older' = P!Order(S, key)
    BY <1>4, InsertIsUse
  <2> QED BY <1>1, <2>1, <2>2 DEF P!Use, KeptWith
<1> QED BY <1>2, <1>3, <1>4 DEF Access

\* A reset forgets everything.
LEMMA ResetForgets ==
    ASSUME NEW cap \in Capacities, Reset(cap)
    PROVE  /\ stats'.capacity \in Capacities /\ Kept' = P!NoneKept /\ Older' = {}
<1>1. index' = {} /\ stats'.capacity = cap BY DEF Reset, NoStats
<1>2. Kept' = P!NoneKept BY <1>1 DEF Kept, P!NoneKept
<1>3. Older' = {} BY <1>1 DEF Older
<1> QED BY <1>1, <1>2, <1>3

\* A step that leaves the list alone leaves the policy's view of it alone.
LEMMA SamePolicy ==
    ASSUME UNCHANGED lruVars
    PROVE  UNCHANGED <<stats.capacity, Kept, Older>>
BY DEF lruVars, Kept, Older, Entry

PolicyStep == P!Ask \/ P!Serve \/ P!Restart \/ UNCHANGED P!policyVars

LEMMA InitPolicy == ShadowInit => P!PolicyInit
<1> SUFFICES ASSUME ShadowInit PROVE P!PolicyInit OBVIOUS
<1>1. index = {} /\ stats.capacity = 0 /\ feeding = <<>>
  BY DEF ShadowInit, LruInit, NoStats
<1>2. Kept = P!NoneKept BY <1>1 DEF Kept, P!NoneKept
<1>3. Older = {} BY <1>1 DEF Older
<1> QED BY <1>1, <1>2, <1>3, SizesAssumption DEF P!PolicyInit

\* A reset between kernels restarts the policy.
LEMMA ResetRestarts ==
    ASSUME ListInv, Unlocked, NEW cap \in Capacities, Reset(cap), UNCHANGED feeding
    PROVE  P!Restart
<1>1. feeding = <<>> BY DEF ListInv, HeldWhileFeeding, Unlocked
<1> QED BY <1>1, ResetForgets DEF P!Restart

\* Each step of the shadow is one of the policy, or none.
LEMMA StepPolicy ==
    ASSUME ListInv, [ShadowNext]_shadowVars
    PROVE  PolicyStep
<1>1. CASE UNCHANGED lruVars /\ UNCHANGED feeding
  BY <1>1, SamePolicy DEF PolicyStep, P!policyVars
<1>2. ASSUME NEW c \in Contexts, NEW cap \in Capacities,
             CreateWithout(c) \/ CreateOwner(c, cap) \/ CreateRejected(c, cap)
      PROVE  PolicyStep
  <2>1. CASE CreateOwner(c, cap)
    BY <2>1, ResetRestarts DEF CreateOwner, TryAcquire, PolicyStep
  <2> QED BY <1>1, <1>2, <2>1 DEF CreateWithout, CreateRejected, feedVars
<1>3. ASSUME NEW c \in Contexts, LlamaFree(c) PROVE PolicyStep
  <2>1. CASE Unlocked /\ Reset(0)
    BY <1>3, <2>1, ResetRestarts, SizesAssumption DEF LlamaFree, feedVars, PolicyStep
  <2> QED BY <1>1, <1>3, <2>1 DEF LlamaFree, Release, feedVars
<1>4. ASSUME NEW cap \in Capacities, SetCapacity(cap) PROVE PolicyStep
  BY <1>1, <1>4, ResetRestarts DEF SetCapacity, feedVars, PolicyStep
<1>5. ASSUME NEW c \in Contexts, NEW slices \in KernelEntries, KernelHook(c, slices)
      PROVE  PolicyStep
  <2>1. feeding = <<>> /\ feeding' \in KernelEntries
    BY <1>5 DEF KernelHook, ListInv, HeldWhileFeeding, Unlocked
  <2>2. UNCHANGED <<stats.capacity, Kept, Older>> BY <1>5, SamePolicy DEF KernelHook
  <2> QED BY <2>1, <2>2 DEF P!Ask, PolicyStep
<1>6. CASE Feed
  <2>1. feeding # <<>> /\ feeding \in Seq(Entries)
    BY <1>6 DEF Feed, ListInv, ShadowTypeOK, HeldWhileFeeding, Unlocked, Entries
  <2>5. Head(feeding) \in Entries BY <2>1
  <2>2. Head(feeding).key \in Keys /\ Head(feeding).bytes \in Sizes BY <2>5 DEF Entries
  <2>3. P!Use(Head(feeding).key, Head(feeding).bytes)
    BY <1>6, <2>2, AccessIsUse DEF Feed, ListInv
  <2>4. UNCHANGED stats.capacity
    BY <1>6 DEF Feed, Access, AccessHit, AccessBypass, AccessInsert, ListInv, LruInv, LruTypeOK
  <2> QED BY <1>6, <2>1, <2>3, <2>4 DEF Feed, P!Serve, PolicyStep
<1>7. CASE UNCHANGED shadowVars BY <1>1, <1>7 DEF shadowVars, feedVars
<1>8. CASE ShadowNext
  <2>1. ASSUME NEW c \in Contexts, CreateWithout(c) PROVE PolicyStep
    BY <1>2, <2>1, SizesAssumption
  <2> QED BY <1>2, <1>3, <1>4, <1>5, <1>6, <1>8, <2>1 DEF ShadowNext
<1> QED BY <1>7, <1>8
-----------------------------------------------------------------------------
\* Whatever kernels, owners and capacities come, access() evicts as a
\* byte-bounded LRU: requests in order, the most recently used slices that
\* fit the budget kept, and forgotten only when the shadow is reset.
THEOREM ShadowIsLru == ShadowSpec => IsLruPolicy
<1>1. ShadowInit => P!PolicyInit BY InitPolicy
<1>2. ListInv /\ [ShadowNext]_shadowVars => [P!Ask \/ P!Serve \/ P!Restart]_(P!policyVars)
  BY StepPolicy DEF PolicyStep
<1> QED BY <1>1, <1>2, AlwaysList, PTL DEF ShadowSpec, IsLruPolicy, P!PolicySpec
=============================================================================
