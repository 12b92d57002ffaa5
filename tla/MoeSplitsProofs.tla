--------------------------- MODULE MoeSplitsProofs ---------------------------
(***************************************************************************)
(* The invariants of MoeSplits for every graph, every window and number of *)
(* workers.  The engine's own invariant TicketInv carries over, because    *)
(* every step of the context is a step of the engine or leaves it alone;   *)
(* what is added says where the one client is inside a call, of which pass *)
(* the jobs are, and which weights of a split are still to be waited for.  *)
(***************************************************************************)
EXTENDS MoeSplits, MoePrefetchTickets

InPass == at \in {"split", "lookahead", "copy", "nodes", "eval", "cold"}

ProgType ==
    /\ at \in SplitPlaces
    /\ split \in 0..NSplits + 1 /\ enq \in 0..Cardinality(MoeInfos)
    /\ batch \in BOOLEAN /\ ids \subseteq Chunks /\ todo \in Seq(Tensors)
    /\ InPass => split >= 1 /\ (at # "split" => split <= NSplits)

\* The engine call that each loop of the context makes.
Inside ==
    /\ at \in {"init", "ready", "split"} => pc[Main] = "idle"
    /\ at = "init_map" => pc[Main] \in {"idle", "set_start"}
    /\ at = "init_residents" =>
          /\ pc[Main] \notin {"cold_take", "cold_apply", "set_start"}
          /\ pc[Main] \in {"enq_epoch", "enq_lock"} => call[Main].op = "experts"
    /\ at = "lookahead" =>
          /\ pc[Main] \in {"idle", "enq_epoch", "enq_lock"}
          /\ pc[Main] # "idle" => call[Main].op = "tensor" /\ batch /\ InWindow(call[Main].w)
          /\ \A w \in Elements(todo) : batch /\ InWindow(w)
    /\ at = "copy" => pc[Main] \in {"idle", "wait_lookup", "wait_check", "wait_sleep"}
    /\ at \in {"nodes", "eval"} =>
          /\ pc[Main] \in {"idle", "enq_epoch", "enq_lock"}
          /\ pc[Main] # "idle" => call[Main].op = "node"
          /\ pc[Main] # "idle" \/ todo # <<>> => Kind[split] = "host"
    /\ at = "cold" => pc[Main] \in {"idle", "cold_take", "cold_apply"}

\* The context makes its one pool before anything else and never gives it up.
OnePool ==
    /\ resume[Main] = "idle" /\ held[Main] \in {None, pool}
    /\ pc[Main] \notin {"stop", "join"}
    /\ pool = None <=> at = "init" \/ pc[Main] = "set_start"

\* Jobs are no newer than their tensor's ticket, nor the tickets than the pass;
\* the newest of them were made by the last enqueue.
Ages ==
    /\ \A p \in Pools, w \in Tensors : tkEpoch[p][w] <= epoch
    /\ \A p \in Pools : \A j \in Owed(p) :
          /\ j.e <= tkEpoch[p][j.w]
          /\ j.e = tkEpoch[p][j.w] => j.g = gen[p][j.w]
    /\ pc[Main] = "enq_lock" => call[Main].epoch = epoch

\* In a pass, its lookahead jobs are for weights in the window.
Windowed ==
    InPass => \A p \in Pools : \A j \in Owed(p) :
                  j.e = epoch /\ ~j.urgent => batch /\ InWindow(j.w)

\* Of a device split's weights, each is still to be visited by copy_inputs, is
\* being waited for, or has been streamed.
Waited ==
    at \in {"copy", "nodes", "eval"} /\ Kind[split] = "active" =>
        \A w \in Elements(Weights[split]) :
            \/ at = "copy" /\ w \in Elements(todo)
            \/ at = "copy" /\ pc[Main] # "idle" /\ call[Main].w = w
            \/ Outstanding(pool, w) = {}

Context == ProgType /\ Inside /\ OnePool
SplitsInv == TicketInv /\ Context /\ Ages /\ OncePerPass /\ Windowed /\ Waited
-----------------------------------------------------------------------------
USE NChunksAssumption, MaxThreadsAssumption, MaxPoolsAssumption, NoneAssumption
    DEF Chunks, Pools, Workers

LEMMA MainIsClient == Main \in Clients /\ \A c \in Clients : c = Main
BY MainAssumption

\* Leaving a call: the pool stays the engine's, so nobody destroys it.
LEMMA DropMain ==
    ASSUME TypeInv, OnePool, pc[Main] \in HoldPlaces, NEW next, Drop(Main, next)
    PROVE  /\ held[Main] = pool /\ pool \in Pools
           /\ pc' = [pc EXCEPT ![Main] = next] /\ held' = [held EXCEPT ![Main] = None]
           /\ resume' = [resume EXCEPT ![Main] = "idle"]
           /\ call' = IF next = "idle" THEN [call EXCEPT ![Main] = NoCall] ELSE call
<1>1. held[Main] \in Pools BY MainIsClient DEF TypeInv, ClientInv
<1>2. held[Main] = pool BY <1>1 DEF OnePool
<1>3. HeldByOthers(held[Main], Main) BY <1>2 DEF HeldByOthers
<1> QED BY <1>1, <1>2, <1>3 DEF Drop

\* Entering a call: there is a pool.
LEMMA EnterCall ==
    ASSUME TypeInv, OnePool, at # "init", pc[Main] # "set_start",
           NEW place, NEW args, GetPool(Main, place, args)
    PROVE  /\ pool \in Pools
           /\ pc' = [pc EXCEPT ![Main] = place] /\ held' = [held EXCEPT ![Main] = pool]
           /\ call' = [call EXCEPT ![Main] = args] /\ resume' = resume
<1>1. pool \in Pools BY DEF OnePool, TypeInv, TypeOK, PoolType
<1> QED BY <1>1 DEF GetPool, OnePool

\* The manifest's experts, in their order, are an order of a set of units.
LEMMA ResidentsAreOrder == \E S \in SUBSET Chunks : Residents \in Orders(S)
<1> DEFINE n == Len(Residents)
           S == Elements(Residents)
<1>1. /\ Residents \in Seq(Chunks) /\ n \in Nat
      /\ \A i, k \in 1..n : Residents[i] = Residents[k] => i = k
  BY SplitsAssumption
<1>2. S \in SUBSET Chunks BY <1>1 DEF Elements
<1>3. Residents \in [1..n -> S] BY <1>1 DEF Elements
<1> HIDE DEF n
<1>4. IsFiniteSet(1..n) /\ Cardinality(1..n) = n BY <1>1, FS_Interval
<1>5. Residents \in Bijection(1..n, S)
  <2>1. \A e \in S : \E i \in 1..n : Residents[i] = e BY DEF Elements, n
  <2> QED BY <1>1, <1>3, <2>1 DEF Bijection, Injection, IsInjective, Surjection
<1>6. Cardinality(S) = n BY <1>1, <1>5, FS_CountingElements DEF ExistsBijection
<1> QED BY <1>1, <1>2, <1>3, <1>6 DEF Orders

\* Every step of the context is a step of the engine, or leaves it alone.
LEMMA SplitsStepsEngine ==
    ASSUME Context, SplitsNext
    PROVE  [Next]_vars
<1>1. ASSUME NEW w \in Tensors, TensorCall(Main, w) PROVE Next BY <1>1, MainIsClient DEF Next
<1>2. ASSUME Setup(Main) PROVE Next BY <1>2, MainIsClient DEF Next
<1>3. todo # <<>> => Head(todo) \in Tensors BY DEF Context, ProgType
<1>4. ASSUME Setup(Main) \/ (todo # <<>> /\ TensorCall(Main, Head(todo))) \/ UNCHANGED vars
      PROVE  [Next]_vars
  BY <1>1, <1>2, <1>3, <1>4
<1>5. CASE InitPool BY <1>2, <1>5, SplitsAssumption DEF InitPool, Setup
<1>6. CASE InitMapping BY <1>2, <1>6 DEF InitMapping, Setup
<1>7. CASE PassBegin BY <1>2, <1>7 DEF PassBegin, Setup
<1>8. CASE InitResidents
  <2>1. CASE VisitFirst /\ PrefetchExperts(Main, Head(todo), Residents)
    BY <1>4, <2>1, ResidentsAreOrder DEF VisitFirst, TensorCall
  <2> QED BY <1>8, <2>1 DEF InitResidents
<1>9. CASE Lookahead BY <1>4, <1>9 DEF Lookahead, VisitFirst, TensorCall
<1>10. CASE CopyInputs BY <1>4, <1>10 DEF CopyInputs, VisitFirst, TensorCall
<1>11. CASE Nodes \/ Eval
  <2>1. ids \in SUBSET Chunks BY DEF Context, ProgType
  <2> QED BY <1>4, <1>11, <2>1 DEF Nodes, Eval, VisitFirst, TensorCall
<1>12. CASE Cold BY <1>4, <1>12 DEF Cold, VisitFirst, TensorCall
<1>13. CASE SplitBegin \/ PassEnd \/ EvalFails BY <1>13 DEF SplitBegin, PassEnd, EvalFails
<1>14. CASE Continue(Main) BY <1>14, MainIsClient DEF Next
<1>15. ASSUME NEW p \in Pools, NEW i \in Workers, Worker(p, i) PROVE Next BY <1>15 DEF Next
<1> QED
  BY <1>5, <1>6, <1>7, <1>8, <1>9, <1>10, <1>11, <1>12, <1>13, <1>14, <1>15
  DEF SplitsNext, Program
-----------------------------------------------------------------------------
\* moe_next only counts up to the number of MoE splits, and so does want_end.
LEMMA WindowBounds ==
    ASSUME NEW i \in Nat
    PROVE  /\ Cardinality(MoeInfos) \in Nat
           /\ MoeNext(i) \in Nat /\ MoeNext(i) <= Cardinality(MoeInfos)
           /\ WantEnd(i) \in Nat /\ WantEnd(i) <= Cardinality(MoeInfos)
           /\ WantEnd(i) <= MoeNext(i) + Ahead
<1>1. NSplits \in Nat /\ Ahead \in Nat BY SplitsAssumption
<1>2. IsFiniteSet(1..NSplits) BY <1>1, FS_Interval
<1>3. IsFiniteSet(MoeInfos)
  <2>1. MoeInfos \in SUBSET (1..NSplits) BY DEF MoeInfos
  <2> QED BY <1>2, <2>1, FS_Subset
<1>4. Cardinality(MoeInfos) \in Nat BY <1>3, FS_CardinalityType
<1>5. /\ IsFiniteSet({s \in MoeInfos : s < i})
      /\ MoeNext(i) <= Cardinality(MoeInfos)
  BY <1>3, FS_Subset DEF MoeNext
<1>6. MoeNext(i) \in Nat BY <1>5, FS_CardinalityType DEF MoeNext
<1> QED BY <1>1, <1>4, <1>5, <1>6 DEF WantEnd

LEMMA MoeCount == Cardinality(MoeInfos) \in Nat
BY WindowBounds, 0 \in Nat

\* The weights of a split are tensors; a loop over them visits these.
LEMMA WeightsAreTensors ==
    ASSUME NEW i \in 1..NSplits
    PROVE  Weights[i] \in Seq(Tensors) /\ Elements(<<>>) = {} /\ <<>> \in Seq(Tensors)
BY SplitsAssumption DEF Elements

LEMMA HeadAndTail ==
    ASSUME NEW T, NEW s \in Seq(T), s # <<>>
    PROVE  /\ Head(s) \in T /\ Head(s) \in Elements(s)
           /\ Tail(s) \in Seq(T)
           /\ Elements(s) = {Head(s)} \cup Elements(Tail(s))
<1>1. Len(s) \in Nat \ {0} BY EmptySeq
<1>2. Head(s) = s[1] OBVIOUS
<1>3. Tail(s) \in Seq(T) /\ Head(s) \in T BY HeadTailProperties
<1>4. Len(Tail(s)) = Len(s) - 1 OBVIOUS
<1>5. \A k \in 1..Len(Tail(s)) : Tail(s)[k] = s[k + 1] BY HeadTailProperties
<1>6. Head(s) \in Elements(s) BY <1>1, <1>2 DEF Elements
<1>7. ASSUME NEW w \in Elements(Tail(s)) PROVE w \in Elements(s)
  <2>1. PICK k \in 1..Len(Tail(s)) : w = Tail(s)[k] BY DEF Elements
  <2>2. k + 1 \in 1..Len(s) BY <1>1, <1>4
  <2>3. w = s[k + 1] BY <1>5, <2>1
  <2> QED BY <2>2, <2>3 DEF Elements
<1>8. ASSUME NEW w \in Elements(s), w # Head(s) PROVE w \in Elements(Tail(s))
  <2>1. PICK k \in 1..Len(s) : w = s[k] BY DEF Elements
  <2>2. k # 1 BY <1>2, <1>8, <2>1
  <2>3. k - 1 \in 1..Len(Tail(s)) /\ (k - 1) + 1 = k BY <1>1, <1>4, <2>2
  <2>4. w = Tail(s)[k - 1] BY <1>5, <2>1, <2>3
  <2> QED BY <2>3, <2>4 DEF Elements
<1> QED BY <1>3, <1>6, <1>7, <1>8

\* The context enters a call for the first tensor of its loop.
LEMMA VisitEnters ==
    ASSUME TypeInv, Context, VisitFirst, at \notin {"init", "init_map"}, pc[Main] = "idle",
           NEW place, NEW args, GetPool(Main, place, args), UNCHANGED pool
    PROVE  /\ pc'[Main] = place /\ call'[Main] = args
           /\ Head(todo) \in Tensors /\ Head(todo) \in Elements(todo)
           /\ Elements(todo) = {Head(todo)} \cup Elements(todo')
           /\ ProgType'
           /\ OnePool' \/ place \in {"stop", "join", "set_start"}
<1> USE DEF Context
<1>1. todo \in Seq(Tensors) /\ todo # <<>> /\ todo' = Tail(todo) BY DEF VisitFirst, ProgType
<1>2. /\ Head(todo) \in Tensors /\ Head(todo) \in Elements(todo) /\ todo' \in Seq(Tensors)
      /\ Elements(todo) = {Head(todo)} \cup Elements(todo')
  BY <1>1, HeadAndTail
<1>3. /\ pool \in Pools
      /\ pc' = [pc EXCEPT ![Main] = place] /\ held' = [held EXCEPT ![Main] = pool]
      /\ call' = [call EXCEPT ![Main] = args] /\ resume' = resume
  BY EnterCall
<1>4. pc'[Main] = place /\ call'[Main] = args /\ held'[Main] = pool
  BY <1>3, MainIsClient DEF TypeInv, TypeOK, ClientType
<1>5. ProgType' BY <1>2 DEF ProgType, InPass, VisitFirst
<1>6. place \notin {"stop", "join", "set_start"} => OnePool'
  BY <1>3, <1>4 DEF OnePool, VisitFirst
<1> QED BY <1>2, <1>4, <1>5, <1>6

\* What happens between calls when the loop has no work left: the engine's
\* variables stay, and the next loop is set up.
LEMMA LocalContext ==
    ASSUME TypeInv, Context, UNCHANGED vars, pc[Main] = "idle", ProgType', pool # None,
           at' \notin {"init", "init_map"},
           at' = "lookahead" => \A w \in Elements(todo') : batch' /\ InWindow(w)',
           at' \in {"nodes", "eval"} => (todo' # <<>> => Kind[split'] = "host")
    PROVE  Context'
<1>1. pc' = pc /\ held' = held /\ call' = call /\ resume' = resume /\ pool' = pool
  BY DEF vars, clientVars, poolVars
<1>2. OnePool' BY <1>1 DEF Context, OnePool
<1>3. Inside' BY <1>1 DEF Inside
<1> QED BY <1>2, <1>3 DEF Context

LEMMA EnqueueVisit ==
    ASSUME TypeInv, Context, VisitFirst, at \notin {"init", "init_map"}, pc[Main] = "idle",
           NEW op, NEW cs, CallEnqueue(Main, op, Head(todo), cs)
    PROVE  /\ pc'[Main] = "enq_epoch" /\ call'[Main].op = op /\ call'[Main].w = Head(todo)
           /\ Head(todo) \in Elements(todo) /\ Elements(todo') \subseteq Elements(todo)
           /\ ProgType' /\ OnePool'
<1>1. GetPool(Main, "enq_epoch", NewCall(op, Head(todo), cs, 0)) /\ UNCHANGED pool
  BY DEF CallEnqueue, poolVars
<1>2. /\ pc'[Main] = "enq_epoch" /\ call'[Main] = NewCall(op, Head(todo), cs, 0)
      /\ Head(todo) \in Elements(todo) /\ Elements(todo) = {Head(todo)} \cup Elements(todo')
      /\ ProgType' /\ OnePool'
  BY <1>1, VisitEnters
<1> QED BY <1>2 DEF NewCall
-----------------------------------------------------------------------------
LEMMA InitContext ==
    ASSUME TypeInv, Context, InitPool \/ InitMapping \/ InitResidents PROVE Context'
<1> USE DEF Context
<1>1. CASE InitPool
  <2>1. pool = None /\ held[Main] = None /\ NThreads > 0 /\ at = "init"
    BY <1>1, SplitsAssumption DEF InitPool, Ready, OnePool
  <2>2. pc'[Main] = "set_start" /\ resume'[Main] = "idle" /\ held'[Main] = None /\ pool' = None
    BY <1>1, <2>1, MainIsClient DEF InitPool, SetNThreads, TypeInv, TypeOK, ClientType
  <2>3. at' = "init_map" /\ todo' = <<>> /\ UNCHANGED <<split, enq, batch, ids>>
    BY <1>1 DEF InitPool, Goto
  <2>4. ProgType' BY <2>1, <2>3 DEF ProgType, SplitPlaces, InPass
  <2> QED BY <2>2, <2>3, <2>4 DEF OnePool, Inside
<1>2. CASE InitMapping
  <2>1. /\ pc' = pc /\ held' = held /\ resume' = resume /\ pool' = pool
        /\ pc[Main] = "idle" /\ at = "init_map" /\ at' = "init_residents" /\ todo' = Manifest
        /\ UNCHANGED <<split, enq, batch, ids>>
    BY <1>2 DEF InitMapping, RegisterMapping, Ready, Goto, clientVars, poolVars
  <2>2. ProgType' BY <2>1, SplitsAssumption DEF ProgType, SplitPlaces, InPass
  <2> QED BY <2>1, <2>2 DEF OnePool, Inside
<1>3. CASE InitResidents
  <2>1. at = "init_residents" /\ pc[Main] = "idle" BY <1>3 DEF InitResidents, Ready
  <2>2. CASE VisitFirst /\ PrefetchExperts(Main, Head(todo), Residents)
    <3>1. /\ pc'[Main] = "enq_epoch" /\ call'[Main].op = "experts" /\ ProgType' /\ OnePool'
      BY <2>1, <2>2, EnqueueVisit DEF PrefetchExperts
    <3> QED BY <2>1, <2>2, <3>1 DEF Inside, VisitFirst
  <2>3. CASE UNCHANGED vars /\ at' = "ready" /\ todo' = <<>> /\ UNCHANGED <<split, enq, batch, ids>>
    <3>1. ProgType' BY <2>1, <2>3 DEF ProgType, SplitPlaces, InPass
    <3> QED BY <2>1, <2>3, <3>1, LocalContext DEF OnePool
  <2> QED BY <1>3, <2>2, <2>3 DEF InitResidents, Goto
<1> QED BY <1>1, <1>2, <1>3

\* PassBegin, and the steps between the loops of a split.
LEMMA PassContext ==
    ASSUME TypeInv, Context, PassBegin \/ SplitBegin \/ EvalFails \/ PassEnd PROVE Context'
<1> USE DEF Context
<1>1. NSplits \in Nat BY SplitsAssumption
<1>2. CASE PassBegin
  <2>1. /\ pc' = pc /\ held' = held /\ resume' = resume /\ pool' = pool
        /\ pc[Main] = "idle" /\ at = "ready" /\ at' = "split" /\ todo' = <<>>
        /\ split' = 1 /\ enq' = 0 /\ ids' = {} /\ batch' \in BOOLEAN
    BY <1>2 DEF PassBegin, NewEpoch, Ready, Goto, clientVars, poolVars
  <2>2. ProgType' BY <1>1, <2>1, MoeCount DEF ProgType, SplitPlaces, InPass
  <2> QED BY <2>1, <2>2 DEF OnePool, Inside
<1>3. CASE SplitBegin
  <2>1. /\ UNCHANGED vars /\ UNCHANGED <<split, enq, batch, ids>> /\ pc[Main] = "idle"
        /\ at = "split" /\ split <= NSplits /\ at' = "lookahead" /\ todo' = <<>>
    BY <1>3 DEF SplitBegin, Ready, Goto
  <2>2. ProgType' BY <1>1, <2>1 DEF ProgType, SplitPlaces, InPass
  <2>3. Elements(todo') = {} BY <2>1 DEF Elements
  <2> QED BY <2>1, <2>2, <2>3, LocalContext DEF OnePool
<1>4. CASE EvalFails \/ PassEnd
  <2>1. /\ UNCHANGED vars /\ pc[Main] = "idle" /\ at \in {"eval", "split"} /\ at' = "ready"
        /\ todo' = <<>> /\ split' = 0 /\ enq' = 0 /\ batch' = FALSE /\ ids' \subseteq Chunks
    BY <1>4 DEF EvalFails, PassEnd, Ready, Goto, ProgType
  <2>2. split' \in 0..NSplits + 1 /\ enq' \in 0..Cardinality(MoeInfos)
    BY <1>1, <2>1, MoeCount
  <2>3. batch' \in BOOLEAN /\ todo' \in Seq(Tensors) /\ ids' \subseteq Chunks
    <3>1. <<>> \in Seq(Tensors) OBVIOUS
    <3> QED BY <2>1, <3>1
  <2>4. ProgType' BY <2>1, <2>2, <2>3 DEF ProgType, SplitPlaces, InPass
  <2> QED BY <2>1, <2>4, LocalContext DEF OnePool
<1> QED BY <1>2, <1>3, <1>4

LEMMA LookaheadContext == ASSUME TypeInv, Context, Lookahead PROVE Context'
<1> USE DEF Context
<1>1. at = "lookahead" /\ pc[Main] = "idle" /\ split \in 1..NSplits /\ NSplits \in Nat
  BY SplitsAssumption DEF Lookahead, Ready, ProgType, InPass
<1>2. CASE VisitFirst /\ PrefetchTensor(Main, Head(todo))
  <2>1. /\ pc'[Main] = "enq_epoch" /\ call'[Main].op = "tensor" /\ call'[Main].w = Head(todo)
        /\ Head(todo) \in Elements(todo) /\ Elements(todo') \subseteq Elements(todo)
        /\ ProgType' /\ OnePool'
    <3>1. PICK cs \in Orders(Chunks \ pinned[Head(todo)]) :
              CallEnqueue(Main, "tensor", Head(todo), cs)
      BY <1>2 DEF PrefetchTensor
    <3> QED BY <1>1, <1>2, <3>1, EnqueueVisit
  <2>2. UNCHANGED <<at, split, batch>> BY <1>2 DEF VisitFirst
  <2>3. \A w \in Elements(todo) : batch /\ InWindow(w) BY <1>1 DEF Inside
  <2>4. \A w : InWindow(w)' <=> InWindow(w) BY <2>2 DEF InWindow
  <2> QED BY <1>1, <2>1, <2>2, <2>3, <2>4 DEF Inside
<1>3. CASE /\ todo = <<>> /\ NextInfo < WantEnd(split) /\ enq' = NextInfo + 1
           /\ \E s \in MoeInfos :
                MoeNext(s) = NextInfo /\ todo' = IF batch THEN Weights[s] ELSE <<>>
           /\ UNCHANGED <<vars, at, split, batch, ids>>
  <2>1. PICK s \in MoeInfos :
            MoeNext(s) = NextInfo /\ todo' = IF batch THEN Weights[s] ELSE <<>>
    BY <1>3
  <2>2. s \in 1..NSplits BY DEF MoeInfos
  <2>3. todo' \in Seq(Tensors) BY <2>1, <2>2, WeightsAreTensors
  <2>4. NextInfo \in Nat /\ NextInfo + 1 <= Cardinality(MoeInfos) /\ MoeNext(s) < MoeNext(split) + Ahead
    <3>1. /\ MoeNext(split) \in Nat /\ WantEnd(split) \in Nat /\ Ahead \in Nat
          /\ WantEnd(split) <= Cardinality(MoeInfos) /\ WantEnd(split) <= MoeNext(split) + Ahead
          /\ Cardinality(MoeInfos) \in Nat
      <4>1. split \in Nat BY <1>1
      <4> QED BY <4>1, WindowBounds, SplitsAssumption
    <3>2. NextInfo \in Nat BY <3>1 DEF NextInfo, ProgType
    <3> QED BY <1>3, <2>1, <3>1, <3>2
  <2>5. ProgType'
    <3>1. enq' \in 0..Cardinality(MoeInfos) BY <1>3, <2>4, MoeCount
    <3> QED BY <1>1, <1>3, <2>3, <3>1 DEF ProgType, InPass
  <2>6. \A w \in Elements(todo') : batch /\ InWindow(w)
    BY <2>1, <2>4, WeightsAreTensors, <2>2 DEF InWindow
  <2>7. \A w \in Elements(todo') : batch' /\ InWindow(w)' BY <1>3, <2>6 DEF InWindow
  <2> QED BY <1>1, <1>3, <2>5, <2>7, LocalContext DEF OnePool
<1>4. CASE /\ UNCHANGED <<vars, split, enq, batch, ids>> /\ at' = "copy"
           /\ todo' = IF Kind[split] = "active" THEN Weights[split] ELSE <<>>
  <2>1. ProgType' BY <1>1, <1>4, WeightsAreTensors DEF ProgType, SplitPlaces, InPass
  <2> QED BY <1>1, <1>4, <2>1, LocalContext DEF OnePool
<1> QED BY <1>2, <1>3, <1>4 DEF Lookahead, Goto

LEMMA CopyContext == ASSUME TypeInv, Context, CopyInputs \/ Cold PROVE Context'
<1> USE DEF Context
<1>1. at \in {"copy", "cold"} /\ pc[Main] = "idle" /\ split \in 1..NSplits /\ NSplits \in Nat
  BY SplitsAssumption DEF CopyInputs, Cold, Ready, ProgType, InPass
<1>2. ASSUME VisitFirst, NEW place \in {"wait_lookup", "cold_take"},
             place = "wait_lookup" <=> at = "copy",
             NEW args, GetPool(Main, place, args), UNCHANGED pool
      PROVE  Context'
  <2>1. pc'[Main] = place /\ ProgType' /\ OnePool' BY <1>1, <1>2, VisitEnters
  <2> QED BY <1>1, <1>2, <2>1 DEF Inside, VisitFirst
<1>3. CASE at = "copy" /\ VisitFirst /\ CallWait(Main, Head(todo))
  BY <1>1, <1>2, <1>3 DEF CallWait, poolVars
<1>4. CASE at = "cold" /\ VisitFirst /\ CallCold(Main, Head(todo))
  BY <1>1, <1>2, <1>4 DEF CallCold, poolVars
<1>5. CASE /\ at = "copy" /\ at' = "nodes" /\ UNCHANGED <<vars, split, enq, batch>>
           /\ \E S \in SUBSET Chunks \ {{}} : ids' = S
           /\ todo' = IF Kind[split] = "host" THEN Weights[split] ELSE <<>>
  <2>1. ProgType' BY <1>1, <1>5, WeightsAreTensors DEF ProgType, SplitPlaces, InPass
  <2> QED BY <1>1, <1>5, <2>1, LocalContext DEF OnePool
<1>6. CASE /\ at = "cold" /\ at' = "split" /\ todo' = <<>> /\ split' = split + 1 /\ ids' = {}
           /\ UNCHANGED <<vars, enq, batch>>
  <2>1. ProgType' BY <1>1, <1>6 DEF ProgType, SplitPlaces, InPass
  <2> QED BY <1>1, <1>6, <2>1, LocalContext DEF OnePool
<1>7. CASE CopyInputs BY <1>3, <1>5, <1>7 DEF CopyInputs, Ready, Goto
<1>8. CASE Cold BY <1>4, <1>6, <1>8 DEF Cold, Ready, Goto
<1> QED BY <1>7, <1>8

LEMMA NodesContext == ASSUME TypeInv, Context, Nodes \/ Eval PROVE Context'
<1> USE DEF Context
<1>1. at \in {"nodes", "eval"} /\ pc[Main] = "idle" /\ split \in 1..NSplits
  BY SplitsAssumption DEF Nodes, Eval, Ready, ProgType, InPass
<1>2. CASE VisitFirst /\ PrefetchNode(Main, Head(todo), ids)
  <2>1. PICK cs \in Orders(ids) : CallEnqueue(Main, "node", Head(todo), cs)
    BY <1>2 DEF PrefetchNode
  <2>2. pc'[Main] = "enq_epoch" /\ call'[Main].op = "node" /\ ProgType' /\ OnePool'
    BY <1>1, <1>2, <2>1, EnqueueVisit
  <2>3. Kind[split] = "host" BY <1>1, <1>2 DEF Inside, VisitFirst
  <2> QED BY <1>1, <1>2, <2>2, <2>3 DEF Inside, VisitFirst
<1>3. CASE /\ UNCHANGED <<vars, split, enq, batch, ids>>
           /\ \/ at = "nodes" /\ at' = "eval"
                 /\ todo' = IF Kind[split] = "host" THEN Weights[split] ELSE <<>>
              \/ at = "eval" /\ at' = "cold"
                 /\ todo' = IF batch THEN Weights[split] ELSE <<>>
  <2>1. ProgType' BY <1>1, <1>3, WeightsAreTensors DEF ProgType, SplitPlaces, InPass
  <2> QED BY <1>1, <1>3, <2>1, LocalContext DEF OnePool
<1>4. CASE Nodes BY <1>2, <1>3, <1>4 DEF Nodes, Ready, Goto
<1>5. CASE Eval BY <1>2, <1>3, <1>5 DEF Eval, Ready, Goto
<1> QED BY <1>4, <1>5

\* A step inside a call.
LEMMA CallContext ==
    ASSUME LifetimeInv, Context, Continue(Main), UNCHANGED progVars PROVE Context'
<1> USE DEF Context, LifetimeInv
<1>1. ProgType' BY DEF ProgType, progVars, InPass, MoeInfos
<1>2. /\ pc \in [Clients -> ClientPlaces] /\ held \in [Clients -> Pools \cup {None}]
      /\ call \in [Clients -> Calls] /\ resume \in [Clients -> {"idle", "wait_pool", "set_start"}]
      /\ Main \in Clients
  BY MainIsClient DEF TypeInv, TypeOK, ClientType
<1>3. ~Stop(Main) /\ ~Join(Main) BY DEF Stop, Join, OnePool
<1>4. ASSUME pc[Main] \in HoldPlaces, Drop(Main, "idle"), UNCHANGED poolVars PROVE Context'
  <2>1. /\ pc'[Main] = "idle" /\ held'[Main] = None /\ resume'[Main] = "idle" /\ pool' = pool
    BY <1>2, <1>4, DropMain DEF poolVars
  <2>2. Inside' BY <2>1 DEF Inside, progVars, InWindow, MoeInfos, MoeNext
  <2> QED BY <1>1, <1>2, <1>4, <2>1, <2>2 DEF OnePool, progVars, HoldPlaces
<1>5. ASSUME NEW place, pc' = [pc EXCEPT ![Main] = place], UNCHANGED <<held, resume, pool, progVars>>,
             call'[Main].op = call[Main].op, call'[Main].w = call[Main].w,
             \/ pc[Main] = "enq_epoch" /\ place = "enq_lock"
             \/ pc[Main] \in {"wait_lookup", "wait_check"} /\ place \in {"wait_check", "wait_sleep"}
             \/ pc[Main] = "cold_take" /\ place = "cold_apply"
      PROVE  Context'
  <2>1. pc'[Main] = place BY <1>2, <1>5
  <2>2. \A w : InWindow(w)' <=> InWindow(w)
    BY <1>5 DEF progVars, InWindow, MoeInfos, MoeNext
  <2>3. UNCHANGED <<at, split, batch, todo>> BY <1>5 DEF progVars
  <2>4. Inside' BY <1>5, <2>1, <2>2, <2>3 DEF Inside
  <2> QED BY <1>1, <1>5, <2>1, <2>3, <2>4 DEF OnePool
<1>6. CASE EnqueueReadEpoch(Main)
  <2>1. pc[Main] = "enq_epoch" /\ UNCHANGED poolVars BY <1>6 DEF EnqueueReadEpoch
  <2>2. CASE Drop(Main, "idle") BY <1>4, <2>1, <2>2 DEF HoldPlaces
  <2>3. CASE /\ call' = [call EXCEPT ![Main].epoch = epoch] /\ UNCHANGED <<held, resume>>
             /\ pc' = [pc EXCEPT ![Main] = "enq_lock"]
    <3>1. call'[Main].op = call[Main].op /\ call'[Main].w = call[Main].w
      BY <1>2, <2>3 DEF Calls
    <3> QED BY <1>5, <2>1, <2>3, <3>1 DEF poolVars
  <2> QED BY <1>6, <2>2, <2>3 DEF EnqueueReadEpoch
<1>7. CASE EnqueueRefused(Main) \/ EnqueueRanges(Main)
  <2>1. pc[Main] = "enq_lock" /\ UNCHANGED poolVars BY <1>7 DEF EnqueueRefused, EnqueueRanges
  <2>2. Drop(Main, "idle") \/ Drop(Main, AfterEnqueue(Main))
    BY <1>7 DEF EnqueueRefused, EnqueueRanges
  <2>3. CASE Drop(Main, "wait_pool") /\ call[Main].op = "experts"
    <3>1. /\ pc'[Main] = "wait_pool" /\ held'[Main] = None /\ resume'[Main] = "idle" /\ pool' = pool
      BY <1>2, <2>1, <2>3, DropMain DEF poolVars, HoldPlaces
    <3>2. at = "init_residents" /\ at' = at BY <2>1, <2>3 DEF Inside, progVars, ProgType, SplitPlaces
    <3>3. Inside' BY <3>1, <3>2 DEF Inside
    <3> QED BY <1>1, <2>1, <3>1, <3>2, <3>3 DEF OnePool
  <2> QED BY <1>4, <2>1, <2>2, <2>3 DEF AfterEnqueue, HoldPlaces
<1>8. CASE WaitGetPool(Main)
  <2>1. pc[Main] = "wait_pool" /\ GetPool(Main, "wait_lookup", call[Main]) /\ UNCHANGED pool
    BY <1>8 DEF WaitGetPool, poolVars
  <2>2. at = "init_residents" /\ at' = at BY <2>1 DEF Inside, progVars, ProgType, SplitPlaces
  <2>3. pc'[Main] = "wait_lookup" /\ held'[Main] = pool /\ resume' = resume
    BY <1>2, <2>1, <2>2, EnterCall
  <2>4. Inside' BY <2>2, <2>3 DEF Inside
  <2> QED BY <1>1, <2>1, <2>2, <2>3, <2>4 DEF OnePool
<1>9. CASE WaitLookup(Main) \/ WaitCheck(Main)
  <2>1. pc[Main] \in {"wait_lookup", "wait_check"} /\ UNCHANGED poolVars
    BY <1>9 DEF WaitLookup, WaitCheck
  <2> QED BY <1>4, <1>5, <1>9, <2>1 DEF WaitLookup, WaitCheck, HoldPlaces, poolVars
<1>10. CASE ColdTake(Main) \/ ColdApply(Main)
  <2>1. pc[Main] \in {"cold_take", "cold_apply"} /\ UNCHANGED poolVars
    BY <1>10 DEF ColdTake, ColdApply
  <2>2. CASE Drop(Main, "idle") BY <1>4, <2>1, <2>2 DEF HoldPlaces
  <2>3. CASE /\ call' = [call EXCEPT ![Main].taken = tkReads[held[Main]][call[Main].w]]
             /\ pc[Main] = "cold_take" /\ pc' = [pc EXCEPT ![Main] = "cold_apply"]
             /\ UNCHANGED <<held, resume>>
    <3>1. call'[Main].op = call[Main].op /\ call'[Main].w = call[Main].w
      BY <1>2, <2>3 DEF Calls
    <3> QED BY <1>5, <2>1, <2>3, <3>1 DEF poolVars
  <2> QED BY <1>10, <2>2, <2>3 DEF ColdTake, ColdApply
<1>11. CASE SetStart(Main)
  <2>1. /\ pc[Main] = "set_start" /\ pc'[Main] = "idle" /\ pool' = npools + 1
        /\ UNCHANGED <<held, resume>>
    BY <1>2, <1>11 DEF SetStart
  <2>2. pool' \in Pools /\ pool' # None /\ at = "init_map" /\ at' = at /\ held[Main] = None
    BY <1>2, <2>1 DEF TypeInv, TypeOK, PoolType, ClientInv, Inside, OnePool, progVars,
                      ProgType, SplitPlaces, HoldPlaces
  <2>3. Inside' BY <2>1, <2>2 DEF Inside
  <2> QED BY <1>1, <2>1, <2>2, <2>3 DEF OnePool
<1> QED BY <1>3, <1>6, <1>7, <1>8, <1>9, <1>10, <1>11 DEF Continue

\* A worker only wakes the context.
LEMMA WorkerContext ==
    ASSUME TypeInv, Context, NEW p \in Pools, NEW i \in Workers, Worker(p, i), UNCHANGED progVars
    PROVE  Context'
<1> USE DEF Context
<1>1. ProgType' BY DEF ProgType, progVars, InPass, MoeInfos
<1>2. UNCHANGED <<pool, held, call, resume>> /\ (UNCHANGED pc \/ WakeWaiters(p))
  BY DEF Worker, WorkerPop, WorkerRead, WorkerDecrement, WorkerPublish, poolVars, clientVars
<1>3. pc'[Main] = pc[Main] \/ (pc[Main] = "wait_sleep" /\ pc'[Main] = "wait_check")
  BY <1>2, MainIsClient DEF WakeWaiters
<1>4. \A w : InWindow(w)' <=> InWindow(w) BY DEF progVars, InWindow, MoeInfos, MoeNext
<1>5. UNCHANGED <<at, split, batch, todo>> BY DEF progVars
<1>6. Inside' BY <1>2, <1>3, <1>4, <1>5 DEF Inside
<1> QED BY <1>1, <1>2, <1>3, <1>5, <1>6 DEF OnePool

LEMMA NextContext == LifetimeInv /\ Context /\ [SplitsNext]_allVars => Context'
<1> SUFFICES ASSUME LifetimeInv, Context, [SplitsNext]_allVars PROVE Context' OBVIOUS
<1> USE DEF LifetimeInv
<1>1. CASE UNCHANGED allVars
  BY <1>1 DEF allVars, vars, clientVars, poolVars, progVars, Context, ProgType, Inside, OnePool,
              InPass, InWindow, MoeInfos, MoeNext
<1>2. CASE SplitsNext
  BY <1>2, InitContext, PassContext, LookaheadContext, CopyContext, NodesContext, CallContext,
     WorkerContext
  DEF SplitsNext, Program
<1> QED BY <1>1, <1>2

LEMMA InitContextHolds == SplitsInit => TicketInv /\ Context
<1> SUFFICES ASSUME SplitsInit PROVE TicketInv /\ Context OBVIOUS
<1>1. Init /\ at = "init" /\ split = 0 /\ enq = 0 /\ batch = FALSE /\ ids = {} /\ todo = <<>>
  BY DEF SplitsInit
<1>2. /\ pc[Main] = "idle" /\ held[Main] = None /\ resume[Main] = "idle" /\ pool = None
  BY <1>1, MainIsClient DEF Init
<1>3. ProgType
  <2>1. <<>> \in Seq(Tensors) OBVIOUS
  <2>2. 0 \in 0..NSplits + 1 /\ 0 \in 0..Cardinality(MoeInfos) BY MoeCount, SplitsAssumption
  <2> QED BY <1>1, <2>1, <2>2 DEF ProgType, SplitPlaces, InPass
<1> QED BY <1>1, <1>2, <1>3, InitTicketInv DEF Context, Inside, OnePool
-----------------------------------------------------------------------------
\* One step of the engine adds jobs to a pool by an enqueue only.
LEMMA OwedStep ==
    ASSUME TypeInv, [Next]_vars, NEW p \in Pools
    PROVE  \/ Owed(p)' \subseteq Owed(p) /\ tkEpoch'[p] = tkEpoch[p] /\ gen'[p] = gen[p]
           \/ \E c \in Clients : EnqueueRanges(c) /\ p = held[c]
<1> USE DEF TypeInv, TypeOK
<1>1. /\ wpc \in [Pools -> [Workers -> WorkerPlaces]] /\ queue \in [Pools -> Seq(Jobs)]
      /\ wjob \in [Pools -> [Workers -> Jobs \cup {None}]]
      /\ tkEpoch \in [Pools -> [Tensors -> Nat]] /\ gen \in [Pools -> [Tensors -> Nat]]
  BY DEF WorkerType, TicketType, EngineType
<1>2. ASSUME queue'[p] = queue[p], wjob'[p] = wjob[p], Busy(p)' \subseteq Busy(p)
      PROVE  Owed(p)' \subseteq Owed(p)
  BY <1>2 DEF Owed, InFlight, JobsIn
<1>3. ASSUME UNCHANGED <<queue, wjob, wpc>> PROVE Owed(p)' \subseteq Owed(p)
  BY <1>2, <1>3 DEF Busy
<1>4. ASSUME NEW c \in Clients, EnqueueRanges(c), held[c] # p
      PROVE  Owed(p)' \subseteq Owed(p) /\ tkEpoch'[p] = tkEpoch[p] /\ gen'[p] = gen[p]
  <2>1. PICK h \in Pools : h = held[c] BY <1>4 DEF EnqueueRanges, ClientInv, HoldPlaces
  <2>2. wpc'[p] = wpc[p] BY <1>1, <1>4, <2>1 DEF EnqueueRanges, WakeWorkers
  <2>3. queue'[p] = queue[p] /\ wjob' = wjob /\ tkEpoch'[p] = tkEpoch[p] /\ gen'[p] = gen[p]
    BY <1>1, <1>4, <2>1 DEF EnqueueRanges
  <2> QED BY <1>2, <2>2, <2>3 DEF Busy
<1>5. ASSUME NEW c \in Clients, Stop(c)
      PROVE  Owed(p)' \subseteq Owed(p) /\ tkEpoch' = tkEpoch /\ gen' = gen
  <2>1. PICK h \in Pools : h = held[c] BY <1>5 DEF Stop, ClientInv, HoldPlaces
  <2>2. WakeWorkers(h) /\ UNCHANGED <<wjob, tkEpoch, gen>> /\ queue' = [queue EXCEPT ![h] = <<>>]
    BY <1>5, <2>1 DEF Stop, engineVars
  <2>3. Busy(p)' \subseteq Busy(p) BY <1>1, <2>2 DEF Busy, WakeWorkers
  <2>4. queue'[p] = queue[p] \/ queue'[p] = <<>> BY <1>1, <2>2
  <2>5. JobsIn(<<>>) = {} BY DEF JobsIn
  <2> QED BY <2>2, <2>3, <2>4, <2>5 DEF Owed, InFlight, JobsIn
<1>6. ASSUME NEW c \in Clients, SetStart(c)
      PROVE  Owed(p)' \subseteq Owed(p) /\ tkEpoch' = tkEpoch /\ gen' = gen
  <2>1. PICK h \in Pools : h = npools + 1 BY <1>6 DEF SetStart, ClientInv, PoolType
  <2>2. /\ UNCHANGED <<queue, wjob, tkEpoch, gen>>
        /\ wpc' = [wpc EXCEPT ![h] = [i \in Workers |-> IF i <= call[c].n THEN "lock" ELSE "none"]]
    BY <1>6, <2>1 DEF SetStart, engineVars, ticketVars
  <2>3. Busy(p)' \subseteq Busy(p) BY <1>1, <2>2 DEF Busy
  <2> QED BY <1>2, <2>2, <2>3
<1>7. ASSUME NEW q \in Pools, NEW i \in Workers, Worker(q, i)
      PROVE  Owed(p)' \subseteq Owed(p) /\ tkEpoch' = tkEpoch /\ gen' = gen
  <2>1. UNCHANGED <<tkEpoch, gen>>
    BY <1>7 DEF Worker, WorkerPop, WorkerRead, WorkerDecrement, WorkerPublish, engineVars, ticketVars
  <2>2. ASSUME NEW place \in {"none", "asleep", "publish", "lock"}, WorkerAt(q, i, place),
               queue' = queue, \A k \in Workers : <<q, i>> # <<p, k>> => wjob'[p][k] = wjob[p][k]
        PROVE  Owed(p)' \subseteq Owed(p)
    <3>1. \A k \in Workers : wpc'[p][k] = IF <<q, i>> = <<p, k>> THEN place ELSE wpc[p][k]
      BY <1>1, <2>2 DEF WorkerAt
    <3>2. Busy(p)' \subseteq Busy(p) /\ \A k \in Busy(p)' : wjob'[p][k] = wjob[p][k]
      BY <2>2, <3>1 DEF Busy
    <3> QED BY <2>2, <3>2 DEF Owed, InFlight, JobsIn
  <2>3. CASE WorkerPop(q, i) /\ queue' # queue
    <3>1. /\ queue[q] # <<>> /\ queue' = [queue EXCEPT ![q] = Tail(@)]
          /\ wjob' = [wjob EXCEPT ![q][i] = Head(queue[q])] /\ WorkerAt(q, i, "read")
      BY <2>3 DEF WorkerPop
    <3>2. CASE p # q
      <4>1. queue'[p] = queue[p] /\ wjob'[p] = wjob[p] /\ wpc'[p] = wpc[p]
        BY <1>1, <3>1, <3>2 DEF WorkerAt
      <4>2. Busy(p)' = Busy(p) BY <4>1 DEF Busy
      <4> QED BY <1>2, <2>1, <4>1, <4>2
    <3>3. CASE p = q
      <4>1. \A k \in Workers : wjob'[p][k] = IF k = i THEN Head(queue[p]) ELSE wjob[p][k]
        BY <1>1, <3>1, <3>3
      <4>2. \A k \in Workers : wpc'[p][k] = IF k = i THEN "read" ELSE wpc[p][k]
        BY <1>1, <3>1, <3>3 DEF WorkerAt
      <4>3. InFlight(p)' \subseteq InFlight(p) \cup {Head(queue[p])}
        BY <4>1, <4>2 DEF InFlight, Busy
      <4>4. queue'[p] = Tail(queue[p]) BY <1>1, <3>1, <3>3
      <4>5. \A s : JobsIn(s) = Elements(s) BY DEF JobsIn, Elements
      <4>6. JobsIn(queue[p]) = {Head(queue[p])} \cup JobsIn(Tail(queue[p]))
        BY <1>1, <3>1, <3>3, <4>5, HeadAndTail
      <4>7. JobsIn(queue[p])' = JobsIn(Tail(queue[p])) BY <4>4 DEF JobsIn
      <4> QED BY <2>1, <4>3, <4>6, <4>7 DEF Owed
    <3> QED BY <3>2, <3>3
  <2>4. CASE WorkerPop(q, i) /\ queue' = queue
    <3>1. queue[q] # <<>> => Tail(queue[q]) # queue[q]
      <4>1. queue[q] # <<>> => Len(Tail(queue[q])) # Len(queue[q]) BY <1>1
      <4> QED BY <4>1
    <3>2. wjob' = wjob /\ (WorkerAt(q, i, "none") \/ WorkerAt(q, i, "asleep"))
      BY <1>1, <2>4, <3>1 DEF WorkerPop
    <3> QED BY <2>1, <2>2, <2>4, <3>2
  <2>5. CASE WorkerRead(q, i)
    <3>1. wpc[q][i] = "read" /\ WorkerAt(q, i, "dec") /\ queue' = queue /\ wjob' = wjob
      BY <2>5 DEF WorkerRead, ticketVars
    <3>2. Busy(p)' \subseteq Busy(p) BY <1>1, <3>1 DEF Busy, WorkerAt
    <3> QED BY <1>2, <2>1, <3>1, <3>2
  <2>6. CASE WorkerDecrement(q, i)
    <3>1. WorkerAt(q, i, "publish") /\ queue' = queue /\ wjob' = wjob BY <2>6 DEF WorkerDecrement
    <3> QED BY <2>1, <2>2, <3>1
  <2>7. CASE WorkerPublish(q, i)
    <3>1. /\ WorkerAt(q, i, "lock") /\ queue' = queue
          /\ wjob' = [wjob EXCEPT ![q][i] = None]
      BY <2>7 DEF WorkerPublish
    <3>2. \A k \in Workers : <<q, i>> # <<p, k>> => wjob'[p][k] = wjob[p][k] BY <1>1, <3>1
    <3> QED BY <2>1, <2>2, <3>1, <3>2
  <2> QED BY <1>7, <2>1, <2>3, <2>4, <2>5, <2>6, <2>7 DEF Worker
<1>8. ASSUME NEW c \in Clients,
             Setup(c) \/ (\E w \in Tensors : TensorCall(c, w)) \/ EnqueueReadEpoch(c)
             \/ EnqueueRefused(c) \/ WaitGetPool(c) \/ WaitLookup(c) \/ WaitCheck(c)
             \/ ColdTake(c) \/ ColdApply(c) \/ Join(c) \/ UNCHANGED vars
      PROVE  UNCHANGED <<queue, wjob, wpc, tkEpoch, gen>>
  <2>1. CASE Setup(c)
    BY <2>1 DEF Setup, NewEpoch, RegisterMapping, UnregisterMapping, SetNThreads, engineVars,
                ticketVars, workerVars
  <2>2. CASE \E w \in Tensors : TensorCall(c, w)
    BY <2>2 DEF TensorCall, PrefetchTensor, PrefetchNode, PrefetchExperts, CallEnqueue, CallWait,
                CallCold, engineVars, ticketVars, workerVars
  <2> QED
    BY <1>8, <2>1, <2>2 DEF EnqueueReadEpoch, EnqueueRefused, WaitGetPool, WaitLookup, WaitCheck,
       ColdTake, ColdApply, Join, engineVars, ticketVars, workerVars, vars
<1> QED
  <2>1. ASSUME NEW c \in Clients, Continue(c)
        PROVE  \/ Owed(p)' \subseteq Owed(p) /\ tkEpoch'[p] = tkEpoch[p] /\ gen'[p] = gen[p]
               \/ EnqueueRanges(c) /\ p = held[c]
    BY <1>3, <1>4, <1>5, <1>6, <1>8, <2>1 DEF Continue
  <2> QED BY <1>3, <1>7, <1>8, <2>1, MainIsClient DEF Next

\* What an enqueue adds to its pool.
LEMMA EnqueueOwed ==
    ASSUME TypeInv, EnqueueRanges(Main), NEW p, p = held[Main], NEW w, w = call[Main].w
    PROVE  /\ p \in Pools /\ w \in Tensors
           /\ \A j \in Owed(p)' : j \notin Owed(p) =>
                 /\ j.w = w /\ j.g = gen[p][w] + 1 /\ j.e = call[Main].epoch
                 /\ j.urgent = (call[Main].op = "node")
           /\ tkEpoch' = [tkEpoch EXCEPT ![p][w] = call[Main].epoch]
           /\ gen' = [gen EXCEPT ![p][w] = @ + 1]
           /\ tkEpoch[p][w] # call[Main].epoch
<1> USE DEF TypeInv, TypeOK
<1>1. p \in Pools /\ w \in Tensors
  BY MainIsClient DEF EnqueueRanges, ClientInv, HoldPlaces, TensorPlaces
<1> DEFINE js == NewJobs(Main, gen[p][w] + 1)
           urgent == (call[Main].op = "node")
<1>2. /\ queue' = [queue EXCEPT ![p] = Insert(js, @, urgent)]
      /\ tkEpoch' = [tkEpoch EXCEPT ![p][w] = call[Main].epoch]
      /\ gen' = [gen EXCEPT ![p][w] = @ + 1] /\ wjob' = wjob
      /\ WakeWorkers(p) \/ UNCHANGED wpc
      /\ tkEpoch[p][w] # call[Main].epoch
  BY <1>1 DEF EnqueueRanges, AlreadyIssued
<1>3. gen[p][w] + 1 \in Nat /\ queue \in [Pools -> Seq(Jobs)]
  <2>1. gen \in [Pools -> [Tensors -> Nat]] BY DEF EngineType
  <2>2. gen[p][w] \in Nat BY <1>1, <2>1
  <2> QED BY <2>2 DEF TicketType
<1>4. /\ js \in Seq(Jobs) /\ Len(js) = Len(call[Main].cs)
      /\ \A k \in 1..Len(call[Main].cs) :
           js[k] = [w |-> w, c |-> call[Main].cs[k], g |-> gen[p][w] + 1,
                    e |-> call[Main].epoch, urgent |-> urgent]
  BY <1>1, <1>3, MainIsClient, NewJobsType
<1>5. \A j \in JobsIn(js) :
         /\ j.w = w /\ j.g = gen[p][w] + 1 /\ j.e = call[Main].epoch
         /\ j.urgent = (call[Main].op = "node")
  <2> HIDE DEF js, urgent
  <2>1. ASSUME NEW k \in 1..Len(js)
        PROVE  /\ js[k].w = w /\ js[k].g = gen[p][w] + 1 /\ js[k].e = call[Main].epoch
               /\ js[k].urgent = urgent
    <3>1. js[k] = [w |-> w, c |-> call[Main].cs[k], g |-> gen[p][w] + 1,
                   e |-> call[Main].epoch, urgent |-> urgent]
      BY <1>4
    <3> QED BY <3>1
  <2> QED BY <2>1 DEF JobsIn, urgent
<1> HIDE DEF js
<1>6. InFlight(p)' = InFlight(p)
  <2>1. Busy(p)' = Busy(p) BY <1>1, <1>2, WakeBusy
  <2> QED BY <1>2, <2>1 DEF InFlight
<1>7. JobsIn(queue[p])' \subseteq JobsIn(js) \cup JobsIn(queue[p])
  <2>1. queue'[p] = js \o queue[p] \/ queue'[p] = queue[p] \o js BY <1>1, <1>2, <1>3 DEF Insert
  <2>2. ASSUME NEW s \in Seq(Jobs), NEW t \in Seq(Jobs)
        PROVE  JobsIn(s \o t) \subseteq JobsIn(s) \cup JobsIn(t)
    <3> SUFFICES ASSUME NEW k \in 1..Len(s \o t)
                 PROVE  (s \o t)[k] \in JobsIn(s) \cup JobsIn(t)
      BY DEF JobsIn
    <3>1. Len(s \o t) = Len(s) + Len(t) /\ Len(s) \in Nat /\ Len(t) \in Nat OBVIOUS
    <3>2. CASE k <= Len(s)
      <4>1. (s \o t)[k] = s[k] BY <3>2
      <4> QED BY <3>1, <3>2, <4>1 DEF JobsIn
    <3>3. CASE k > Len(s)
      <4>1. (s \o t)[k] = t[k - Len(s)] /\ k - Len(s) \in 1..Len(t) BY <3>1, <3>3
      <4> QED BY <4>1 DEF JobsIn
    <3> QED BY <3>1, <3>2, <3>3
  <2>3. JobsIn(queue'[p]) \subseteq JobsIn(js) \cup JobsIn(queue[p]) BY <1>1, <1>3, <1>4, <2>1, <2>2
  <2> QED BY <2>3 DEF JobsIn
<1>8. \A j \in Owed(p)' : j \notin Owed(p) => j \in JobsIn(js) BY <1>6, <1>7 DEF Owed
<1>9. \A j \in Owed(p)' : j \notin Owed(p) =>
         /\ j.w = w /\ j.g = gen[p][w] + 1 /\ j.e = call[Main].epoch
         /\ j.urgent = (call[Main].op = "node")
  BY <1>5, <1>8
<1> QED BY <1>1, <1>2, <1>9
-----------------------------------------------------------------------------
\* The epoch a call has read stays the engine's until its jobs are queued: only
\* the context makes new epochs, and not inside a call.
LEMMA EpochStep ==
    ASSUME TypeInv, Context, SplitsNext
    PROVE  /\ epoch' = epoch \/ (PassBegin /\ epoch' = epoch + 1)
           /\ pc'[Main] = "enq_lock" =>
                 \/ pc[Main] = "enq_lock" /\ call'[Main].epoch = call[Main].epoch
                    /\ epoch' = epoch
                 \/ call'[Main].epoch = epoch /\ epoch' = epoch
<1> USE DEF Context, TypeInv, TypeOK, engineVars
<1>1. /\ pc \in [Clients -> ClientPlaces] /\ call \in [Clients -> Calls] /\ Main \in Clients
  BY MainIsClient DEF ClientType
<1>2. ASSUME NEW place, NEW args, GetPool(Main, place, args), place # "enq_lock"
      PROVE  pc'[Main] # "enq_lock"
  BY <1>1, <1>2 DEF GetPool
<1>3. CASE /\ VisitFirst
           /\ \/ PrefetchExperts(Main, Head(todo), Residents) \/ PrefetchTensor(Main, Head(todo))
              \/ PrefetchNode(Main, Head(todo), ids)
              \/ CallWait(Main, Head(todo)) \/ CallCold(Main, Head(todo))
  BY <1>2, <1>3 DEF PrefetchExperts, PrefetchTensor, PrefetchNode, CallEnqueue, CallWait, CallCold
<1>4. CASE pc[Main] = "idle" /\ UNCHANGED vars BY <1>4 DEF vars, clientVars
<1>5. CASE InitPool
  <2>1. pc'[Main] \in {"stop", "set_start", "idle"} /\ epoch' = epoch
    BY <1>1, <1>5 DEF InitPool, SetNThreads
  <2> QED BY <2>1
<1>6. CASE InitMapping \/ PassBegin
  BY <1>6 DEF InitMapping, RegisterMapping, PassBegin, NewEpoch, Ready, clientVars
<1>7. CASE Program
  BY <1>3, <1>4, <1>5, <1>6, <1>7
  DEF Program, InitResidents, SplitBegin, Lookahead, CopyInputs, Nodes, Eval, Cold, PassEnd, Ready
<1>8. CASE EvalFails BY <1>4, <1>8 DEF EvalFails, Ready
<1>9. CASE Continue(Main)
  <2>1. epoch' = epoch
    BY <1>9 DEF Continue, EnqueueReadEpoch, EnqueueRefused, EnqueueRanges, WaitGetPool,
                WaitLookup, WaitCheck, ColdTake, ColdApply, SetStart, Stop, Join
  <2>2. ASSUME pc[Main] \in HoldPlaces, NEW next \in {"idle", "wait_pool"}, Drop(Main, next)
        PROVE  pc'[Main] # "enq_lock"
    BY <1>1, <2>2 DEF Drop
  <2>3. CASE EnqueueReadEpoch(Main)
    BY <1>1, <2>1, <2>2, <2>3 DEF EnqueueReadEpoch, HoldPlaces, Calls
  <2>4. CASE EnqueueRefused(Main) \/ EnqueueRanges(Main)
    BY <2>1, <2>2, <2>4 DEF EnqueueRefused, EnqueueRanges, HoldPlaces, AfterEnqueue
  <2>5. CASE WaitGetPool(Main) BY <1>2, <2>1, <2>5 DEF WaitGetPool
  <2>6. CASE WaitLookup(Main) \/ WaitCheck(Main)
    BY <1>1, <2>1, <2>2, <2>6 DEF WaitLookup, WaitCheck, HoldPlaces
  <2>7. CASE ColdTake(Main) \/ ColdApply(Main)
    BY <1>1, <2>1, <2>2, <2>7 DEF ColdTake, ColdApply, HoldPlaces
  <2>8. CASE SetStart(Main) BY <1>1, <2>1, <2>8 DEF SetStart
  <2>9. ~Stop(Main) /\ ~Join(Main) BY DEF Stop, Join, OnePool
  <2> QED BY <1>9, <2>3, <2>4, <2>5, <2>6, <2>7, <2>8, <2>9 DEF Continue
<1>10. ASSUME NEW p \in Pools, NEW i \in Workers, Worker(p, i)
       PROVE  /\ epoch' = epoch /\ call' = call
              /\ pc'[Main] = "enq_lock" => pc[Main] = "enq_lock"
  <2>1. UNCHANGED <<epoch, call>> /\ (UNCHANGED pc \/ WakeWaiters(p))
    BY <1>10 DEF Worker, WorkerPop, WorkerRead, WorkerDecrement, WorkerPublish, clientVars
  <2> QED BY <1>1, <2>1 DEF WakeWaiters
<1> QED BY <1>6, <1>7, <1>8, <1>9, <1>10 DEF SplitsNext

JobsOwed == \A p \in Pools : Owed(p) \subseteq Jobs

LEMMA OwedAreJobs == TypeInv => JobsOwed
BY OwedFinite DEF Owed, JobsOwed

LEMMA OwedAreJobsNext == TypeInv' => JobsOwed'
BY OwedAreJobs, PTL

\* The newest jobs of a tensor come from the last enqueue, older ones from one
\* enqueue per pass.
LEMMA NextAges ==
    ASSUME TicketInv, Context, Ages, OncePerPass, SplitsNext
    PROVE  Ages' /\ OncePerPass'
<1> USE DEF TicketInv, LifetimeInv, TypeInv, TypeOK
<1>1. [Next]_vars BY SplitsStepsEngine
<1>2. /\ epoch \in Nat /\ epoch' \in Nat /\ epoch <= epoch'
      /\ pc'[Main] = "enq_lock" => call'[Main].epoch = epoch'
  BY EpochStep DEF EngineType, Ages
<1>3. /\ tkEpoch \in [Pools -> [Tensors -> Nat]] /\ gen \in [Pools -> [Tensors -> Nat]]
      /\ tkEpoch' \in [Pools -> [Tensors -> Nat]]
  <2>1. TicketInv' BY <1>1, NextTicketInv
  <2> QED BY <2>1 DEF TicketType, EngineType
<1>4. /\ \A p \in Pools : \A j \in Owed(p) : j.w \in Tensors /\ j.g \in Nat /\ j.e \in Nat
      /\ \A p \in Pools : \A j \in Owed(p)' : j.w \in Tensors /\ j.g \in Nat /\ j.e \in Nat
  <2>1. TypeInv' BY <1>1, NextTypeInv
  <2>2. \A p \in Pools : Owed(p)' \subseteq Jobs BY <2>1, OwedAreJobsNext DEF JobsOwed
  <2> QED BY <2>2, OwedAreJobs DEF Jobs, JobsOwed
<1>5. ASSUME NEW p \in Pools, Owed(p)' \subseteq Owed(p), tkEpoch'[p] = tkEpoch[p], gen'[p] = gen[p]
      PROVE  /\ \A w \in Tensors : tkEpoch'[p][w] <= epoch'
             /\ \A j \in Owed(p)' : /\ j.e <= tkEpoch'[p][j.w]
                                    /\ j.e = tkEpoch'[p][j.w] => j.g = gen'[p][j.w]
             /\ \A j, k \in Owed(p)' : j.w = k.w /\ j.e = k.e => j.g = k.g
  <2>1. \A w \in Tensors : tkEpoch'[p][w] <= epoch' BY <1>2, <1>3, <1>5 DEF Ages
  <2>2. \A j, k \in Owed(p) : j.w = k.w /\ j.e = k.e => j.g = k.g
    BY <1>4 DEF OncePerPass, Outstanding, Owed
  <2> QED BY <1>4, <1>5, <2>1, <2>2 DEF Ages
<1>6. ASSUME NEW p \in Pools, EnqueueRanges(Main), p = held[Main]
      PROVE  /\ \A w \in Tensors : tkEpoch'[p][w] <= epoch'
             /\ \A j \in Owed(p)' : /\ j.e <= tkEpoch'[p][j.w]
                                    /\ j.e = tkEpoch'[p][j.w] => j.g = gen'[p][j.w]
             /\ \A j, k \in Owed(p)' : j.w = k.w /\ j.e = k.e => j.g = k.g
  <2> DEFINE w == call[Main].w
             New(j) == j.w = w /\ j.g = gen[p][w] + 1 /\ j.e = epoch
  <2>1. pc[Main] = "enq_lock" /\ call[Main].epoch = epoch BY <1>6 DEF EnqueueRanges, Ages
  <2>2. /\ w \in Tensors /\ \A j \in Owed(p)' : j \notin Owed(p) => New(j)
        /\ tkEpoch' = [tkEpoch EXCEPT ![p][w] = epoch]
        /\ gen' = [gen EXCEPT ![p][w] = @ + 1]
        /\ tkEpoch[p][w] # epoch
    BY <1>6, <2>1, EnqueueOwed
  <2>3. \A v \in Tensors : /\ tkEpoch'[p][v] = IF v = w THEN epoch ELSE tkEpoch[p][v]
                           /\ gen'[p][v] = IF v = w THEN gen[p][w] + 1 ELSE gen[p][v]
    BY <1>3, <2>2
  <2>4. /\ tkEpoch[p][w] < epoch /\ tkEpoch[p][w] \in Nat
        /\ \A j \in Owed(p) : j.w = w => j.e < epoch
    <3>1. tkEpoch[p][w] < epoch /\ tkEpoch[p][w] \in Nat BY <1>2, <1>3, <2>2 DEF Ages
    <3> QED BY <1>2, <1>4, <3>1 DEF Ages
  <2> HIDE DEF w
  <2>5. ASSUME NEW v \in Tensors PROVE tkEpoch'[p][v] <= epoch'
    <3>1. tkEpoch[p][v] <= epoch /\ tkEpoch[p][v] \in Nat BY <1>3 DEF Ages
    <3> QED BY <1>2, <2>3, <3>1
  <2>6. \A j \in Owed(p)' : /\ j.e <= tkEpoch'[p][j.w]
                            /\ j.e = tkEpoch'[p][j.w] => j.g = gen'[p][j.w]
    <3> SUFFICES ASSUME NEW j \in Owed(p)'
                 PROVE  /\ j.e <= tkEpoch'[p][j.w]
                        /\ j.e = tkEpoch'[p][j.w] => j.g = gen'[p][j.w]
      OBVIOUS
    <3>1. CASE j \notin Owed(p) BY <1>2, <2>2, <2>3, <3>1
    <3>2. CASE j \in Owed(p) /\ j.w = w BY <1>2, <1>4, <2>3, <2>4, <3>2
    <3>3. CASE j \in Owed(p) /\ j.w # w BY <1>4, <2>3, <3>3 DEF Ages
    <3> QED BY <3>1, <3>2, <3>3
  <2>7. \A j, k \in Owed(p) : j.w = k.w /\ j.e = k.e => j.g = k.g
    BY <1>4 DEF OncePerPass, Outstanding, Owed
  <2>8. \A j, k \in Owed(p)' : j.w = k.w /\ j.e = k.e => j.g = k.g
    BY <1>2, <1>4, <2>2, <2>4, <2>7
  <2> QED BY <2>5, <2>6, <2>8
<1>7. ASSUME NEW p \in Pools
      PROVE  /\ \A w \in Tensors : tkEpoch'[p][w] <= epoch'
             /\ \A j \in Owed(p)' : /\ j.e <= tkEpoch'[p][j.w]
                                    /\ j.e = tkEpoch'[p][j.w] => j.g = gen'[p][j.w]
             /\ \A j, k \in Owed(p)' : j.w = k.w /\ j.e = k.e => j.g = k.g
  BY <1>1, <1>5, <1>6, OwedStep, MainIsClient
<1>8. Ages' BY <1>2, <1>7 DEF Ages
<1>9. OncePerPass' BY <1>7 DEF OncePerPass, Outstanding, Owed
<1> QED BY <1>8, <1>9

\* The window only moves on within a pass.
LEMMA WindowMoves ==
    ASSUME Context, InPass, split' \in {split, split + 1}, NEW w, InWindow(w)
    PROVE  InWindow(w)'
<1>1. split \in Nat /\ NSplits \in Nat /\ Ahead \in Nat
  BY SplitsAssumption DEF Context, ProgType, InPass
<1>2. MoeInfos \in SUBSET (1..NSplits) /\ IsFiniteSet(1..NSplits)
  <2>1. MoeInfos \in SUBSET (1..NSplits) BY DEF MoeInfos
  <2> QED BY <1>1, <2>1, FS_Interval
<1>3. IsFiniteSet(MoeInfos) BY <1>2, FS_Subset
<1>4. ASSUME split' = split + 1 PROVE MoeNext(split) <= MoeNext(split')
  <2> DEFINE Before(i) == {s \in MoeInfos : s < i}
  <2>1. Before(split) \in SUBSET Before(split')
    <3>1. \A s \in MoeInfos : s \in Int BY <1>1, <1>2
    <3> QED BY <1>1, <1>4, <3>1
  <2>2. IsFiniteSet(Before(split')) BY <1>3, FS_Subset
  <2>3. Cardinality(Before(split)) <= Cardinality(Before(split')) BY <2>1, <2>2, FS_Subset
  <2> QED BY <2>3 DEF MoeNext
<1>5. split' \in Nat BY <1>1
<1>6. MoeNext(split) \in Nat /\ MoeNext(split') \in Nat /\ MoeNext(split) <= MoeNext(split')
  BY <1>1, <1>4, <1>5, WindowBounds
<1>7. PICK s \in MoeInfos : MoeNext(s) < MoeNext(split) + Ahead /\ w \in Elements(Weights[s])
  BY DEF InWindow
<1>8. MoeNext(s) \in Nat BY <1>2, <1>7, WindowBounds
<1>9. MoeNext(s) < MoeNext(split') + Ahead BY <1>1, <1>6, <1>7, <1>8
<1> QED BY <1>7, <1>9 DEF InWindow, MoeInfos, MoeNext

\* Where a step leaves the context, of a pass it goes on with.
LEMMA PassStep ==
    ASSUME Context, SplitsNext, InPass', ~PassBegin
    PROVE  /\ InPass /\ batch' = batch /\ split' \in {split, split + 1}
           /\ ~UNCHANGED split => at = "cold" /\ at' = "split"
<1> USE DEF Context
<1>1. ~EvalFails /\ ~PassEnd /\ ~InitPool /\ ~InitMapping
  BY DEF EvalFails, PassEnd, InitPool, InitMapping, Goto, InPass
<1>2. CASE InitResidents BY <1>2 DEF InitResidents, Ready, Goto, VisitFirst, InPass
<1>3. CASE SplitBegin \/ Lookahead \/ CopyInputs \/ Nodes \/ Eval
  BY <1>3 DEF SplitBegin, Lookahead, CopyInputs, Nodes, Eval, Ready, Goto, VisitFirst, InPass
<1>4. CASE Cold BY <1>4 DEF Cold, Ready, Goto, VisitFirst, InPass
<1>5. CASE UNCHANGED progVars BY <1>5 DEF progVars, InPass
<1> QED BY <1>1, <1>2, <1>3, <1>4, <1>5 DEF SplitsNext, Program

LEMMA NextWindowed ==
    ASSUME TicketInv, Context, Ages, Windowed, SplitsNext PROVE Windowed'
<1> SUFFICES ASSUME InPass', NEW p \in Pools, NEW j \in Owed(p)', j.e = epoch', ~j.urgent
             PROVE  batch' /\ InWindow(j.w)'
  BY DEF Windowed
<1>1. TypeInv /\ [Next]_vars BY SplitsStepsEngine DEF TicketInv, LifetimeInv
<1>2. \/ Owed(p)' \subseteq Owed(p)
      \/ EnqueueRanges(Main) /\ p = held[Main]
  BY <1>1, OwedStep, MainIsClient
<1>3. \/ j \in Owed(p)
      \/ /\ pc[Main] = "enq_lock" /\ call[Main].op # "node" /\ j.w = call[Main].w
         /\ EnqueueRanges(Main)
  <2>1. CASE Owed(p)' \subseteq Owed(p) BY <2>1
  <2>2. CASE EnqueueRanges(Main) /\ p = held[Main] /\ j \notin Owed(p)
    <3>1. j.w = call[Main].w /\ j.urgent = (call[Main].op = "node")
      BY <1>1, <2>2, EnqueueOwed
    <3> QED BY <2>2, <3>1 DEF EnqueueRanges
  <2> QED BY <1>2, <2>1, <2>2
<1>4. CASE j \in Owed(p) /\ PassBegin
  <2>1. epoch \in Nat /\ epoch' = epoch + 1
    BY <1>1, <1>4 DEF PassBegin, NewEpoch, TypeInv, TypeOK, EngineType
  <2>2. j.w \in Tensors /\ j.e \in Nat BY <1>1, <1>4, OwedAreJobs DEF Jobs, JobsOwed
  <2>3. tkEpoch[p][j.w] \in Nat /\ tkEpoch[p][j.w] <= epoch /\ j.e <= tkEpoch[p][j.w]
    BY <1>1, <1>4, <2>2 DEF Ages, TypeInv, TypeOK, TicketType
  <2> QED BY <2>1, <2>2, <2>3
<1>5. CASE ~PassBegin
  <2>1. InPass /\ batch' = batch /\ split' \in {split, split + 1} BY <1>5, PassStep
  <2>2. epoch' = epoch BY <1>1, <1>5, EpochStep
  <2>3. CASE j \in Owed(p) BY <2>1, <2>2, <2>3, WindowMoves DEF Windowed
  <2>4. CASE /\ pc[Main] = "enq_lock" /\ call[Main].op # "node" /\ j.w = call[Main].w
    <3>1. batch /\ InWindow(j.w) BY <2>1, <2>4 DEF Context, Inside, InPass
    <3> QED BY <2>1, <3>1, WindowMoves
  <2> QED BY <1>3, <2>3, <2>4
<1>6. PassBegin => pc[Main] = "idle" BY DEF PassBegin, Ready
<1> QED BY <1>3, <1>4, <1>5, <1>6

\* A step other than an enqueue leaves fewer jobs of a tensor, never more.
LEMMA FewerOutstanding ==
    ASSUME TypeInv, [Next]_vars, pool \in Pools, pool' = pool, ~EnqueueRanges(Main),
           NEW w, Outstanding(pool, w) = {}
    PROVE  Outstanding(pool, w)' = {}
<1>1. Owed(pool)' \subseteq Owed(pool) BY OwedStep, MainIsClient
<1>2. Outstanding(pool, w) = {j \in Owed(pool) : j.w = w} BY DEF Outstanding, Owed
<1>3. Outstanding(pool, w)' = {j \in Owed(pool)' : j.w = w} BY DEF Outstanding, Owed
<1> QED BY <1>1, <1>2, <1>3

LEMMA NextWaited ==
    ASSUME TicketInv, Context, Waited, SplitsNext PROVE Waited'
<1> USE DEF Context
<1> SUFFICES ASSUME at' \in {"copy", "nodes", "eval"}, Kind[split'] = "active",
                    NEW w \in Elements(Weights[split'])
             PROVE  \/ at' = "copy" /\ w \in Elements(todo')
                    \/ at' = "copy" /\ pc'[Main] # "idle" /\ call'[Main].w = w
                    \/ Outstanding(pool, w)' = {}
  BY DEF Waited
<1> DEFINE Streamed == Outstanding(pool, w) = {}
<1>1. TypeInv /\ LifetimeInv /\ [Next]_vars BY SplitsStepsEngine DEF TicketInv, LifetimeInv
<1>2. ~PassBegin /\ InPass' BY DEF PassBegin, Goto, InPass
<1>3. InPass /\ split' = split BY <1>2, PassStep
<1>4. Context' BY <1>1, <1>2, NextContext DEF allVars
<1>5. pool \in Pools /\ pc[Main] # "set_start"
  BY <1>1, <1>3 DEF Inside, OnePool, InPass, TypeInv, TypeOK, PoolType
<1>6. ASSUME pool' = pool, ~EnqueueRanges(Main), Streamed
      PROVE  Outstanding(pool, w)' = {}
  BY <1>1, <1>5, <1>6, FewerOutstanding
<1>7. ~InitPool /\ ~InitMapping /\ ~InitResidents /\ ~SplitBegin /\ ~EvalFails /\ ~PassEnd /\ ~Cold
  BY <1>3 DEF InitPool, InitMapping, InitResidents, SplitBegin, EvalFails, PassEnd, Cold, Ready,
              Goto, InPass, VisitFirst
<1>8. CASE Lookahead
  BY <1>3, <1>8 DEF Lookahead, VisitFirst, Ready, Goto
<1>9. CASE CopyInputs
  <2>1. at = "copy" /\ pc[Main] = "idle" BY <1>9 DEF CopyInputs, Ready
  <2>2. ~EnqueueRanges(Main) BY <2>1 DEF EnqueueRanges
  <2>3. w \in Elements(todo) \/ Streamed BY <1>3, <2>1 DEF Waited
  <2>4. CASE VisitFirst /\ CallWait(Main, Head(todo))
    <3>1. /\ GetPool(Main, "wait_lookup", NewCall("wait", Head(todo), <<>>, 0)) /\ pool' = pool
      BY <2>4 DEF CallWait, poolVars
    <3>2. /\ pc'[Main] = "wait_lookup"
          /\ call'[Main] = NewCall("wait", Head(todo), <<>>, 0)
          /\ Elements(todo) = {Head(todo)} \cup Elements(todo')
      BY <1>1, <2>1, <2>4, <3>1, VisitEnters
    <3>3. call'[Main].w = Head(todo) /\ at' = "copy"
      BY <2>1, <2>4, <3>2 DEF NewCall, VisitFirst
    <3> QED BY <1>6, <2>2, <2>3, <3>1, <3>2, <3>3
  <2>5. CASE UNCHANGED vars /\ todo = <<>>
    <3>1. Elements(todo) = {} BY <2>5 DEF Elements
    <3> QED BY <1>6, <2>2, <2>3, <2>5, <3>1 DEF vars, poolVars
  <2> QED BY <1>9, <2>4, <2>5 DEF CopyInputs
<1>10. CASE Nodes \/ Eval
  <2>1. at \in {"nodes", "eval"} /\ pc[Main] = "idle" BY <1>10 DEF Nodes, Eval, Ready
  <2>2. ~EnqueueRanges(Main) /\ Streamed BY <1>3, <2>1 DEF EnqueueRanges, Waited
  <2>3. ~VisitFirst BY <1>3, <2>1 DEF Inside, VisitFirst
  <2> QED BY <1>6, <1>10, <2>2, <2>3 DEF Nodes, Eval, vars, poolVars
<1>11. CASE UNCHANGED progVars /\ (Continue(Main) \/ \E p \in Pools, i \in Workers : Worker(p, i))
  <2>1. at' = at /\ todo' = todo BY <1>11 DEF progVars
  <2>2. pc[Main] # "enq_lock" BY <1>3, <2>1 DEF Inside
  <2>3. ~EnqueueRanges(Main) BY <2>2 DEF EnqueueRanges
  <2>4. CASE Continue(Main)
    <3>1. pc[Main] # "idle" /\ pc[Main] # "wait_sleep"
      BY <2>4 DEF Continue, EnqueueReadEpoch, EnqueueRefused, EnqueueRanges, WaitGetPool,
                  WaitLookup, WaitCheck, ColdTake, ColdApply, SetStart, Stop, Join
    <3>2. at = "copy" /\ pc[Main] \in {"wait_lookup", "wait_check"} BY <1>3, <2>1, <3>1 DEF Inside
    <3>3. WaitLookup(Main) \/ WaitCheck(Main)
      BY <2>4, <3>2 DEF Continue, EnqueueReadEpoch, EnqueueRefused, EnqueueRanges, WaitGetPool,
                        ColdTake, ColdApply, SetStart, Stop, Join
    <3>4. pool' = pool BY <3>3 DEF WaitLookup, WaitCheck, poolVars
    <3>5. pc'[Main] # "idle" => call'[Main] = call[Main]
      <4>1. ASSUME Drop(Main, "idle") PROVE pc'[Main] = "idle"
        <5>1. pc' = [pc EXCEPT ![Main] = "idle"] BY <1>1, <3>2, <4>1, DropMain DEF HoldPlaces
        <5> QED BY <1>1, <5>1, MainIsClient DEF TypeInv, TypeOK, ClientType
      <4> QED BY <3>3, <4>1 DEF WaitLookup, WaitCheck
    <3>6. pc'[Main] = "idle" => Outstanding(pool, call[Main].w) = {}
      <4>1. pc'[Main] = "idle" => WaitReturnsDone
        BY <1>1, <3>2, NextWaitReturns DEF vars, clientVars
      <4>2. held[Main] = pool
        BY <1>1, <3>2, MainIsClient DEF OnePool, TypeInv, ClientInv, HoldPlaces
      <4> QED BY <3>2, <4>1, <4>2, MainIsClient DEF WaitReturnsDone
    <3> QED BY <1>3, <1>6, <2>1, <2>3, <3>2, <3>4, <3>5, <3>6 DEF Waited
  <2>5. ASSUME NEW p \in Pools, NEW i \in Workers, Worker(p, i)
        PROVE  pool' = pool /\ call' = call /\ (pc[Main] # "idle" => pc'[Main] # "idle")
    <3>1. UNCHANGED <<pool, call>> /\ (UNCHANGED pc \/ WakeWaiters(p))
      BY <2>5 DEF Worker, WorkerPop, WorkerRead, WorkerDecrement, WorkerPublish, poolVars,
                  clientVars
    <3> QED BY <3>1, MainIsClient DEF WakeWaiters
  <2> QED BY <1>3, <1>6, <1>11, <2>1, <2>3, <2>4, <2>5 DEF Waited
<1> QED BY <1>2, <1>7, <1>8, <1>9, <1>10, <1>11 DEF SplitsNext, Program
-----------------------------------------------------------------------------
LEMMA InitSplitsInv == SplitsInit => SplitsInv
<1> SUFFICES ASSUME SplitsInit PROVE SplitsInv OBVIOUS
<1>1. TicketInv /\ Context BY InitContextHolds
<1>2. Init /\ at = "init" BY DEF SplitsInit
<1>3. ASSUME NEW p \in Pools
      PROVE  Owed(p) = {} /\ \A w \in Tensors : Outstanding(p, w) = {} /\ tkEpoch[p][w] = 0
  <2>1. queue[p] = <<>> /\ Busy(p) = {} /\ \A w \in Tensors : tkEpoch[p][w] = 0
    BY <1>2 DEF Init, Busy
  <2> QED BY <2>1 DEF Owed, Outstanding, InFlight, JobsIn
<1>4. epoch = 1 /\ pc[Main] = "idle" BY <1>2, MainIsClient DEF Init
<1>5. Ages BY <1>3, <1>4 DEF Ages
<1>6. OncePerPass BY <1>3 DEF OncePerPass
<1>7. Windowed /\ Waited BY <1>2 DEF Windowed, Waited, InPass
<1> QED BY <1>1, <1>5, <1>6, <1>7 DEF SplitsInv

LEMMA NextSplitsInv == SplitsInv /\ [SplitsNext]_allVars => SplitsInv'
<1>1. ASSUME SplitsInv, SplitsNext PROVE SplitsInv'
  <2>1. TicketInv' BY <1>1, SplitsStepsEngine, NextTicketInv DEF SplitsInv
  <2>2. Context' BY <1>1, NextContext DEF SplitsInv, TicketInv
  <2> QED BY <1>1, <2>1, <2>2, NextAges, NextWindowed, NextWaited DEF SplitsInv
<1>2. ASSUME SplitsInv, UNCHANGED allVars PROVE SplitsInv'
  <2>1. UNCHANGED vars /\ UNCHANGED progVars BY <1>2 DEF allVars
  <2>2. TicketInv' BY <1>2, <2>1, NextTicketInv DEF SplitsInv
  <2>3. Context' BY <1>2, NextContext DEF SplitsInv, TicketInv
  <2>4. UNCHANGED <<epoch, pool, queue, tkEpoch, gen, wpc, wjob, pc, call, at, split, batch, todo>>
    BY <2>1 DEF vars, engineVars, poolVars, ticketVars, workerVars, clientVars, progVars
  <2>5. /\ \A p \in Pools : Owed(p)' = Owed(p)
        /\ \A p, w : Outstanding(p, w)' = Outstanding(p, w)
    BY <2>4 DEF Owed, Outstanding, InFlight, Busy, JobsIn
  <2>6. Ages' /\ OncePerPass' BY <1>2, <2>4, <2>5 DEF SplitsInv, Ages, OncePerPass
  <2>7. \A w : InWindow(w)' <=> InWindow(w) BY <2>4 DEF InWindow, MoeInfos, MoeNext
  <2>8. Windowed' /\ Waited'
    BY <1>2, <2>4, <2>5, <2>7 DEF SplitsInv, Windowed, Waited, InPass
  <2> QED BY <2>2, <2>3, <2>6, <2>8 DEF SplitsInv
<1> QED BY <1>1, <1>2

LEMMA SplitsAlways == SplitsSpec => []SplitsInv
<1> QED BY InitSplitsInv, NextSplitsInv, PTL DEF SplitsSpec

\* The engine and compute_splits' own loop variables keep their types, for every
\* graph: moe_enq never runs past moe_infos.
THEOREM SplitsTypeCorrect == SplitsSpec => []SplitsTypeOK
<1>1. SplitsInv => SplitsTypeOK
  BY DEF SplitsInv, TicketInv, LifetimeInv, TypeInv, Context, ProgType, SplitsTypeOK
<1> QED BY <1>1, SplitsAlways, PTL

\* However often lookahead, the node hook and the kernel hook ask for a tensor in
\* a pass, and whatever is left over from earlier passes, it is queued once.
THEOREM QueuedOncePerPass == SplitsSpec => []OncePerPass
<1>1. SplitsInv => OncePerPass BY DEF SplitsInv
<1> QED BY <1>1, SplitsAlways, PTL

\* Lookahead never streams a weight beyond the next Ahead MoE splits, nor any
\* weight when the graph decodes single tokens.
THEOREM LookaheadStaysInWindow == SplitsSpec => []LookaheadWindow
<1>1. SplitsInv => LookaheadWindow
  <2> SUFFICES ASSUME SplitsInv, at \in {"lookahead", "copy", "nodes", "eval", "cold"},
                      NEW w \in Tensors, NEW j \in Outstanding(pool, w),
                      j.e = epoch, ~j.urgent
               PROVE  batch /\ InWindow(w)
    BY DEF LookaheadWindow
  <2>1. pool \in Pools
    BY DEF SplitsInv, Context, Inside, OnePool, TicketInv, LifetimeInv, TypeInv, TypeOK, PoolType
  <2>2. j \in Owed(pool) /\ j.w = w BY DEF Owed, Outstanding
  <2> QED BY <2>1, <2>2 DEF SplitsInv, Windowed, InPass
<1> QED BY <1>1, SplitsAlways, PTL

\* When a device split is evaluated, copy_inputs has waited for each weight it
\* copied, whatever the workers were doing meanwhile.
THEOREM CopiesAreStreamed == SplitsSpec => []CopiedWeightsStreamed
<1>1. SplitsInv => CopiedWeightsStreamed BY DEF SplitsInv, Waited, CopiedWeightsStreamed
<1> QED BY <1>1, SplitsAlways, PTL
=============================================================================
