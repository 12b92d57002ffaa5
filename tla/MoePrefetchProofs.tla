------------------------- MODULE MoePrefetchProofs -------------------------
(***************************************************************************)
(* Proofs about the read-ahead engine, for any number of clients, tensors, *)
(* read units, workers, pools and passes.                                  *)
(***************************************************************************)
EXTENDS MoePrefetch, FiniteSetTheorems, TLAPS

USE NChunksAssumption, MaxThreadsAssumption, MaxQueueAssumption, MaxPoolsAssumption,
    NoneAssumption DEF Chunks, Pools, Workers

HoldPlaces   == {"enq_epoch", "enq_lock", "wait_lookup", "wait_check", "wait_sleep",
                 "cold_take", "cold_apply", "stop", "join"}
TensorPlaces == (HoldPlaces \ {"stop", "join"}) \cup {"wait_pool"}

\* What a client's place says about its locals: it holds a pool exactly inside
\* a call, its tensor is known while it needs one, and a client that is about
\* to publish a new pool has the mutex and a free pool number.
ClientInv ==
    \A c \in Clients :
        /\ held[c] \in Pools <=> pc[c] \in HoldPlaces
        /\ pc[c] \in TensorPlaces \/ resume[c] = "wait_pool" => call[c].w \in Tensors
        /\ pc[c] = "set_start" \/ resume[c] = "set_start" =>
              poolMtx = c /\ npools < MaxPools
        /\ resume[c] # "idle" => pc[c] \in {"stop", "join"}

WorkerInv ==
    \A p \in Pools, i \in Workers :
        wpc[p][i] \in {"read", "dec", "publish"} => wjob[p][i] \in Jobs

TypeInv == TypeOK /\ ClientInv /\ WorkerInv
-----------------------------------------------------------------------------
\* An order of some chunks is a sequence of chunks without repetition.
LEMMA OrdersAreSequences ==
    ASSUME NEW S \in SUBSET Chunks, NEW cs \in Orders(S)
    PROVE  /\ cs \in Seq(Chunks)
           /\ \A i, k \in 1..Len(cs) : cs[i] = cs[k] => i = k
<1>1. IsFiniteSet(Chunks) BY FS_Interval
<1>2. Cardinality(S) \in Nat BY <1>1, FS_Subset, FS_CardinalityType
<1>3. cs \in [1..Cardinality(S) -> S] BY DEF Orders
<1>4. cs \in Seq(Chunks)
  <2> DEFINE n == Cardinality(S)
  <2>1. n \in Nat /\ \A k \in 1..n : cs[k] \in Chunks BY <1>2, <1>3
  <2>2. cs = [k \in 1..n |-> cs[k]] BY <1>3
  <2> HIDE DEF n
  <2>3. [k \in 1..n |-> cs[k]] \in Seq(Chunks) BY <2>1
  <2> QED BY <2>2, <2>3
<1>5. Len(cs) = Cardinality(S) BY <1>2, <1>3
<1> QED BY <1>4, <1>5 DEF Orders

\* The jobs of an enqueue are jobs, as many as the call has chunks.
LEMMA NewJobsType ==
    ASSUME TypeOK, NEW c \in Clients, call[c].w \in Tensors, NEW g \in Nat
    PROVE  /\ NewJobs(c, g) \in Seq(Jobs)
           /\ Len(NewJobs(c, g)) = Len(call[c].cs)
           /\ \A k \in 1..Len(call[c].cs) :
                NewJobs(c, g)[k] = [w |-> call[c].w, c |-> call[c].cs[k], g |-> g,
                                    e |-> call[c].epoch, urgent |-> call[c].op = "node"]
<1> DEFINE n == Len(call[c].cs)
           J(k) == [w |-> call[c].w, c |-> call[c].cs[k], g |-> g,
                    e |-> call[c].epoch, urgent |-> call[c].op = "node"]
<1>1. call[c].cs \in Seq(Chunks) /\ call[c].epoch \in Nat BY DEF TypeOK, ClientType, Calls
<1>2. n \in Nat BY <1>1
<1>3. \A k \in 1..n : J(k) \in Jobs BY <1>1 DEF Jobs
<1>4. NewJobs(c, g) = [k \in 1..n |-> J(k)] BY DEF NewJobs
<1> HIDE DEF J
<1>5. NewJobs(c, g) \in Seq(Jobs) /\ Len(NewJobs(c, g)) = n BY <1>2, <1>3, <1>4
<1>6. \A k \in 1..n : NewJobs(c, g)[k] = J(k) BY <1>4
<1> QED BY <1>5, <1>6 DEF J

\* The values a call record is given are calls.
LEMMA CallValues ==
    /\ <<>> \in Seq(Chunks)
    /\ NoCall \in Calls
    /\ \A op \in {"tensor", "node", "experts", "wait", "cold", "set"},
          w \in Tensors \cup {None}, cs \in Seq(Chunks), n \in 0..MaxThreads :
             /\ NewCall(op, w, cs, n) \in Calls
             /\ NewCall(op, w, cs, n).w = w
    /\ \A r \in Calls : /\ \A e \in Nat : [r EXCEPT !.epoch = e] \in Calls
                        /\ \A S \in SUBSET Chunks : [r EXCEPT !.taken = S] \in Calls
<1>1. <<>> \in Seq(Chunks) /\ {} \in SUBSET Chunks /\ 0 \in Nat /\ 0 \in 0..MaxThreads OBVIOUS
<1>2. NoCall \in Calls BY <1>1 DEF NoCall, NewCall, Calls
<1>3. ASSUME NEW op \in {"tensor", "node", "experts", "wait", "cold", "set"},
             NEW w \in Tensors \cup {None}, NEW cs \in Seq(Chunks), NEW n \in 0..MaxThreads
      PROVE  NewCall(op, w, cs, n) \in Calls /\ NewCall(op, w, cs, n).w = w
  BY <1>1 DEF NewCall, Calls
<1>4. ASSUME NEW r \in Calls, NEW e \in Nat PROVE [r EXCEPT !.epoch = e] \in Calls
  BY DEF Calls
<1>5. ASSUME NEW r \in Calls, NEW S \in SUBSET Chunks PROVE [r EXCEPT !.taken = S] \in Calls
  BY DEF Calls
<1> QED BY <1>1, <1>2, <1>3, <1>4, <1>5

LEMMA InitTypeInv == Init => TypeInv
<1> SUFFICES ASSUME Init PROVE TypeInv OBVIOUS
<1> USE DEF Init
<1>1. EngineType BY DEF EngineType
<1>2. PoolType BY DEF PoolType
<1>3. TicketType
  <2>1. <<>> \in Seq(Jobs) OBVIOUS
  <2> QED BY <2>1 DEF TicketType
<1>4. WorkerType BY DEF WorkerType, WorkerPlaces
<1>5. ClientType BY CallValues DEF ClientType, ClientPlaces
<1>6. ClientInv /\ WorkerInv BY DEF ClientInv, WorkerInv, HoldPlaces, TensorPlaces
<1> QED BY <1>1, <1>2, <1>3, <1>4, <1>5, <1>6 DEF TypeInv, TypeOK
-----------------------------------------------------------------------------
\* Leaving a call keeps the clients well-formed.
LEMMA DropClient ==
    ASSUME ClientType, ClientInv, PoolType, NEW c \in Clients, NEW next \in {"idle", "wait_pool"},
           pc[c] \in HoldPlaces \ {"stop", "join"}, Drop(c, next),
           UNCHANGED <<poolMtx, npools>>
    PROVE  ClientType' /\ ClientInv'
<1> DEFINE last == ~HeldByOthers(held[c], c)
<1>1. /\ pc' = [pc EXCEPT ![c] = IF last THEN "stop" ELSE next]
      /\ resume' = [resume EXCEPT ![c] = IF last THEN next ELSE "idle"]
      /\ held' = IF last THEN held ELSE [held EXCEPT ![c] = None]
      /\ call' = IF next = "idle" THEN [call EXCEPT ![c] = NoCall] ELSE call
  BY DEF Drop
<1> HIDE DEF last
<1>2. ClientType' BY <1>1, CallValues DEF ClientType, ClientPlaces
<1>3. resume[c] = "idle" /\ held[c] \in Pools /\ call[c].w \in Tensors
  BY DEF ClientInv, HoldPlaces, TensorPlaces
<1>4. ASSUME NEW d \in Clients, d # c
      PROVE  pc'[d] = pc[d] /\ held'[d] = held[d] /\ call'[d] = call[d] /\ resume'[d] = resume[d]
  BY <1>1, <1>4 DEF ClientType
<1>5. pc'[c] \in {"stop", next} /\ resume'[c] \in {"idle", next}
  BY <1>1 DEF ClientType
<1>6. last => pc'[c] = "stop" /\ held'[c] = held[c] /\ resume'[c] = next
  BY <1>1 DEF ClientType
<1>7. ~last => pc'[c] = next /\ held'[c] = None /\ resume'[c] = "idle"
  BY <1>1 DEF ClientType
<1>8. next = "wait_pool" => call' = call BY <1>1
<1>9. ClientInv'
  <2> SUFFICES ASSUME NEW d \in Clients
               PROVE  /\ held'[d] \in Pools <=> pc'[d] \in HoldPlaces
                      /\ pc'[d] \in TensorPlaces \/ resume'[d] = "wait_pool" => call'[d].w \in Tensors
                      /\ pc'[d] = "set_start" \/ resume'[d] = "set_start" =>
                            poolMtx' = d /\ npools' < MaxPools
                      /\ resume'[d] # "idle" => pc'[d] \in {"stop", "join"}
    BY DEF ClientInv
  <2>1. CASE d # c BY <2>1, <1>4 DEF ClientInv
  <2>2. CASE d = c /\ last
    BY <2>2, <1>3, <1>6, <1>8 DEF HoldPlaces, TensorPlaces
  <2>3. CASE d = c /\ ~last
    BY <2>3, <1>3, <1>7, <1>8 DEF HoldPlaces, TensorPlaces
  <2> QED BY <2>1, <2>2, <2>3
<1> QED BY <1>2, <1>9

\* Entering a call with the pool in hand keeps the clients well-formed.
LEMMA GetPoolClient ==
    ASSUME ClientType, ClientInv, PoolType, NEW c \in Clients,
           NEW place \in {"enq_epoch", "wait_lookup", "cold_take"}, NEW args \in Calls,
           args.w \in Tensors, pc[c] \in {"idle", "wait_pool"},
           GetPool(c, place, args), UNCHANGED <<poolMtx, npools>>
    PROVE  ClientType' /\ ClientInv'
<1>1. ClientType' BY CallValues DEF GetPool, ClientType, ClientPlaces, PoolType
<1>2. ASSUME NEW d \in Clients, d # c
      PROVE  pc'[d] = pc[d] /\ held'[d] = held[d] /\ call'[d] = call[d] /\ resume'[d] = resume[d]
  BY <1>2 DEF GetPool, ClientType
<1>3. resume'[c] = "idle" BY DEF GetPool, ClientInv, ClientType
<1>4. pool = None => pc'[c] = "idle" /\ held'[c] = None
  BY DEF GetPool, ClientType
<1>5. pool # None => pc'[c] = place /\ held'[c] \in Pools /\ call'[c] = args
  BY DEF GetPool, ClientType, PoolType
<1>6. ClientInv'
  <2> SUFFICES ASSUME NEW d \in Clients
               PROVE  /\ held'[d] \in Pools <=> pc'[d] \in HoldPlaces
                      /\ pc'[d] \in TensorPlaces \/ resume'[d] = "wait_pool" => call'[d].w \in Tensors
                      /\ pc'[d] = "set_start" \/ resume'[d] = "set_start" =>
                            poolMtx' = d /\ npools' < MaxPools
                      /\ resume'[d] # "idle" => pc'[d] \in {"stop", "join"}
    BY DEF ClientInv
  <2>1. CASE d # c BY <2>1, <1>2 DEF ClientInv
  <2>2. CASE d = c /\ pool = None
    BY <2>2, <1>3, <1>4 DEF HoldPlaces, TensorPlaces
  <2>3. CASE d = c /\ pool # None
    BY <2>3, <1>3, <1>5 DEF HoldPlaces, TensorPlaces
  <2> QED BY <2>1, <2>2, <2>3
<1> QED BY <1>1, <1>6
-----------------------------------------------------------------------------
\* A waiter that is woken stays a waiter: no other place changes.
LEMMA WakeWaitersClient ==
    ASSUME ClientType, ClientInv, PoolType, NEW p \in Pools, WakeWaiters(p),
           UNCHANGED <<held, call, resume, poolMtx, npools>>
    PROVE  ClientType' /\ ClientInv'
<1>1. ClientType' BY DEF WakeWaiters, ClientType, ClientPlaces
<1>2. \A c \in Clients : pc'[c] = pc[c] \/ (pc[c] = "wait_sleep" /\ pc'[c] = "wait_check")
  <2> SUFFICES ASSUME NEW d \in Clients
               PROVE  pc'[d] = pc[d] \/ (pc[d] = "wait_sleep" /\ pc'[d] = "wait_check")
    OBVIOUS
  <2>1. pc'[d] = IF pc[d] = "wait_sleep" /\ held[d] = p THEN "wait_check" ELSE pc[d]
    BY DEF WakeWaiters
  <2> QED BY <2>1
<1>3. ASSUME NEW d \in Clients
      PROVE  /\ held'[d] \in Pools <=> pc'[d] \in HoldPlaces
             /\ pc'[d] \in TensorPlaces \/ resume'[d] = "wait_pool" => call'[d].w \in Tensors
             /\ pc'[d] = "set_start" \/ resume'[d] = "set_start" =>
                   poolMtx' = d /\ npools' < MaxPools
             /\ resume'[d] # "idle" => pc'[d] \in {"stop", "join"}
  <2>1. /\ held[d] \in Pools <=> pc[d] \in HoldPlaces
        /\ pc[d] \in TensorPlaces \/ resume[d] = "wait_pool" => call[d].w \in Tensors
        /\ pc[d] = "set_start" \/ resume[d] = "set_start" => poolMtx = d /\ npools < MaxPools
        /\ resume[d] # "idle" => pc[d] \in {"stop", "join"}
    BY DEF ClientInv
  <2>2. held' = held /\ call' = call /\ resume' = resume /\ poolMtx' = poolMtx /\ npools' = npools
    OBVIOUS
  <2>3. CASE pc'[d] = pc[d] BY <2>1, <2>2, <2>3
  <2>4. CASE pc[d] = "wait_sleep" /\ pc'[d] = "wait_check"
    BY <2>1, <2>2, <2>4 DEF HoldPlaces, TensorPlaces
  <2> QED BY <1>2, <2>3, <2>4
<1> QED BY <1>1, <1>3 DEF ClientInv

\* The engine's calls that read or change the whole engine.
LEMMA SetupType == ASSUME TypeInv, NEW c \in Clients, Setup(c) PROVE TypeInv'
<1> USE DEF TypeInv, TypeOK
<1>1. ASSUME NewEpoch(c) \/ RegisterMapping(c) \/ UnregisterMapping(c) PROVE TypeInv'
  <2>1. UNCHANGED <<poolVars, ticketVars, workerVars, clientVars>>
    BY <1>1 DEF NewEpoch, RegisterMapping, UnregisterMapping
  <2>2. EngineType'
    <3>1. CASE NewEpoch(c) BY <3>1 DEF NewEpoch, EngineType
    <3>2. CASE RegisterMapping(c) BY <3>2 DEF RegisterMapping, EngineType
    <3>3. CASE UnregisterMapping(c) BY <3>3 DEF UnregisterMapping, EngineType
    <3> QED BY <1>1, <3>1, <3>2, <3>3
  <2>3. PoolType' /\ TicketType' /\ WorkerType' /\ ClientType' /\ WorkerInv'
    BY <2>1 DEF poolVars, ticketVars, workerVars, clientVars, PoolType, TicketType, WorkerType,
       ClientType, WorkerInv
  <2>4. ClientInv' BY <2>1 DEF poolVars, clientVars, ClientInv
  <2> QED BY <2>2, <2>3, <2>4
<1>2. ASSUME NEW n \in 0..MaxThreads, SetNThreads(c, n) PROVE TypeInv'
  <2> USE <1>2 DEF SetNThreads, engineVars, ticketVars, workerVars
  <2>1. EngineType' /\ TicketType' /\ WorkerType' /\ WorkerInv'
    BY DEF EngineType, TicketType, WorkerType, WorkerInv
  <2>2. PoolType' BY DEF PoolType
  <2>3. ClientType'
    <3>1. NewCall("set", None, <<>>, n) \in Calls BY CallValues
    <3> QED BY <3>1, CallValues DEF ClientType, ClientPlaces, PoolType
  <2>4. ClientInv'
    <3> DEFINE dies == pool # None /\ \A d \in Clients : held[d] # pool
               next == IF n > 0 THEN "set_start" ELSE "idle"
    <3>1. ASSUME NEW d \in Clients, d # c
          PROVE  pc'[d] = pc[d] /\ held'[d] = held[d] /\ call'[d] = call[d] /\ resume'[d] = resume[d]
      BY <3>1 DEF ClientType
    <3>2. dies => pc'[c] = "stop" /\ resume'[c] = next /\ held'[c] = pool /\ poolMtx' = c
      BY DEF ClientType
    <3>3. ~dies => pc'[c] = next /\ resume'[c] = "idle" /\ held'[c] = None
                   /\ poolMtx' = (IF n > 0 THEN c ELSE None)
      BY DEF ClientType
    <3>4. \A d \in Clients : pc[d] # "set_start" /\ resume[d] # "set_start"
      BY DEF ClientInv
    <3>5. next \in {"idle", "set_start"} /\ (next = "set_start" => npools' < MaxPools /\ n > 0)
      BY DEF PoolType
    <3> HIDE DEF dies, next
    <3> SUFFICES ASSUME NEW d \in Clients
                 PROVE  /\ held'[d] \in Pools <=> pc'[d] \in HoldPlaces
                        /\ pc'[d] \in TensorPlaces \/ resume'[d] = "wait_pool" => call'[d].w \in Tensors
                        /\ pc'[d] = "set_start" \/ resume'[d] = "set_start" =>
                              poolMtx' = d /\ npools' < MaxPools
                        /\ resume'[d] # "idle" => pc'[d] \in {"stop", "join"}
      BY DEF ClientInv
    <3>6. CASE d # c BY <3>6, <3>1, <3>4 DEF ClientInv
    <3>7. CASE d = c /\ dies
      BY <3>7, <3>2, <3>5 DEF HoldPlaces, TensorPlaces, PoolType, dies
    <3>8. CASE d = c /\ ~dies
      BY <3>8, <3>3, <3>5 DEF HoldPlaces, TensorPlaces
    <3> QED BY <3>6, <3>7, <3>8
  <2> QED BY <2>1, <2>2, <2>3, <2>4
<1> QED BY <1>1, <1>2 DEF Setup

\* The calls on one tensor.
LEMMA TensorCallType ==
    ASSUME TypeInv, NEW c \in Clients, NEW w \in Tensors, TensorCall(c, w) PROVE TypeInv'
<1> USE DEF TypeInv, TypeOK
<1>1. ASSUME NEW op \in {"tensor", "node", "experts"}, NEW cs \in Seq(Chunks),
             CallEnqueue(c, op, w, cs), pinned' \in [Tensors -> SUBSET Chunks]
      PROVE  TypeInv'
  <2> USE <1>1 DEF CallEnqueue
  <2>1. EngineType' /\ PoolType' /\ TicketType' /\ WorkerType' /\ WorkerInv'
    BY DEF poolVars, ticketVars, workerVars, EngineType, PoolType, TicketType, WorkerType, WorkerInv
  <2>2. NewCall(op, w, cs, 0) \in Calls /\ NewCall(op, w, cs, 0).w = w BY CallValues
  <2>3. ClientType' /\ ClientInv' BY <2>2, GetPoolClient DEF poolVars
  <2> QED BY <2>1, <2>3
<1>2. ASSUME NEW op \in {"wait", "cold"}, NEW place \in {"wait_lookup", "cold_take"},
             pc[c] = "idle", GetPool(c, place, NewCall(op, w, <<>>, 0)),
             UNCHANGED <<engineVars, poolVars, ticketVars, workerVars>>
      PROVE  TypeInv'
  <2>1. EngineType' /\ PoolType' /\ TicketType' /\ WorkerType' /\ WorkerInv'
    BY <1>2 DEF engineVars, poolVars, ticketVars, workerVars, EngineType, PoolType, TicketType,
       WorkerType, WorkerInv
  <2>2. NewCall(op, w, <<>>, 0) \in Calls /\ NewCall(op, w, <<>>, 0).w = w
    <3>1. /\ op \in {"tensor", "node", "experts", "wait", "cold", "set"}
          /\ w \in Tensors \cup {None} /\ <<>> \in Seq(Chunks) /\ 0 \in 0..MaxThreads
      OBVIOUS
    <3>2. CASE op = "wait" BY <3>1, <3>2, CallValues
    <3>3. CASE op = "cold" BY <3>1, <3>3, CallValues
    <3> QED BY <3>2, <3>3
  <2>3. ClientType' /\ ClientInv' BY <1>2, <2>2, GetPoolClient DEF poolVars
  <2> QED BY <2>1, <2>3
<1>3. CASE PrefetchTensor(c, w)
  <2>1. PICK cs \in Orders(Chunks \ pinned[w]) : CallEnqueue(c, "tensor", w, cs)
    BY <1>3 DEF PrefetchTensor
  <2>2. cs \in Seq(Chunks) BY OrdersAreSequences
  <2> QED BY <1>1, <1>3, <2>1, <2>2 DEF PrefetchTensor, EngineType
<1>4. ASSUME NEW S \in SUBSET Chunks, PrefetchNode(c, w, S) PROVE TypeInv'
  <2>1. PICK cs \in Orders(S) : CallEnqueue(c, "node", w, cs) BY <1>4 DEF PrefetchNode
  <2>2. cs \in Seq(Chunks) BY OrdersAreSequences
  <2> QED BY <1>1, <1>4, <2>1, <2>2 DEF PrefetchNode, EngineType
<1>5. ASSUME NEW S \in SUBSET Chunks, NEW cs \in Orders(S), PrefetchExperts(c, w, cs)
      PROVE  TypeInv'
  <2>1. cs \in Seq(Chunks) BY OrdersAreSequences
  <2>2. pinned' \in [Tensors -> SUBSET Chunks]
    BY <1>5, <2>1 DEF PrefetchExperts, EngineType
  <2> QED BY <1>1, <1>5, <2>1, <2>2 DEF PrefetchExperts
<1>6. CASE CallWait(c, w) BY <1>2, <1>6 DEF CallWait
<1>7. CASE CallCold(c, w) BY <1>2, <1>7 DEF CallCold
<1> QED BY <1>3, <1>4, <1>5, <1>6, <1>7 DEF TensorCall
-----------------------------------------------------------------------------
\* Waking the workers of a pool only moves workers that were asleep.
LEMMA WakeWorkersType ==
    ASSUME WorkerType, WorkerInv, NEW p \in Pools, WakeWorkers(p) \/ UNCHANGED wpc,
           UNCHANGED <<wjob, wdone, wlast>>
    PROVE  WorkerType' /\ WorkerInv'
<1>1. WorkerType'
  <2>1. CASE WakeWorkers(p)
    <3>1. [i \in Workers |-> IF wpc[p][i] = "asleep" THEN "lock" ELSE wpc[p][i]]
            \in [Workers -> WorkerPlaces]
      BY DEF WorkerType, WorkerPlaces
    <3>2. wpc' \in [Pools -> [Workers -> WorkerPlaces]]
      BY <2>1, <3>1 DEF WakeWorkers, WorkerType
    <3> QED BY <3>2 DEF WorkerType
  <2>2. CASE UNCHANGED wpc BY <2>2 DEF WorkerType
  <2> QED BY <2>1, <2>2
<1>2. ASSUME NEW q \in Pools, NEW i \in Workers
      PROVE  wpc'[q][i] = wpc[q][i] \/ wpc'[q][i] = "lock"
  BY DEF WakeWorkers, WorkerType
<1> QED BY <1>1, <1>2 DEF WorkerInv

\* The steps of a call to enqueue_ranges.
LEMMA EnqueueType ==
    ASSUME TypeInv, NEW c \in Clients,
           EnqueueReadEpoch(c) \/ EnqueueRefused(c) \/ EnqueueRanges(c)
    PROVE  TypeInv'
<1> USE DEF TypeInv, TypeOK
<1>1. AfterEnqueue(c) \in {"idle", "wait_pool"} BY DEF AfterEnqueue
<1>2. CASE EnqueueReadEpoch(c)
  <2> USE <1>2 DEF EnqueueReadEpoch
  <2>1. EngineType' /\ PoolType' /\ TicketType' /\ WorkerType' /\ WorkerInv'
    BY DEF engineVars, poolVars, ticketVars, workerVars, EngineType, PoolType, TicketType,
       WorkerType, WorkerInv
  <2>2. poolMtx' = poolMtx /\ npools' = npools BY DEF poolVars
  <2>3. CASE Drop(c, "idle") BY <2>1, <2>2, <2>3, DropClient DEF HoldPlaces
  <2>4. CASE ~Drop(c, "idle")
    <3>1. /\ call' = [call EXCEPT ![c].epoch = epoch]
          /\ pc' = [pc EXCEPT ![c] = "enq_lock"] /\ held' = held /\ resume' = resume
      BY <2>4
    <3>2. [call[c] EXCEPT !.epoch = epoch] \in Calls /\ call'[c].w = call[c].w
      <4>1. call[c] \in Calls /\ epoch \in Nat BY DEF EngineType, ClientType
      <4>2. call'[c] = [call[c] EXCEPT !.epoch = epoch] BY <3>1 DEF ClientType
      <4>3. [call[c] EXCEPT !.epoch = epoch] \in Calls BY <4>1, CallValues
      <4>4. [call[c] EXCEPT !.epoch = epoch].w = call[c].w BY <4>1 DEF Calls
      <4> QED BY <4>2, <4>3, <4>4
    <3>3. ClientType' BY <3>1, <3>2 DEF ClientType, ClientPlaces
    <3>4. ASSUME NEW d \in Clients
          PROVE  /\ pc'[d] = (IF d = c THEN "enq_lock" ELSE pc[d])
                 /\ call'[d].w = call[d].w /\ held'[d] = held[d] /\ resume'[d] = resume[d]
      BY <3>1, <3>2 DEF ClientType
    <3>5. ClientInv'
      <4> SUFFICES ASSUME NEW d \in Clients
                   PROVE  /\ held'[d] \in Pools <=> pc'[d] \in HoldPlaces
                          /\ pc'[d] \in TensorPlaces \/ resume'[d] = "wait_pool" =>
                                call'[d].w \in Tensors
                          /\ pc'[d] = "set_start" \/ resume'[d] = "set_start" =>
                                poolMtx' = d /\ npools' < MaxPools
                          /\ resume'[d] # "idle" => pc'[d] \in {"stop", "join"}
        BY DEF ClientInv
      <4>1. CASE d = c BY <4>1, <2>2, <3>4 DEF ClientInv, HoldPlaces, TensorPlaces
      <4>2. CASE d # c BY <4>2, <2>2, <3>4 DEF ClientInv
      <4> QED BY <4>1, <4>2
    <3> QED BY <2>1, <3>3, <3>5
  <2> QED BY <2>3, <2>4
<1>3. CASE EnqueueRefused(c)
  <2> USE <1>3 DEF EnqueueRefused
  <2>1. EngineType' /\ PoolType' /\ TicketType' /\ WorkerType' /\ WorkerInv'
    BY DEF engineVars, poolVars, ticketVars, workerVars, EngineType, PoolType, TicketType,
       WorkerType, WorkerInv
  <2>2. poolMtx' = poolMtx /\ npools' = npools BY DEF poolVars
  <2>3. PICK next \in {"idle", "wait_pool"} : Drop(c, next) BY <1>1
  <2> QED BY <2>1, <2>2, <2>3, DropClient DEF HoldPlaces
<1>4. CASE EnqueueRanges(c)
  <2> DEFINE p == held[c]
             w == call[c].w
             js == NewJobs(c, gen[p][w] + 1)
  <2>1. p \in Pools /\ w \in Tensors
    BY <1>4 DEF EnqueueRanges, ClientInv, HoldPlaces, TensorPlaces
  <2>2. gen[p][w] + 1 \in Nat BY <2>1 DEF EngineType
  <2>3. js \in Seq(Jobs) BY <2>1, <2>2, NewJobsType
  <2>4. /\ tkEpoch' = [tkEpoch EXCEPT ![p][w] = call[c].epoch]
        /\ tkTrack' = [tkTrack EXCEPT ![p][w] = call[c].op = "tensor"]
        /\ tkReads' = [tkReads EXCEPT ![p][w] = {}]
        /\ pending' = [pending EXCEPT ![p][w] = @ + Len(js)]
        /\ queue' = [queue EXCEPT ![p] = Insert(js, @, call[c].op = "node")]
        /\ gen' = [gen EXCEPT ![p][w] = @ + 1]
        /\ IF js = <<>> THEN UNCHANGED wpc ELSE WakeWorkers(p)
        /\ UNCHANGED <<epoch, registered, pinned, poolVars, wjob, wdone, wlast>>
        /\ Drop(c, AfterEnqueue(c)) /\ pc[c] = "enq_lock"
    BY <1>4, Zenon DEF EnqueueRanges
  <2> HIDE DEF p, w, js
  <2>11. WakeWorkers(p) \/ UNCHANGED wpc BY <2>4
  <2>5. EngineType' BY <2>1, <2>2, <2>4 DEF EngineType
  <2>6. PoolType' BY <2>4 DEF PoolType, poolVars
  <2>7. call[c].epoch \in Nat BY DEF ClientType, Calls
  <2>8. TicketType'
    <3>1. queue[p] \in Seq(Jobs) /\ pending[p][w] \in Int /\ Len(js) \in Int
      BY <2>1, <2>3 DEF TicketType
    <3>2. Insert(js, queue[p], call[c].op = "node") \in Seq(Jobs) BY <2>3, <3>1 DEF Insert
    <3>3. queue' \in [Pools -> Seq(Jobs)] BY <2>1, <2>4, <3>2 DEF TicketType
    <3>4. pending' \in [Pools -> [Tensors -> Int]] BY <2>1, <2>4, <3>1 DEF TicketType
    <3>5. /\ tkEpoch' \in [Pools -> [Tensors -> Nat]]
          /\ tkTrack' \in [Pools -> [Tensors -> BOOLEAN]]
          /\ tkReads' \in [Pools -> [Tensors -> SUBSET Chunks]]
      BY <2>1, <2>4, <2>7 DEF TicketType
    <3> QED BY <3>3, <3>4, <3>5 DEF TicketType
  <2>9. WorkerType' /\ WorkerInv' BY <2>1, <2>4, <2>11, WakeWorkersType
  <2>10. ClientType' /\ ClientInv' BY <1>1, <2>4, DropClient DEF HoldPlaces, poolVars
  <2> QED BY <2>5, <2>6, <2>8, <2>9, <2>10
<1> QED BY <1>2, <1>3, <1>4
-----------------------------------------------------------------------------
\* A client that moves on inside its call, keeping its pool and its arguments.
LEMMA MoveClient ==
    ASSUME ClientType, ClientInv, NEW c \in Clients,
           pc[c] \in HoldPlaces \ {"stop", "join"},
           NEW place \in HoldPlaces \ {"stop", "join"},
           pc' = [pc EXCEPT ![c] = place], NEW r \in Calls, r.w = call[c].w,
           call' = [call EXCEPT ![c] = r],
           UNCHANGED <<held, resume, poolMtx, npools>>
    PROVE  ClientType' /\ ClientInv'
<1>1. ClientType' BY DEF ClientType, ClientPlaces, HoldPlaces
<1>2. ASSUME NEW d \in Clients
      PROVE  /\ pc'[d] = (IF d = c THEN place ELSE pc[d])
             /\ call'[d].w = call[d].w /\ held'[d] = held[d] /\ resume'[d] = resume[d]
  BY DEF ClientType
<1>3. ClientInv'
  <2> SUFFICES ASSUME NEW d \in Clients
               PROVE  /\ held'[d] \in Pools <=> pc'[d] \in HoldPlaces
                      /\ pc'[d] \in TensorPlaces \/ resume'[d] = "wait_pool" =>
                            call'[d].w \in Tensors
                      /\ pc'[d] = "set_start" \/ resume'[d] = "set_start" =>
                            poolMtx' = d /\ npools' < MaxPools
                      /\ resume'[d] # "idle" => pc'[d] \in {"stop", "join"}
    BY DEF ClientInv
  <2>1. CASE d = c BY <2>1, <1>2 DEF ClientInv, HoldPlaces, TensorPlaces
  <2>2. CASE d # c BY <2>2, <1>2 DEF ClientInv
  <2> QED BY <2>1, <2>2
<1> QED BY <1>1, <1>3

\* The steps of ggml_moe_prefetch_wait and ggml_moe_prefetch_cold.
LEMMA WaitColdType ==
    ASSUME TypeInv, NEW c \in Clients,
           \/ WaitGetPool(c) \/ WaitLookup(c) \/ WaitCheck(c)
           \/ ColdTake(c) \/ ColdApply(c)
    PROVE  TypeInv'
<1> USE DEF TypeInv, TypeOK
<1>1. call[c] \in Calls /\ call = [call EXCEPT ![c] = call[c]] BY DEF ClientType
<1>2. ASSUME UNCHANGED <<engineVars, poolVars, ticketVars, workerVars>>
      PROVE  EngineType' /\ PoolType' /\ TicketType' /\ WorkerType' /\ WorkerInv'
             /\ poolMtx' = poolMtx /\ npools' = npools
  BY <1>2 DEF engineVars, poolVars, ticketVars, workerVars, EngineType, PoolType, TicketType,
     WorkerType, WorkerInv
<1>3. CASE WaitGetPool(c)
  <2>1. call[c].w \in Tensors BY <1>3 DEF WaitGetPool, ClientInv, TensorPlaces
  <2> QED BY <1>1, <1>2, <1>3, <2>1, GetPoolClient DEF WaitGetPool
<1>4. CASE WaitLookup(c)
  <2>1. CASE Drop(c, "idle") BY <1>2, <1>4, <2>1, DropClient DEF WaitLookup, HoldPlaces
  <2>2. CASE ~Drop(c, "idle")
    BY <1>1, <1>2, <1>4, <2>2, MoveClient DEF WaitLookup, HoldPlaces
  <2> QED BY <2>1, <2>2
<1>5. CASE WaitCheck(c)
  <2>1. CASE Drop(c, "idle") BY <1>2, <1>5, <2>1, DropClient DEF WaitCheck, HoldPlaces
  <2>2. CASE ~Drop(c, "idle")
    BY <1>1, <1>2, <1>5, <2>2, MoveClient DEF WaitCheck, HoldPlaces
  <2> QED BY <2>1, <2>2
<1>6. CASE ColdTake(c)
  <2> USE <1>6 DEF ColdTake
  <2>1. held[c] \in Pools /\ call[c].w \in Tensors
    BY DEF ClientInv, HoldPlaces, TensorPlaces
  <2>2. EngineType' /\ PoolType' /\ WorkerType' /\ WorkerInv'
        /\ poolMtx' = poolMtx /\ npools' = npools
    BY DEF engineVars, poolVars, workerVars, EngineType, PoolType, WorkerType, WorkerInv
  <2>3. tkReads' \in [Pools -> [Tensors -> SUBSET Chunks]]
    <3>1. tkReads' = tkReads \/ tkReads' = [tkReads EXCEPT ![held[c]][call[c].w] = {}] OBVIOUS
    <3>2. tkReads \in [Pools -> [Tensors -> SUBSET Chunks]] BY DEF TicketType
    <3>3. CASE tkReads' = tkReads BY <3>2, <3>3
    <3>4. CASE tkReads' = [tkReads EXCEPT ![held[c]][call[c].w] = {}] BY <2>1, <3>2, <3>4
    <3> QED BY <3>1, <3>3, <3>4
  <2>4. TicketType' BY <2>3 DEF TicketType
  <2>5. tkReads[held[c]][call[c].w] \in SUBSET Chunks BY <2>1 DEF TicketType
  <2>6. CASE Drop(c, "idle") BY <2>2, <2>4, <2>6, DropClient DEF HoldPlaces
  <2>7. CASE ~Drop(c, "idle")
    <3> DEFINE r == [call[c] EXCEPT !.taken = tkReads[held[c]][call[c].w]]
    <3>1. r \in Calls BY <1>1, <2>5, CallValues
    <3>2. r.w = call[c].w BY <1>1 DEF Calls
    <3>3. /\ call' = [call EXCEPT ![c] = r] /\ pc' = [pc EXCEPT ![c] = "cold_apply"]
          /\ UNCHANGED <<held, resume>>
      BY <2>7, <1>1
    <3> HIDE DEF r
    <3> QED BY <2>2, <2>4, <3>1, <3>2, <3>3, MoveClient DEF HoldPlaces
  <2> QED BY <2>6, <2>7
<1>7. CASE ColdApply(c) BY <1>2, <1>7, DropClient DEF ColdApply, HoldPlaces
<1> QED BY <1>3, <1>4, <1>5, <1>6, <1>7

\* Stop counts a finite number of dropped jobs.
LEMMA QueueFinite ==
    ASSUME TicketType, NEW p \in Pools
    PROVE  IsFiniteSet(JobsIn(queue[p]))
<1> DEFINE q == queue[p]
<1>1. q \in Seq(Jobs) BY DEF TicketType
<1> HIDE DEF q
<1>2. Len(q) \in Nat BY <1>1
<1>3. IsFiniteSet(1..Len(q)) BY <1>2, FS_Interval
<1>4. [k \in 1..Len(q) |-> q[k]] \in Surjection(1..Len(q), JobsIn(q))
  BY DEF Surjection, JobsIn
<1>5. IsFiniteSet(JobsIn(q)) BY <1>3, <1>4, FS_Surjection
<1> QED BY <1>5 DEF q

LEMMA DroppedIsFinite ==
    ASSUME TicketType, NEW p \in Pools, NEW w \in Tensors
    PROVE  Dropped(p, w) \in Nat
<1>1. IsFiniteSet({j \in JobsIn(queue[p]) : j.w = w}) BY QueueFinite, FS_Subset
<1> QED BY <1>1, FS_CardinalityType DEF Dropped

\* The steps of set_n_threads and of ~prefetch_pool.
LEMMA LifetimeType ==
    ASSUME TypeInv, NEW c \in Clients, SetStart(c) \/ Stop(c) \/ Join(c) PROVE TypeInv'
<1> USE DEF TypeInv, TypeOK
<1>1. CASE SetStart(c)
  <2> DEFINE p == npools + 1
  <2> USE <1>1 DEF SetStart
  <2>1. poolMtx = c /\ npools < MaxPools BY DEF ClientInv
  <2>2. p \in Pools /\ p \in 0..MaxPools BY <2>1 DEF PoolType
  <2>3. call[c].n \in Nat BY DEF ClientType, Calls
  <2>4. npools' = p /\ pool' = p /\ size' = [size EXCEPT ![p] = call[c].n] /\ poolMtx' = None
        /\ wpc' = [wpc EXCEPT ![p] = [i \in Workers |-> IF i <= call[c].n THEN "lock" ELSE "none"]]
    OBVIOUS
  <2>5. pc' = [pc EXCEPT ![c] = "idle"] /\ call' = [call EXCEPT ![c] = NoCall]
    OBVIOUS
  <2>6. EngineType' /\ TicketType'
    BY DEF EngineType, TicketType, engineVars, ticketVars
  <2> HIDE DEF p
  <2>7. PoolType' BY <2>2, <2>3, <2>4 DEF PoolType
  <2>8. WorkerType'
    <3>1. [i \in Workers |-> IF i <= call[c].n THEN "lock" ELSE "none"] \in [Workers -> WorkerPlaces]
      BY DEF WorkerPlaces
    <3> QED BY <2>2, <2>4, <3>1 DEF WorkerType
  <2>9. WorkerInv'
    <3> SUFFICES ASSUME NEW q \in Pools, NEW i \in Workers,
                        wpc'[q][i] \in {"read", "dec", "publish"}
                 PROVE  wjob'[q][i] \in Jobs
      BY DEF WorkerInv
    <3>1. q # p BY <2>2, <2>4 DEF WorkerType
    <3>2. wpc'[q][i] = wpc[q][i] BY <2>4, <3>1 DEF WorkerType
    <3> QED BY <3>2 DEF WorkerInv
  <2>10. ClientType' BY <2>5, CallValues DEF ClientType, ClientPlaces
  <2>11. held' = held /\ resume' = resume OBVIOUS
  <2>12. ClientInv'
    <3> SUFFICES ASSUME NEW d \in Clients
                 PROVE  /\ held'[d] \in Pools <=> pc'[d] \in HoldPlaces
                        /\ pc'[d] \in TensorPlaces \/ resume'[d] = "wait_pool" =>
                              call'[d].w \in Tensors
                        /\ pc'[d] = "set_start" \/ resume'[d] = "set_start" =>
                              poolMtx' = d /\ npools' < MaxPools
                        /\ resume'[d] # "idle" => pc'[d] \in {"stop", "join"}
      BY DEF ClientInv
    <3>1. resume[c] = "idle" /\ held[c] \notin Pools BY DEF ClientInv, HoldPlaces
    <3>2. CASE d = c
      BY <3>1, <3>2, <2>5, <2>11 DEF HoldPlaces, TensorPlaces, ClientType
    <3>3. CASE d # c
      <4>1. pc'[d] = pc[d] /\ call'[d] = call[d] BY <3>3, <2>5 DEF ClientType
      <4>2. pc[d] # "set_start" /\ resume[d] # "set_start" BY <2>1, <3>3 DEF ClientInv
      <4> QED BY <4>1, <4>2, <2>11 DEF ClientInv
    <3> QED BY <3>2, <3>3
  <2> QED BY <2>6, <2>7, <2>8, <2>9, <2>10, <2>12
<1>2. CASE Stop(c)
  <2> DEFINE p == held[c]
  <2> USE <1>2 DEF Stop
  <2>1. p \in Pools BY DEF ClientInv, HoldPlaces
  <2>2. EngineType' BY DEF EngineType, engineVars
  <2>3. PoolType' BY <2>1 DEF PoolType
  <2>4. WakeWorkers(p) /\ UNCHANGED <<wjob, wdone, wlast>> OBVIOUS
  <2>5. queue' = [queue EXCEPT ![p] = <<>>] OBVIOUS
  <2>6. pending' = [pending EXCEPT ![p] = [w \in Tensors |-> pending[p][w] - Dropped(p, w)]]
    OBVIOUS
  <2>7. \A w \in Tensors : Dropped(p, w) \in Nat BY <2>1, DroppedIsFinite
  <2>8. UNCHANGED <<tkEpoch, tkTrack, tkReads, held, call, resume, poolMtx, npools>> OBVIOUS
  <2>9. pc' = [d \in Clients |-> IF d = c THEN "join"
                                 ELSE IF pc[d] = "wait_sleep" /\ held[d] = p THEN "wait_check"
                                 ELSE pc[d]]
    OBVIOUS
  <2>10. pc[c] = "stop" OBVIOUS
  <2> HIDE DEF p
  <2>11. WorkerType' /\ WorkerInv' BY <2>1, <2>4, WakeWorkersType
  <2>12. TicketType'
    <3>1. <<>> \in Seq(Jobs) OBVIOUS
    <3>2. \A w \in Tensors : pending[p][w] - Dropped(p, w) \in Int
      BY <2>1, <2>7 DEF TicketType
    <3>3. [w \in Tensors |-> pending[p][w] - Dropped(p, w)] \in [Tensors -> Int] BY <3>2
    <3>4. pending' \in [Pools -> [Tensors -> Int]] BY <2>1, <2>6, <3>3 DEF TicketType
    <3>5. queue' \in [Pools -> Seq(Jobs)] BY <2>1, <2>5, <3>1 DEF TicketType
    <3> QED BY <3>4, <3>5, <2>8 DEF TicketType
  <2>13. ClientType' BY <2>8, <2>9 DEF ClientType, ClientPlaces
  <2>14. ClientInv'
    <3> SUFFICES ASSUME NEW d \in Clients
                 PROVE  /\ held'[d] \in Pools <=> pc'[d] \in HoldPlaces
                        /\ pc'[d] \in TensorPlaces \/ resume'[d] = "wait_pool" =>
                              call'[d].w \in Tensors
                        /\ pc'[d] = "set_start" \/ resume'[d] = "set_start" =>
                              poolMtx' = d /\ npools' < MaxPools
                        /\ resume'[d] # "idle" => pc'[d] \in {"stop", "join"}
      BY DEF ClientInv
    <3>1. CASE d = c
      <4>1. pc'[d] = "join" BY <3>1, <2>9
      <4> QED BY <4>1, <3>1, <2>8, <2>10 DEF ClientInv, HoldPlaces, TensorPlaces
    <3>2. CASE d # c /\ pc[d] = "wait_sleep" /\ held[d] = p
      <4>1. pc'[d] = "wait_check" BY <3>2, <2>9
      <4> QED BY <4>1, <3>2, <2>8 DEF ClientInv, HoldPlaces, TensorPlaces
    <3>3. CASE d # c /\ ~(pc[d] = "wait_sleep" /\ held[d] = p)
      <4>1. pc'[d] = pc[d] BY <3>3, <2>9
      <4> QED BY <4>1, <2>8 DEF ClientInv
    <3> QED BY <3>1, <3>2, <3>3
  <2> QED BY <2>2, <2>3, <2>11, <2>12, <2>13, <2>14
<1>3. CASE Join(c)
  <2> USE <1>3 DEF Join
  <2>1. EngineType' /\ TicketType' /\ WorkerType' /\ WorkerInv'
    BY DEF EngineType, TicketType, WorkerType, WorkerInv, engineVars, ticketVars, workerVars
  <2>2. poolMtx' = (IF poolMtx = c /\ resume[c] = "idle" THEN None ELSE poolMtx)
        /\ UNCHANGED <<pool, npools, size, shutdown, call>>
    OBVIOUS
  <2>3. PoolType' BY <2>2 DEF PoolType
  <2>4. /\ pc' = [pc EXCEPT ![c] = resume[c]] /\ resume' = [resume EXCEPT ![c] = "idle"]
        /\ held' = [held EXCEPT ![c] = None] /\ pc[c] = "join"
    OBVIOUS
  <2>5. resume[c] \in {"idle", "wait_pool", "set_start"} BY DEF ClientType
  <2>6. ClientType' BY <2>2, <2>4, <2>5 DEF ClientType, ClientPlaces
  <2>7. ClientInv'
    <3> SUFFICES ASSUME NEW d \in Clients
                 PROVE  /\ held'[d] \in Pools <=> pc'[d] \in HoldPlaces
                        /\ pc'[d] \in TensorPlaces \/ resume'[d] = "wait_pool" =>
                              call'[d].w \in Tensors
                        /\ pc'[d] = "set_start" \/ resume'[d] = "set_start" =>
                              poolMtx' = d /\ npools' < MaxPools
                        /\ resume'[d] # "idle" => pc'[d] \in {"stop", "join"}
      BY DEF ClientInv
    <3>1. CASE d = c
      <4>1. pc'[d] = resume[c] /\ resume'[d] = "idle" /\ held'[d] = None
        BY <3>1, <2>4 DEF ClientType
      <4> QED BY <4>1, <3>1, <2>2, <2>5 DEF ClientInv, HoldPlaces, TensorPlaces
    <3>2. CASE d # c
      <4>1. pc'[d] = pc[d] /\ resume'[d] = resume[d] /\ held'[d] = held[d]
        BY <3>2, <2>4 DEF ClientType
      <4>2. poolMtx = d => poolMtx' = d BY <3>2, <2>2
      <4> QED BY <4>1, <4>2, <2>2 DEF ClientInv
    <3> QED BY <3>1, <3>2
  <2> QED BY <2>1, <2>3, <2>6, <2>7
<1> QED BY <1>1, <1>2, <1>3
-----------------------------------------------------------------------------
\* The steps of a worker.
LEMMA WorkerTypeInv ==
    ASSUME TypeInv, NEW p \in Pools, NEW i \in Workers, Worker(p, i) PROVE TypeInv'
<1> USE DEF TypeInv, TypeOK
<1>1. ASSUME NEW place \in WorkerPlaces, WorkerAt(p, i, place),
             place \in {"read", "dec", "publish"} => wjob'[p][i] \in Jobs,
             \A q \in Pools, k \in Workers : <<q, k>> # <<p, i>> => wjob'[q][k] = wjob[q][k],
             wjob' \in [Pools -> [Workers -> Jobs \cup {None}]],
             wdone' \in [Pools -> [Workers -> BOOLEAN]],
             wlast' \in [Pools -> [Workers -> BOOLEAN]]
      PROVE  WorkerType' /\ WorkerInv'
  <2>1. WorkerType' BY <1>1 DEF WorkerAt, WorkerType
  <2>2. ASSUME NEW q \in Pools, NEW k \in Workers, <<q, k>> # <<p, i>>
        PROVE  wpc'[q][k] = wpc[q][k]
    BY <1>1, <2>2 DEF WorkerAt, WorkerType
  <2>3. wpc'[p][i] = place BY <1>1 DEF WorkerAt, WorkerType
  <2> QED BY <1>1, <2>1, <2>2, <2>3 DEF WorkerInv
<1>2. ASSUME UNCHANGED clientVars, UNCHANGED poolVars PROVE PoolType' /\ ClientType' /\ ClientInv'
  <2>1. PoolType' /\ ClientType' BY <1>2 DEF clientVars, poolVars, PoolType, ClientType
  <2>2. ClientInv' BY <1>2 DEF clientVars, poolVars, ClientInv
  <2> QED BY <2>1, <2>2
<1>3. CASE WorkerPop(p, i)
  <2> USE <1>3 DEF WorkerPop
  <2>1. EngineType' /\ UNCHANGED clientVars /\ UNCHANGED poolVars
    BY DEF EngineType, engineVars
  <2>2. UNCHANGED <<pending, tkEpoch, tkTrack, tkReads, wdone, wlast>> OBVIOUS
  <2>3. CASE UNCHANGED <<queue, wjob>> /\ (WorkerAt(p, i, "none") \/ WorkerAt(p, i, "asleep"))
    <3>1. TicketType' BY <2>2, <2>3 DEF TicketType
    <3>2. PICK place \in {"none", "asleep"} : WorkerAt(p, i, place) BY <2>3
    <3>3. WorkerType' /\ WorkerInv' BY <1>1, <2>2, <2>3, <3>2 DEF WorkerPlaces, WorkerType
    <3> QED BY <1>2, <2>1, <3>1, <3>3
  <2>4. CASE queue[p] # <<>> /\ WorkerAt(p, i, "read")
             /\ wjob' = [wjob EXCEPT ![p][i] = Head(queue[p])]
             /\ queue' = [queue EXCEPT ![p] = Tail(@)]
    <3>1. queue[p] \in Seq(Jobs) BY DEF TicketType
    <3>2. Head(queue[p]) \in Jobs /\ Tail(queue[p]) \in Seq(Jobs) BY <2>4, <3>1
    <3>3. TicketType' BY <2>2, <2>4, <3>2 DEF TicketType
    <3>4. wjob' \in [Pools -> [Workers -> Jobs \cup {None}]] /\ wjob'[p][i] \in Jobs
      BY <2>4, <3>2 DEF WorkerType
    <3>5. ASSUME NEW q \in Pools, NEW k \in Workers, <<q, k>> # <<p, i>>
          PROVE  wjob'[q][k] = wjob[q][k]
      BY <2>4, <3>5 DEF WorkerType
    <3>6. WorkerType' /\ WorkerInv' BY <1>1, <2>2, <2>4, <3>4, <3>5 DEF WorkerPlaces, WorkerType
    <3> QED BY <1>2, <2>1, <3>3, <3>6
  <2> QED BY <2>3, <2>4
<1>4. CASE WorkerRead(p, i)
  <2> USE <1>4 DEF WorkerRead
  <2>1. EngineType' /\ TicketType' /\ UNCHANGED clientVars /\ UNCHANGED poolVars
    BY DEF EngineType, engineVars, TicketType, ticketVars
  <2>2. wjob[p][i] \in Jobs /\ wjob' = wjob /\ wlast' = wlast /\ WorkerAt(p, i, "dec")
    BY DEF WorkerInv
  <2>4. wdone' \in [Pools -> [Workers -> BOOLEAN]] BY DEF WorkerType
  <2>3. WorkerType' /\ WorkerInv' BY <1>1, <2>2, <2>4 DEF WorkerPlaces, WorkerType
  <2> QED BY <1>2, <2>1, <2>3
<1>5. CASE WorkerDecrement(p, i)
  <2> USE <1>5 DEF WorkerDecrement
  <2>1. EngineType' /\ UNCHANGED clientVars /\ UNCHANGED poolVars
    BY DEF EngineType, engineVars
  <2>2. wjob[p][i] \in Jobs /\ wjob[p][i].w \in Tensors BY DEF WorkerInv, Jobs
  <2>3. TicketType' BY <2>2 DEF TicketType
  <2>4. LastJob(p, wjob[p][i].w) \in BOOLEAN BY DEF LastJob
  <2>5. wlast' \in [Pools -> [Workers -> BOOLEAN]] BY <2>4 DEF WorkerType
  <2>6. WorkerType' /\ WorkerInv' BY <1>1, <2>2, <2>5 DEF WorkerPlaces, WorkerType
  <2> QED BY <1>2, <2>1, <2>3, <2>6
<1>6. CASE WorkerPublish(p, i)
  <2> USE <1>6 DEF WorkerPublish
  <2>1. EngineType' /\ PoolType' BY DEF EngineType, engineVars, PoolType, poolVars
  <2>2. UNCHANGED <<queue, pending, tkEpoch, tkTrack, call, held, resume, poolMtx, npools>>
    BY DEF poolVars
  <2>3. wjob[p][i] \in Jobs /\ wjob[p][i].w \in Tensors /\ wjob[p][i].c \in Chunks
    BY DEF WorkerInv, Jobs
  <2>4. tkReads' \in [Pools -> [Tensors -> SUBSET Chunks]]
    <3> DEFINE j == wjob[p][i]
    <3>1. tkReads' = tkReads \/ tkReads' = [tkReads EXCEPT ![p][j.w] = @ \cup {j.c}] OBVIOUS
    <3> HIDE DEF j
    <3>2. j.w \in Tensors /\ j.c \in Chunks BY <2>3 DEF j
    <3>3. tkReads[p][j.w] \cup {j.c} \in SUBSET Chunks BY <3>2 DEF TicketType
    <3>6. tkReads \in [Pools -> [Tensors -> SUBSET Chunks]] BY DEF TicketType
    <3>4. CASE tkReads' = tkReads BY <3>4, <3>6
    <3>5. CASE tkReads' = [tkReads EXCEPT ![p][j.w] = @ \cup {j.c}]
      <4> DEFINE v == tkReads[p][j.w] \cup {j.c}
      <4>1. v \in SUBSET Chunks /\ tkReads' = [tkReads EXCEPT ![p][j.w] = v] BY <3>3, <3>5
      <4> HIDE DEF v
      <4>2. [tkReads[p] EXCEPT ![j.w] = v] \in [Tensors -> SUBSET Chunks] BY <3>2, <3>6, <4>1
      <4> QED BY <3>6, <4>1, <4>2
    <3> QED BY <3>1, <3>4, <3>5
  <2>5. TicketType' BY <2>2, <2>4 DEF TicketType
  <2>6. WorkerType' /\ WorkerInv' BY <1>1 DEF WorkerPlaces, WorkerType
  <2>7. CASE WakeWaiters(p) BY <2>1, <2>2, <2>5, <2>6, <2>7, WakeWaitersClient
  <2>8. CASE UNCHANGED pc
    <3>1. ClientType' BY <2>2, <2>8 DEF ClientType
    <3>2. ClientInv' BY <2>2, <2>8 DEF ClientInv
    <3> QED BY <2>1, <2>5, <2>6, <3>1, <3>2
  <2> QED BY <2>7, <2>8
<1> QED BY <1>3, <1>4, <1>5, <1>6 DEF Worker

LEMMA StutterTypeInv == ASSUME TypeInv, UNCHANGED vars PROVE TypeInv'
<1> USE DEF TypeInv, TypeOK, vars, engineVars, poolVars, ticketVars, workerVars, clientVars
<1>1. EngineType' /\ PoolType' BY DEF EngineType, PoolType
<1>2. TicketType' BY DEF TicketType
<1>3. WorkerType' /\ WorkerInv' BY DEF WorkerType, WorkerInv
<1>4. ClientType' BY DEF ClientType
<1>5. ClientInv' BY DEF ClientInv
<1> QED BY <1>1, <1>2, <1>3, <1>4, <1>5

LEMMA NextTypeInv == TypeInv /\ [Next]_vars => TypeInv'
<1>1. ASSUME TypeInv, NEW c \in Clients, Continue(c) PROVE TypeInv'
  BY <1>1, EnqueueType, WaitColdType, LifetimeType DEF Continue
<1> QED BY <1>1, SetupType, TensorCallType, WorkerTypeInv, StutterTypeInv DEF Next

\* TypeOK holds for every number of clients, tensors, units, workers and pools:
\* in particular a queued job names a chunk of its tensor, and a call that needs
\* a pool has one.
THEOREM TypeCorrect == Spec => []TypeOK
<1>1. Init => TypeInv BY InitTypeInv
<1>2. TypeInv /\ [Next]_vars => TypeInv' BY NextTypeInv
<1>3. TypeInv => TypeOK BY DEF TypeInv
<1> QED BY <1>1, <1>2, <1>3, PTL DEF Spec

-----------------------------------------------------------------------------
(* A pool outlives every call that runs on it                              *)

\* A pool that has not been created yet is untouched.
UnusedInv ==
    \A p \in Pools : p > npools =>
        ~shutdown[p] /\ pool # p /\ \A c \in Clients : held[c] # p

\* The thread inside ~prefetch_pool is the only one that can reach the pool.
SoleOwnerInv ==
    \A c \in Clients : pc[c] \in {"stop", "join"} =>
        pool # held[c] /\ \A d \in Clients \ {c} : held[d] # held[c]

Lifetime    == UnusedInv /\ SoleOwnerInv /\ NoCallOnDeadPool
LifetimeInv == TypeInv /\ Lifetime
-----------------------------------------------------------------------------
\* A client that is neither in ~prefetch_pool nor about to be may change place
\* freely, as long as no holder and no pool changes.
LEMMA PlacesOnly ==
    ASSUME TypeInv, Lifetime, UNCHANGED <<pool, npools, shutdown, held>>,
           \A c \in Clients : pc'[c] = pc[c]
                              \/ (pc[c] \notin {"stop", "join"} /\ pc'[c] \notin {"stop", "join"})
    PROVE  Lifetime'
<1>1. UnusedInv' BY DEF Lifetime, UnusedInv
<1>2. SoleOwnerInv' BY DEF Lifetime, SoleOwnerInv
<1>3. NoCallOnDeadPool' BY DEF Lifetime, NoCallOnDeadPool
<1> QED BY <1>1, <1>2, <1>3 DEF Lifetime

\* Dropping a shared_ptr keeps the lifetime invariant: the last holder goes on
\* to ~prefetch_pool and finds the pool its own.
LEMMA DropLifetime ==
    ASSUME TypeInv, Lifetime, NEW c \in Clients, NEW next \in {"idle", "wait_pool"},
           pc[c] \in HoldPlaces \ {"stop", "join"}, Drop(c, next),
           UNCHANGED <<pool, npools, shutdown>>
    PROVE  Lifetime'
<1> USE DEF TypeInv, TypeOK, Lifetime
<1>1. held[c] \in Pools BY DEF ClientInv, HoldPlaces
<1>2. ASSUME NEW d \in Clients \ {c} PROVE pc'[d] = pc[d] /\ held'[d] = held[d]
  BY DEF Drop, ClientType
<1>3. CASE HeldByOthers(held[c], c)
  <2>1. pc'[c] = next /\ held'[c] = None BY <1>3 DEF Drop, ClientType
  <2>2. UnusedInv' BY <1>2, <2>1 DEF UnusedInv
  <2>3. SoleOwnerInv'
    <3> SUFFICES ASSUME NEW d \in Clients, pc'[d] \in {"stop", "join"}
                 PROVE  pool' # held'[d] /\ \A e \in Clients \ {d} : held'[e] # held'[d]
      BY DEF SoleOwnerInv
    <3>1. d # c BY <2>1
    <3>2. pc[d] \in {"stop", "join"} /\ held'[d] = held[d] BY <1>2, <3>1
    <3>3. held[d] \in Pools BY <3>2 DEF ClientInv, HoldPlaces
    <3>4. ASSUME NEW e \in Clients \ {d} PROVE held'[e] # held'[d]
      BY <1>2, <2>1, <3>2, <3>3 DEF SoleOwnerInv
    <3> QED BY <3>2, <3>4 DEF SoleOwnerInv
  <2>4. NoCallOnDeadPool' BY <1>2, <2>1 DEF NoCallOnDeadPool
  <2> QED BY <2>2, <2>3, <2>4
<1>4. CASE ~HeldByOthers(held[c], c)
  <2>1. pc'[c] = "stop" /\ held' = held BY <1>4 DEF Drop, ClientType
  <2>2. UnusedInv' BY <2>1 DEF UnusedInv
  <2>3. pool # held[c] /\ \A d \in Clients \ {c} : held[d] # held[c]
    BY <1>4 DEF HeldByOthers
  <2>4. SoleOwnerInv' BY <1>2, <2>1, <2>3 DEF SoleOwnerInv
  <2>5. \A p \in Pools : shutdown[p] => held[c] # p
    BY DEF NoCallOnDeadPool, HoldPlaces
  <2>6. NoCallOnDeadPool' BY <1>2, <2>1, <2>5 DEF NoCallOnDeadPool
  <2> QED BY <2>2, <2>4, <2>6
<1> QED BY <1>3, <1>4

\* A call gets hold of the engine's pool only, which nobody is destroying.
LEMMA GetPoolLifetime ==
    ASSUME TypeInv, Lifetime, NEW c \in Clients, pc[c] \in {"idle", "wait_pool"},
           NEW place \in {"enq_epoch", "wait_lookup", "cold_take"}, NEW args,
           GetPool(c, place, args), UNCHANGED <<pool, npools, shutdown>>
    PROVE  Lifetime'
<1> USE DEF TypeInv, TypeOK, Lifetime
<1>1. ASSUME NEW d \in Clients \ {c} PROVE pc'[d] = pc[d] /\ held'[d] = held[d]
  BY DEF GetPool, ClientType
<1>2. held'[c] = pool /\ pc'[c] \notin {"stop", "join"} BY DEF GetPool, ClientType
<1>3. UnusedInv' BY <1>1, <1>2 DEF UnusedInv
<1>4. SoleOwnerInv' BY <1>1, <1>2 DEF SoleOwnerInv
<1>5. NoCallOnDeadPool' BY <1>1, <1>2 DEF NoCallOnDeadPool
<1> QED BY <1>3, <1>4, <1>5
-----------------------------------------------------------------------------
LEMMA SetNThreadsLifetime ==
    ASSUME TypeInv, Lifetime, NEW c \in Clients, NEW n \in 0..MaxThreads, SetNThreads(c, n)
    PROVE  Lifetime'
<1> USE DEF TypeInv, TypeOK, Lifetime
<1> DEFINE dies == pool # None /\ \A d \in Clients : held[d] # pool
<1>1. ASSUME NEW d \in Clients \ {c} PROVE pc'[d] = pc[d] /\ held'[d] = held[d]
  BY DEF SetNThreads, ClientType
<1>2. pool' = None /\ npools' = npools /\ shutdown' = shutdown /\ pc[c] = "idle"
  BY DEF SetNThreads
<1>3. CASE dies
  <2>1. pc'[c] = "stop" /\ held'[c] = pool /\ pool \in Pools
    BY <1>3 DEF SetNThreads, ClientType, PoolType
  <2>2. UnusedInv' BY <1>1, <1>2, <2>1 DEF UnusedInv
  <2>3. SoleOwnerInv'
    <3> SUFFICES ASSUME NEW d \in Clients, pc'[d] \in {"stop", "join"}
                 PROVE  pool' # held'[d] /\ \A e \in Clients \ {d} : held'[e] # held'[d]
      BY DEF SoleOwnerInv
    <3>1. CASE d = c BY <3>1, <1>1, <1>2, <1>3, <2>1
    <3>2. CASE d # c
      <4>1. pc[d] \in {"stop", "join"} /\ held'[d] = held[d] BY <3>2, <1>1
      <4>2. held[d] \in Pools BY <4>1 DEF ClientInv, HoldPlaces
      <4> QED BY <1>1, <1>2, <1>3, <2>1, <4>1, <4>2 DEF SoleOwnerInv
    <3> QED BY <3>1, <3>2
  <2>4. NoCallOnDeadPool' BY <1>1, <1>2, <2>1 DEF NoCallOnDeadPool
  <2> QED BY <2>2, <2>3, <2>4
<1>4. CASE ~dies
  <2>1. held'[c] = None /\ pc'[c] \notin {"stop", "join"}
    BY <1>4 DEF SetNThreads, ClientType
  <2>2. UnusedInv' BY <1>1, <1>2, <2>1 DEF UnusedInv
  <2>3. SoleOwnerInv'
    <3> SUFFICES ASSUME NEW d \in Clients, pc'[d] \in {"stop", "join"}
                 PROVE  pool' # held'[d] /\ \A e \in Clients \ {d} : held'[e] # held'[d]
      BY DEF SoleOwnerInv
    <3>1. d # c /\ pc[d] \in {"stop", "join"} /\ held'[d] = held[d] BY <1>1, <2>1
    <3>2. held[d] \in Pools BY <3>1 DEF ClientInv, HoldPlaces
    <3> QED BY <1>1, <1>2, <2>1, <3>1, <3>2 DEF SoleOwnerInv
  <2>4. NoCallOnDeadPool' BY <1>1, <1>2, <2>1 DEF NoCallOnDeadPool
  <2> QED BY <2>2, <2>3, <2>4
<1> QED BY <1>3, <1>4

LEMMA PoolStepsLifetime ==
    ASSUME TypeInv, Lifetime, NEW c \in Clients, SetStart(c) \/ Stop(c) \/ Join(c)
    PROVE  Lifetime'
<1> USE DEF TypeInv, TypeOK, Lifetime
<1>1. CASE SetStart(c)
  <2> DEFINE p == npools + 1
  <2>1. p \in Pools BY <1>1 DEF SetStart, ClientInv, PoolType
  <2>2. pool' = p /\ npools' = p /\ shutdown' = shutdown /\ held' = held
    BY <1>1 DEF SetStart
  <2>3. \A d \in Clients : pc'[d] = pc[d] \/ pc'[d] = "idle"
    BY <1>1 DEF SetStart, ClientType
  <2>4. p > npools /\ \A q \in Pools : q > p => q > npools BY DEF PoolType
  <2> HIDE DEF p
  <2>5. ~shutdown[p] /\ \A d \in Clients : held[d] # p BY <2>1, <2>4 DEF UnusedInv
  <2>6. UnusedInv'
    <3> SUFFICES ASSUME NEW q \in Pools, q > p
                 PROVE  ~shutdown[q] /\ p # q /\ \A d \in Clients : held[d] # q
      BY <2>2 DEF UnusedInv
    <3>1. q > npools BY <2>4
    <3>2. p # q BY <2>1
    <3> QED BY <3>1, <3>2 DEF UnusedInv
  <2>7. SoleOwnerInv' BY <2>2, <2>3, <2>5 DEF SoleOwnerInv
  <2>8. NoCallOnDeadPool'
    <3> SUFFICES ASSUME NEW q \in Pools, shutdown[q]
                 PROVE  p # q /\ \A d \in Clients : held[d] = q => pc'[d] = "join"
      BY <2>2 DEF NoCallOnDeadPool
    <3>1. p # q BY <2>5
    <3>2. ASSUME NEW d \in Clients, held[d] = q PROVE pc'[d] = "join"
      <4>1. pc[d] = "join" BY <3>2 DEF NoCallOnDeadPool
      <4>2. d # c BY <1>1, <4>1 DEF SetStart
      <4> QED BY <1>1, <4>1, <4>2 DEF SetStart, ClientType
    <3> QED BY <3>1, <3>2
  <2> QED BY <2>6, <2>7, <2>8
<1>2. CASE Stop(c)
  <2> DEFINE p == held[c]
  <2>1. pc[c] = "stop" /\ p \in Pools BY <1>2 DEF Stop, ClientInv, HoldPlaces
  <2>2. shutdown' = [shutdown EXCEPT ![p] = TRUE] /\ UNCHANGED <<pool, npools, held>>
    BY <1>2 DEF Stop
  <2>3. pc'[c] = "join" /\ \A d \in Clients \ {c} :
           pc'[d] = pc[d] \/ (pc[d] = "wait_sleep" /\ pc'[d] = "wait_check")
    BY <1>2 DEF Stop
  <2>4. pool # p /\ \A d \in Clients \ {c} : held[d] # p BY <2>1 DEF SoleOwnerInv
  <2>5. UnusedInv'
    <3> SUFFICES ASSUME NEW q \in Pools, q > npools
                 PROVE  ~shutdown'[q] /\ pool # q /\ \A d \in Clients : held[d] # q
      BY <2>2 DEF UnusedInv
    <3>1. ~shutdown[q] /\ pool # q /\ \A d \in Clients : held[d] # q BY DEF UnusedInv
    <3>2. shutdown'[q] = shutdown[q] BY <2>2, <3>1 DEF PoolType
    <3> QED BY <3>1, <3>2
  <2>6. SoleOwnerInv' BY <2>1, <2>2, <2>3 DEF SoleOwnerInv
  <2>7. NoCallOnDeadPool'
    <3> SUFFICES ASSUME NEW q \in Pools, shutdown'[q]
                 PROVE  pool # q /\ \A d \in Clients : held[d] = q => pc'[d] = "join"
      BY <2>2 DEF NoCallOnDeadPool
    <3>1. CASE q = p BY <3>1, <2>3, <2>4
    <3>2. CASE q # p
      <4>1. shutdown[q] BY <2>2, <3>2 DEF PoolType
      <4> QED BY <2>3, <4>1 DEF NoCallOnDeadPool
    <3> QED BY <3>1, <3>2
  <2> QED BY <2>5, <2>6, <2>7
<1>3. CASE Join(c)
  <2>1. UNCHANGED <<pool, npools, shutdown>> BY <1>3 DEF Join
  <2>2. held'[c] = None /\ pc'[c] \notin {"stop", "join"} BY <1>3 DEF Join, ClientType
  <2>3. ASSUME NEW d \in Clients \ {c} PROVE pc'[d] = pc[d] /\ held'[d] = held[d]
    BY <1>3 DEF Join, ClientType
  <2>4. UnusedInv' BY <2>1, <2>2, <2>3 DEF UnusedInv
  <2>5. SoleOwnerInv'
    <3> SUFFICES ASSUME NEW d \in Clients, pc'[d] \in {"stop", "join"}
                 PROVE  pool' # held'[d] /\ \A e \in Clients \ {d} : held'[e] # held'[d]
      BY DEF SoleOwnerInv
    <3>1. d # c /\ pc[d] \in {"stop", "join"} /\ held'[d] = held[d] BY <2>2, <2>3
    <3>2. held[d] \in Pools BY <3>1 DEF ClientInv, HoldPlaces
    <3> QED BY <2>1, <2>2, <2>3, <3>1, <3>2 DEF SoleOwnerInv
  <2>6. NoCallOnDeadPool' BY <2>1, <2>2, <2>3 DEF NoCallOnDeadPool
  <2> QED BY <2>4, <2>5, <2>6
<1> QED BY <1>1, <1>2, <1>3
-----------------------------------------------------------------------------
\* Any other step of a call or of a worker: places only.
LEMMA CallStepsLifetime ==
    ASSUME TypeInv, Lifetime, NEW c \in Clients,
           \/ EnqueueReadEpoch(c) \/ EnqueueRefused(c) \/ EnqueueRanges(c)
           \/ WaitGetPool(c) \/ WaitLookup(c) \/ WaitCheck(c)
           \/ ColdTake(c) \/ ColdApply(c)
    PROVE  Lifetime'
<1> USE DEF TypeInv, TypeOK
<1>1. AfterEnqueue(c) \in {"idle", "wait_pool"} BY DEF AfterEnqueue
<1>2. UNCHANGED <<pool, npools, shutdown>>
  BY DEF EnqueueReadEpoch, EnqueueRefused, EnqueueRanges, WaitGetPool, WaitLookup, WaitCheck,
     ColdTake, ColdApply, poolVars
<1>3. ASSUME NEW next \in {"idle", "wait_pool"}, Drop(c, next),
             pc[c] \in HoldPlaces \ {"stop", "join"}
      PROVE  Lifetime'
  BY <1>2, <1>3, DropLifetime
<1>4. ASSUME NEW place \in HoldPlaces \ {"stop", "join"}, held' = held,
             pc' = [pc EXCEPT ![c] = place], pc[c] \notin {"stop", "join"}
      PROVE  Lifetime'
  BY <1>2, <1>4, PlacesOnly DEF ClientType
<1>5. CASE EnqueueReadEpoch(c)
  BY <1>3, <1>4, <1>5 DEF EnqueueReadEpoch, HoldPlaces
<1>6. CASE EnqueueRefused(c) BY <1>1, <1>3, <1>6 DEF EnqueueRefused, HoldPlaces
<1>7. CASE EnqueueRanges(c) BY <1>1, <1>3, <1>7 DEF EnqueueRanges, HoldPlaces
<1>8. CASE WaitGetPool(c) BY <1>2, <1>8, GetPoolLifetime DEF WaitGetPool
<1>9. CASE WaitLookup(c) BY <1>3, <1>4, <1>9 DEF WaitLookup, HoldPlaces
<1>10. CASE WaitCheck(c) BY <1>3, <1>4, <1>10 DEF WaitCheck, HoldPlaces
<1>11. CASE ColdTake(c) BY <1>3, <1>4, <1>11 DEF ColdTake, HoldPlaces
<1>12. CASE ColdApply(c) BY <1>3, <1>12 DEF ColdApply, HoldPlaces
<1> QED BY <1>5, <1>6, <1>7, <1>8, <1>9, <1>10, <1>11, <1>12

LEMMA WorkerLifetime ==
    ASSUME TypeInv, Lifetime, NEW p \in Pools, NEW i \in Workers, Worker(p, i)
    PROVE  Lifetime'
<1>1. UNCHANGED <<pool, npools, shutdown, held>>
  BY DEF Worker, WorkerPop, WorkerRead, WorkerDecrement, WorkerPublish, poolVars, clientVars
<1>2. pc' = pc \/ WakeWaiters(p)
  BY DEF Worker, WorkerPop, WorkerRead, WorkerDecrement, WorkerPublish, clientVars
<1>3. \A c \in Clients : pc'[c] = pc[c] \/ (pc[c] = "wait_sleep" /\ pc'[c] = "wait_check")
  BY <1>2 DEF WakeWaiters
<1> QED BY <1>1, <1>3, PlacesOnly

LEMMA NewCallLifetime ==
    ASSUME TypeInv, Lifetime, NEW c \in Clients,
           Setup(c) \/ \E w \in Tensors : TensorCall(c, w)
    PROVE  Lifetime'
<1>1. ASSUME NewEpoch(c) \/ RegisterMapping(c) \/ UnregisterMapping(c) PROVE Lifetime'
  <2>1. UNCHANGED <<poolVars, clientVars>>
    BY <1>1 DEF NewEpoch, RegisterMapping, UnregisterMapping
  <2>2. UNCHANGED <<pool, npools, shutdown, held, pc>> BY <2>1 DEF poolVars, clientVars
  <2> QED BY <2>2, PlacesOnly
<1>2. CASE \E n \in 0..MaxThreads : SetNThreads(c, n) BY <1>2, SetNThreadsLifetime
<1>3. ASSUME NEW op, NEW w, NEW cs, CallEnqueue(c, op, w, cs) PROVE Lifetime'
  <2>1. UNCHANGED <<pool, npools, shutdown>> BY <1>3 DEF CallEnqueue, poolVars
  <2>2. GetPool(c, "enq_epoch", NewCall(op, w, cs, 0)) /\ pc[c] = "idle"
    BY <1>3 DEF CallEnqueue
  <2> QED BY <2>1, <2>2, GetPoolLifetime
<1>4. ASSUME NEW w, CallWait(c, w) \/ CallCold(c, w) PROVE Lifetime'
  BY <1>4, GetPoolLifetime DEF CallWait, CallCold, poolVars
<1> QED BY <1>1, <1>2, <1>3, <1>4
        DEF Setup, TensorCall, PrefetchTensor, PrefetchNode, PrefetchExperts

LEMMA InitLifetimeInv == Init => LifetimeInv
<1>1. Init => Lifetime BY DEF Init, Lifetime, UnusedInv, SoleOwnerInv, NoCallOnDeadPool
<1> QED BY <1>1, InitTypeInv DEF LifetimeInv

LEMMA NextLifetimeInv == LifetimeInv /\ [Next]_vars => LifetimeInv'
<1> SUFFICES ASSUME LifetimeInv, [Next]_vars PROVE LifetimeInv' OBVIOUS
<1> USE DEF LifetimeInv
<1>1. TypeInv' BY NextTypeInv
<1>2. ASSUME UNCHANGED vars PROVE Lifetime'
  <2>1. UNCHANGED <<poolVars, clientVars>> BY <1>2 DEF vars
  <2>2. UNCHANGED <<pool, npools, shutdown, held, pc>> BY <2>1 DEF poolVars, clientVars
  <2> QED BY <2>2, PlacesOnly
<1>3. ASSUME NEW c \in Clients, Continue(c) PROVE Lifetime'
  BY <1>3, CallStepsLifetime, PoolStepsLifetime DEF Continue
<1>4. ASSUME Next PROVE Lifetime'
  <2>1. CASE \E c \in Clients : Setup(c) BY <2>1, NewCallLifetime
  <2>2. CASE \E c \in Clients, w \in Tensors : TensorCall(c, w) BY <2>2, NewCallLifetime
  <2>3. CASE \E c \in Clients : Continue(c) BY <2>3, <1>3
  <2>4. CASE \E p \in Pools, i \in Workers : Worker(p, i) BY <2>4, WorkerLifetime
  <2> QED BY <1>4, <2>1, <2>2, <2>3, <2>4 DEF Next
<1> QED BY <1>1, <1>2, <1>4

\* A pool is shut down only when no call and no later call can reach it: the
\* shared_ptr copies keep it alive (SoleOwnerInv), and pool numbers are fresh
\* (UnusedInv).
THEOREM PoolOutlivesCalls == Spec => []NoCallOnDeadPool
<1>1. Init => LifetimeInv BY InitLifetimeInv
<1>2. LifetimeInv /\ [Next]_vars => LifetimeInv' BY NextLifetimeInv
<1>3. LifetimeInv => NoCallOnDeadPool BY DEF LifetimeInv, Lifetime
<1> QED BY <1>1, <1>2, <1>3, PTL DEF Spec
=============================================================================
