---------------------------- MODULE MoePrefetch ----------------------------
(***************************************************************************)
(* The expert read-ahead engine: a pool of worker threads that fault       *)
(* memory-mapped expert weights into the page cache, the per-tensor        *)
(* tickets that let a consumer wait for a tensor's outstanding work, and   *)
(* the calls a graph scheduler or a context makes on the engine.           *)
(*                                                                         *)
(* A tensor is a sequence of NChunks read units (one expert slice is one   *)
(* unit here; the code splits a slice further, into 2 MiB pieces).  One    *)
(* action is one critical section, one atomic operation or one system      *)
(* call: whatever the code does outside its locks is a step of its own,    *)
(* so every interleaving of workers and callers is explored.               *)
(*                                                                         *)
(* Page-cache contents belong to the kernel, which may evict or fault in   *)
(* any page at any time: a worker's residency probe and its populate call  *)
(* therefore return any outcome.                                           *)
(***************************************************************************)
EXTENDS Integers, Sequences, FiniteSets

CONSTANTS
    Clients,     \* threads that call the engine (contexts, backend threads)
    Tensors,     \* expert weight tensors
    NChunks,     \* read units of one tensor
    MaxThreads,  \* largest worker count asked for
    MaxQueue,    \* GGML_MOE_PREFETCH_MAX_QUEUE
    MaxEpoch,    \* bound: scheduler passes explored
    MaxPools,    \* bound: worker pools ever created
    None         \* no client, no pool, no job

ASSUME NChunksAssumption    == NChunks \in Nat
ASSUME MaxThreadsAssumption == MaxThreads \in Nat
ASSUME MaxQueueAssumption   == MaxQueue \in Nat
ASSUME MaxEpochAssumption   == MaxEpoch \in Nat
ASSUME MaxPoolsAssumption   == MaxPools \in Nat
ASSUME FiniteAssumption     == IsFiniteSet(Clients) /\ IsFiniteSet(Tensors)
ASSUME NoneAssumption       == None \notin Clients /\ None \notin 1..MaxPools

Chunks  == 1..NChunks
Pools   == 1..MaxPools
Workers == 1..MaxThreads

\* What one queued job carries.  g numbers the enqueue that made the job, e is
\* the pass it was made for and urgent its class: g, e and urgent are history.
Jobs == [w : Tensors, c : Chunks, g : Nat, e : Nat, urgent : BOOLEAN]

\* Orders in which a set of chunks can be queued.
Orders(S) == { s \in [1..Cardinality(S) -> S] :
                 \A i, j \in 1..Cardinality(S) : s[i] = s[j] => i = j }

Ascending(s) == \A i, j \in DOMAIN s : i < j => s[i] < s[j]

VARIABLES
    epoch,       \* prefetch_state::epoch
    registered,  \* the model's mapping is in prefetch_state::mappings
    pinned,      \* resident_ranges: [Tensors -> SUBSET Chunks]
    pool,        \* prefetch_state::pool, or None
    poolMtx,     \* the client inside set_n_threads, or None
    npools,      \* pools created so far
    size,        \* workers.size() of each pool
    shutdown,    \* prefetch_pool::shutdown
    queue,       \* prefetch_pool::queue
    pending,     \* ticket::pending, per pool and tensor
    tkEpoch,     \* ticket::epoch (0: no ticket, or one never issued)
    tkTrack,     \* ticket::track_reads
    tkReads,     \* ticket::read_chunks
    gen,         \* history: enqueues accepted per pool and tensor
    wpc, wjob, wdone, wlast,          \* a worker: place, job, done_read, left == 1
    pc, held, call, resume  \* a client: place, pool_sp, arguments and locals of
                            \* its call, where it goes on after ~prefetch_pool

engineVars == <<epoch, registered, pinned, gen>>
poolVars   == <<pool, poolMtx, npools, size, shutdown>>
ticketVars == <<queue, pending, tkEpoch, tkTrack, tkReads>>
workerVars == <<wpc, wjob, wdone, wlast>>
clientVars == <<pc, held, call, resume>>
vars       == <<engineVars, poolVars, ticketVars, workerVars, clientVars>>

\* A call: operation, tensor, chunks to read, thread count; and its locals:
\* cur_epoch of enqueue_ranges, the chunks ggml_moe_prefetch_cold took.
NewCall(op, w, cs, n) ==
    [op |-> op, w |-> w, cs |-> cs, n |-> n, epoch |-> 0, taken |-> {}]
NoCall == NewCall("none", None, <<>>, 0)

Calls == [op : {"none", "tensor", "node", "experts", "wait", "cold", "set"},
          w : Tensors \cup {None}, cs : Seq(Chunks), n : 0..MaxThreads,
          epoch : Nat, taken : SUBSET Chunks]

ClientPlaces ==
    {"idle", "enq_epoch", "enq_lock", "wait_pool", "wait_lookup", "wait_check",
     "wait_sleep", "cold_take", "cold_apply", "set_start", "stop", "join"}
WorkerPlaces == {"none", "lock", "asleep", "read", "dec", "publish"}

\* Jobs a pool still owes: queued, or taken by a worker that has not yet
\* decremented the ticket.
JobsIn(q)  == { q[k] : k \in 1..Len(q) }
Busy(p)    == { i \in Workers : wpc[p][i] \in {"read", "dec"} }
InFlight(p) == { wjob[p][i] : i \in Busy(p) }
Outstanding(p, w) == { j \in JobsIn(queue[p]) \cup InFlight(p) : j.w = w }

\* Whether the pool's shared_ptr has copies beside d's own.
HeldByCallers(p, d) == \E c \in Clients \ {d} : held[c] = p  \* mutant: the engine keeps a weak_ptr
HeldByOthers(p, d) == pool = p \/ \E c \in Clients \ {d} : held[c] = p
-----------------------------------------------------------------------------
Init ==
    /\ epoch = 1
    /\ registered = FALSE
    /\ pinned = [w \in Tensors |-> {}]
    /\ gen = [p \in Pools |-> [w \in Tensors |-> 0]]
    /\ pool = None /\ poolMtx = None /\ npools = 0
    /\ size = [p \in Pools |-> 0]
    /\ shutdown = [p \in Pools |-> FALSE]
    /\ queue = [p \in Pools |-> <<>>]
    /\ pending = [p \in Pools |-> [w \in Tensors |-> 0]]
    /\ tkEpoch = [p \in Pools |-> [w \in Tensors |-> 0]]
    /\ tkTrack = [p \in Pools |-> [w \in Tensors |-> FALSE]]
    /\ tkReads = [p \in Pools |-> [w \in Tensors |-> {}]]
    /\ wpc = [p \in Pools |-> [i \in Workers |-> "none"]]
    /\ wjob = [p \in Pools |-> [i \in Workers |-> None]]
    /\ wdone = [p \in Pools |-> [i \in Workers |-> FALSE]]
    /\ wlast = [p \in Pools |-> [i \in Workers |-> FALSE]]
    /\ pc = [c \in Clients |-> "idle"]
    /\ call = [c \in Clients |-> NoCall]
    /\ held = [c \in Clients |-> None]
    /\ resume = [c \in Clients |-> "idle"]
-----------------------------------------------------------------------------
(***************************************************************************)
(* Leaving a call drops its shared_ptr.  The thread that drops the last    *)
(* one runs ~prefetch_pool, that is stop(): Stop and Join below.           *)
(***************************************************************************)
Drop(c, next) ==
    LET last == ~HeldByOthers(held[c], c)
    IN  /\ pc' = [pc EXCEPT ![c] = IF last THEN "stop" ELSE next]
        /\ resume' = [resume EXCEPT ![c] = IF last THEN next ELSE "idle"]
        /\ held' = IF last THEN held ELSE [held EXCEPT ![c] = None]
        /\ call' = IF next = "idle" THEN [call EXCEPT ![c] = NoCall] ELSE call

\* Where a call goes on once enqueue_ranges has returned true.
AfterEnqueue(c) == IF call[c].op = "experts" THEN "wait_pool" ELSE "idle"

\* The start of enqueue_ranges: copy the pool pointer.  Without a pool the
\* callers fall back to madvise hints, which leave no state here.
GetPool(c, place, arguments) ==
    /\ poolMtx = None
    /\ held' = [held EXCEPT ![c] = pool]
    /\ pc' = [pc EXCEPT ![c] = IF pool = None THEN "idle" ELSE place]
    /\ call' = [call EXCEPT ![c] = IF pool = None THEN NoCall ELSE arguments]
    /\ UNCHANGED resume

CallEnqueue(c, op, w, cs) ==
    /\ pc[c] = "idle"
    /\ GetPool(c, "enq_epoch", NewCall(op, w, cs, 0))
    /\ UNCHANGED <<epoch, registered, gen, poolVars, ticketVars, workerVars>>

\* ggml_moe_prefetch_tensor: the whole tensor but its pinned slices, in order.
PrefetchTensor(c, w) ==
    /\ \E cs \in Orders(Chunks \ pinned[w]) :
          Ascending(cs) /\ CallEnqueue(c, "tensor", w, cs)
    /\ UNCHANGED pinned

\* ggml_moe_prefetch_node, for one weight of the node: the experts that the
\* router selected, in expert order.
PrefetchNode(c, w, selected) ==
    /\ \E cs \in Orders(selected) :
          Ascending(cs) /\ CallEnqueue(c, "node", w, cs)
    /\ UNCHANGED pinned

\* ggml_moe_prefetch_experts: pin the slices of the manifest, then queue them
\* in the manifest's order; the call goes on to wait for them.
PrefetchExperts(c, w, cs) ==
    /\ Len(cs) > 0
    /\ CallEnqueue(c, "experts", w, cs)
    /\ pinned' = [pinned EXCEPT ![w] = { cs[k] : k \in 1..Len(cs) }]

\* enqueue_ranges, between the two locks: is_mapped and the load of the epoch.
EnqueueReadEpoch(c) ==
    /\ pc[c] = "enq_epoch"
    /\ \/ /\ ~registered
          /\ Drop(c, "idle")
       \/ /\ registered
          /\ call' = [call EXCEPT ![c].epoch = epoch]
          /\ pc' = [pc EXCEPT ![c] = "enq_lock"]
          /\ UNCHANGED <<held, resume>>
    /\ UNCHANGED <<engineVars, poolVars, ticketVars, workerVars>>

\* Jobs for the units of a call, in the call's order.
NewJobsPastEnd(c, g) ==  \* mutant: one unit too far
    [k \in 1..Len(call[c].cs) |->
        [w |-> call[c].w, c |-> call[c].cs[k] + 1, g |-> g, e |-> call[c].epoch,
         urgent |-> call[c].op = "node"]]
NewJobs(c, g) ==
    [k \in 1..Len(call[c].cs) |->
        [w |-> call[c].w, c |-> call[c].cs[k], g |-> g, e |-> call[c].epoch,
         urgent |-> call[c].op = "node"]]

\* Wakes every idle worker of pool p (cv_work.notify_all).
WakeNobody(p) == UNCHANGED wpc  \* mutant: the notification is forgotten
WakeWorkers(p) ==
    wpc' = [wpc EXCEPT ![p] =
              [i \in Workers |-> IF @[i] = "asleep" THEN "lock" ELSE @[i]]]

\* The ticket was issued for this scheduler pass already.
ReissuedFreely(c) == FALSE  \* mutant
AlreadyIssued(c) == tkEpoch[held[c]][call[c].w] = call[c].epoch

\* Only urgent work may enter a queue above its limit.
NeverFull(c) == FALSE  \* mutant
QueueFull(c) == call[c].op # "node" /\ Len(queue[held[c]]) > MaxQueue

\* Urgent jobs go ahead of everything queued, others behind it.
InsertBehind(js, q, urgent) == q \o js  \* mutant
Insert(js, q, urgent) == IF urgent THEN js \o q ELSE q \o js

\* The early returns under pool.mtx: the pool is going down, the ticket was
\* issued for this pass already, or lookahead work meets a full queue.
EnqueueRefused(c) ==
    /\ pc[c] = "enq_lock"
    /\ \/ shutdown[held[c]] /\ Drop(c, "idle")
       \/ /\ ~shutdown[held[c]]
          /\ AlreadyIssued(c) \/ QueueFull(c)
          /\ Drop(c, AfterEnqueue(c))
    /\ UNCHANGED <<engineVars, poolVars, ticketVars, workerVars>>

\* The critical section of enqueue_ranges: restart the ticket for this pass
\* and queue its jobs.
EnqueueRanges(c) ==
    /\ pc[c] = "enq_lock"
    /\ ~shutdown[held[c]] /\ ~AlreadyIssued(c) /\ ~QueueFull(c)
    /\ LET p  == held[c]
           w  == call[c].w
           js == NewJobs(c, gen[p][w] + 1)
       IN  /\ tkEpoch' = [tkEpoch EXCEPT ![p][w] = call[c].epoch]
           /\ tkTrack' = [tkTrack EXCEPT ![p][w] = call[c].op = "tensor"]
           /\ tkReads' = [tkReads EXCEPT ![p][w] = {}]
           /\ pending' = [pending EXCEPT ![p][w] = @ + Len(js)]
           /\ queue' = [queue EXCEPT ![p] = Insert(js, @, call[c].op = "node")]
           /\ gen' = [gen EXCEPT ![p][w] = @ + 1]
           /\ IF js = <<>> THEN UNCHANGED wpc ELSE WakeWorkers(p)
    /\ Drop(c, AfterEnqueue(c))
    /\ UNCHANGED <<epoch, registered, pinned, poolVars, wjob, wdone, wlast>>
-----------------------------------------------------------------------------
\* ggml_moe_prefetch_wait called on its own.
CallWait(c, w) ==
    /\ pc[c] = "idle"
    /\ GetPool(c, "wait_lookup", NewCall("wait", w, <<>>, 0))
    /\ UNCHANGED <<engineVars, poolVars, ticketVars, workerVars>>

\* The same from prefetch_experts, which takes the pool pointer afresh.
WaitGetPool(c) ==
    /\ pc[c] = "wait_pool"
    /\ GetPool(c, "wait_lookup", call[c])
    /\ UNCHANGED <<engineVars, poolVars, ticketVars, workerVars>>

\* Find the ticket and read its counter without the lock: nothing pending (or
\* no ticket) returns at once.
WaitLookup(c) ==
    /\ pc[c] = "wait_lookup"
    /\ \/ /\ pending[held[c]][call[c].w] <= 0
          /\ Drop(c, "idle")
       \/ /\ pending[held[c]][call[c].w] > 0
          /\ pc' = [pc EXCEPT ![c] = "wait_check"]
          /\ UNCHANGED <<held, call, resume>>
    /\ UNCHANGED <<engineVars, poolVars, ticketVars, workerVars>>

\* The predicate of cv_done.wait.
WaitReadyEarly(c) == shutdown[held[c]] \/ pending[held[c]][call[c].w] <= 1  \* mutant
WaitReady(c) == shutdown[held[c]] \/ pending[held[c]][call[c].w] <= 0

\* cv_done.wait: evaluate the predicate under the lock and either return or
\* go to sleep, releasing the lock in the same step.
WaitCheck(c) ==
    /\ pc[c] = "wait_check"
    /\ \/ /\ WaitReady(c)
          /\ Drop(c, "idle")
       \/ /\ ~WaitReady(c)
          /\ pc' = [pc EXCEPT ![c] = "wait_sleep"]
          /\ UNCHANGED <<held, call, resume>>
    /\ UNCHANGED <<engineVars, poolVars, ticketVars, workerVars>>

\* cv_done.notify_all: the clients asleep on pool p evaluate again.
WakeWaiters(p) ==
    pc' = [c \in Clients |-> IF pc[c] = "wait_sleep" /\ held[c] = p
                             THEN "wait_check" ELSE pc[c]]
-----------------------------------------------------------------------------
\* ggml_moe_prefetch_cold: take the chunks the workers read, then, outside the
\* lock, hand them to MADV_COLD.
CallCold(c, w) ==
    /\ pc[c] = "idle"
    /\ GetPool(c, "cold_take", NewCall("cold", w, <<>>, 0))
    /\ UNCHANGED <<engineVars, poolVars, ticketVars, workerVars>>

ColdTake(c) ==
    /\ pc[c] = "cold_take"
    /\ LET p == held[c]  w == call[c].w
       IN  \/ /\ ~tkTrack[p][w]
              /\ Drop(c, "idle")
              /\ UNCHANGED tkReads
           \/ /\ tkTrack[p][w]
              /\ call' = [call EXCEPT ![c].taken = tkReads[p][w]]
              /\ tkReads' = [tkReads EXCEPT ![p][w] = {}]
              /\ pc' = [pc EXCEPT ![c] = "cold_apply"]
              /\ UNCHANGED <<held, resume>>
    /\ UNCHANGED <<engineVars, poolVars, workerVars, queue, pending, tkEpoch, tkTrack>>

ColdApply(c) ==
    /\ pc[c] = "cold_apply"
    /\ Drop(c, "idle")
    /\ UNCHANGED <<engineVars, poolVars, ticketVars, workerVars>>
-----------------------------------------------------------------------------
\* ggml_moe_prefetch_new_epoch.
NewEpoch(c) ==
    /\ pc[c] = "idle"
    /\ epoch < MaxEpoch
    /\ epoch' = epoch + 1
    /\ UNCHANGED <<registered, pinned, gen, poolVars, ticketVars, workerVars, clientVars>>

\* ggml_moe_prefetch_register_mapping / _unregister_mapping of the model that
\* holds the tensors.  Unregistering drops the pinned ranges, never the
\* tickets nor the jobs, whose madvise then fails.
RegisterMapping(c) ==
    /\ pc[c] = "idle"
    /\ registered' = TRUE
    /\ UNCHANGED <<epoch, pinned, gen, poolVars, ticketVars, workerVars, clientVars>>

UnregisterMapping(c) ==
    /\ pc[c] = "idle"
    /\ registered
    /\ registered' = FALSE
    /\ pinned' = [w \in Tensors |-> {}]
    /\ UNCHANGED <<epoch, gen, poolVars, ticketVars, workerVars, clientVars>>
-----------------------------------------------------------------------------
(***************************************************************************)
(* ggml_moe_prefetch_set_n_threads.  n = 0 stands for "no pool wanted" and *)
(* for a kernel without MADV_POPULATE_READ.  pool_mtx is held until the    *)
(* old pool is gone and the new one runs; the old pool dies here only if   *)
(* no client still holds it.                                               *)
(***************************************************************************)
SetNThreads(c, n) ==
    /\ pc[c] = "idle"
    /\ poolMtx = None
    /\ pool = None => n > 0
    /\ pool # None => n # size[pool]
    /\ n > 0 => npools < MaxPools
    /\ LET dies == pool # None /\ \A d \in Clients : held[d] # pool
           next == IF n > 0 THEN "set_start" ELSE "idle"
       IN  /\ pc' = [pc EXCEPT ![c] = IF dies THEN "stop" ELSE next]
           /\ resume' = [resume EXCEPT ![c] = IF dies THEN next ELSE "idle"]
           /\ held' = [held EXCEPT ![c] = IF dies THEN pool ELSE None]
           /\ poolMtx' = IF dies \/ n > 0 THEN c ELSE None
           /\ call' = [call EXCEPT ![c] = IF n > 0 THEN NewCall("set", None, <<>>, n) ELSE NoCall]
    /\ pool' = None
    /\ UNCHANGED <<engineVars, npools, size, shutdown, ticketVars, workerVars>>

\* prefetch_pool::start: n workers enter run(), and the pool is published.
SetStart(c) ==
    /\ pc[c] = "set_start"
    /\ LET p == npools + 1
       IN  /\ npools' = p
           /\ pool' = p
           /\ size' = [size EXCEPT ![p] = call[c].n]
           /\ wpc' = [wpc EXCEPT ![p] =
                        [i \in Workers |-> IF i <= call[c].n THEN "lock" ELSE "none"]]
    /\ poolMtx' = None
    /\ pc' = [pc EXCEPT ![c] = "idle"]
    /\ call' = [call EXCEPT ![c] = NoCall]
    /\ UNCHANGED <<engineVars, shutdown, ticketVars, wjob, wdone, wlast, held, resume>>

\* Queued jobs of a tensor, whose ticket stop() completes unread.
DroppedUncounted(p, w) == 0  \* mutant
Dropped(p, w) == Cardinality({j \in JobsIn(queue[p]) : j.w = w})

\* prefetch_pool::stop, locked part: complete the tickets of queued jobs, drop
\* the queue and wake everyone.
Stop(c) ==
    /\ pc[c] = "stop"
    /\ LET p == held[c]
       IN  /\ shutdown' = [shutdown EXCEPT ![p] = TRUE]
           /\ pending' = [pending EXCEPT ![p] = [w \in Tensors |-> @[w] - Dropped(p, w)]]
           /\ queue' = [queue EXCEPT ![p] = <<>>]
           /\ WakeWorkers(p)
           /\ pc' = [d \in Clients |->
                       IF d = c THEN "join"
                       ELSE IF pc[d] = "wait_sleep" /\ held[d] = p THEN "wait_check"
                       ELSE pc[d]]
    /\ UNCHANGED <<engineVars, pool, poolMtx, npools, size, tkEpoch, tkTrack, tkReads,
                   wjob, wdone, wlast, call, held, resume>>

\* prefetch_pool::stop, after the lock: join the workers.
Join(c) ==
    /\ pc[c] = "join"
    /\ \A i \in Workers : wpc[held[c]][i] = "none"
    /\ pc' = [pc EXCEPT ![c] = resume[c]]
    /\ resume' = [resume EXCEPT ![c] = "idle"]
    /\ held' = [held EXCEPT ![c] = None]
    /\ poolMtx' = IF poolMtx = c /\ resume[c] = "idle" THEN None ELSE poolMtx
    /\ UNCHANGED <<engineVars, pool, npools, size, shutdown, ticketVars, workerVars, call>>
-----------------------------------------------------------------------------
(***************************************************************************)
(* prefetch_pool::run, one worker i of pool p.                             *)
(***************************************************************************)
WorkerAt(p, i, place) == wpc' = [wpc EXCEPT ![p][i] = place]

\* Under the lock: exit, sleep on cv_work, or take the front job.
WorkerPop(p, i) ==
    /\ wpc[p][i] = "lock"
    /\ \/ /\ shutdown[p]
          /\ WorkerAt(p, i, "none")
          /\ UNCHANGED <<queue, wjob>>
       \/ /\ ~shutdown[p] /\ queue[p] = <<>>
          /\ WorkerAt(p, i, "asleep")
          /\ UNCHANGED <<queue, wjob>>
       \/ /\ ~shutdown[p] /\ queue[p] # <<>>
          /\ WorkerAt(p, i, "read")
          /\ wjob' = [wjob EXCEPT ![p][i] = Head(queue[p])]
          /\ queue' = [queue EXCEPT ![p] = Tail(@)]
    /\ UNCHANGED <<engineVars, poolVars, pending, tkEpoch, tkTrack, tkReads,
                   wdone, wlast, clientVars>>

\* chunk_resident, then madvise(MADV_POPULATE_READ) unless every page was there:
\* done_read only if the populate ran and succeeded.  Both are answers of the
\* kernel and nothing of the engine's changes between them.
WorkerRead(p, i) ==
    /\ wpc[p][i] = "read"
    /\ WorkerAt(p, i, "dec")
    /\ \E ok \in BOOLEAN : wdone' = [wdone EXCEPT ![p][i] = ok]
    /\ UNCHANGED <<engineVars, poolVars, ticketVars, wjob, wlast, clientVars>>

\* left == 1: the value fetch_sub returned says this was the last job.
LastByNewValue(p, w) == pending[p][w] = 0  \* mutant: compares the wrong value
LastJob(p, w) == pending[p][w] = 1

\* pending.fetch_sub, before the lock is taken.
WorkerDecrement(p, i) ==
    /\ wpc[p][i] = "dec"
    /\ LET w == wjob[p][i].w
       IN  /\ wlast' = [wlast EXCEPT ![p][i] = LastJob(p, w)]
           /\ pending' = [pending EXCEPT ![p][w] = @ - 1]
    /\ WorkerAt(p, i, "publish")
    /\ UNCHANGED <<engineVars, poolVars, queue, tkEpoch, tkTrack, tkReads,
                   wjob, wdone, clientVars>>

\* Under the lock: record a chunk that was read, wake the waiters when the
\* counter went to zero, and go for the next job.
WorkerPublish(p, i) ==
    /\ wpc[p][i] = "publish"
    /\ LET j == wjob[p][i]
       IN  tkReads' = IF wdone[p][i] /\ tkTrack[p][j.w]
                      THEN [tkReads EXCEPT ![p][j.w] = @ \cup {j.c}]
                      ELSE tkReads
    /\ IF wlast[p][i] THEN WakeWaiters(p) ELSE UNCHANGED pc
    /\ WorkerAt(p, i, "lock")
    /\ wjob' = [wjob EXCEPT ![p][i] = None]
    /\ wdone' = [wdone EXCEPT ![p][i] = FALSE]
    /\ wlast' = [wlast EXCEPT ![p][i] = FALSE]
    /\ UNCHANGED <<engineVars, poolVars, queue, pending, tkEpoch, tkTrack,
                   call, held, resume>>

Worker(p, i) ==
    \/ WorkerPop(p, i)
    \/ WorkerRead(p, i)
    \/ WorkerDecrement(p, i)
    \/ WorkerPublish(p, i)
-----------------------------------------------------------------------------
\* A client inside a call makes its next step.
Continue(c) ==
    \/ EnqueueReadEpoch(c)
    \/ EnqueueRefused(c)
    \/ EnqueueRanges(c)
    \/ WaitGetPool(c)
    \/ WaitLookup(c)
    \/ WaitCheck(c)
    \/ ColdTake(c)
    \/ ColdApply(c)
    \/ SetStart(c)
    \/ Stop(c)
    \/ Join(c)

\* A client makes a new call: on the engine as a whole, or on one tensor.
Setup(c) ==
    \/ NewEpoch(c)
    \/ RegisterMapping(c)
    \/ UnregisterMapping(c)
    \/ \E n \in 0..MaxThreads : SetNThreads(c, n)

TensorCall(c, w) ==
    \/ PrefetchTensor(c, w)
    \/ \E S \in SUBSET Chunks : PrefetchNode(c, w, S)
    \/ \E S \in SUBSET Chunks : \E cs \in Orders(S) : PrefetchExperts(c, w, cs)
    \/ CallWait(c, w)
    \/ CallCold(c, w)

Next ==
    \/ \E c \in Clients : Setup(c)
    \/ \E c \in Clients, w \in Tensors : TensorCall(c, w)
    \/ \E c \in Clients : Continue(c)
    \/ \E p \in Pools, i \in Workers : Worker(p, i)

\* Threads that hold work go on: every worker is a running thread, and a
\* client inside a call is not suspended for ever.  No call has to be made.
Fairness ==
    /\ \A p \in Pools, i \in Workers : WF_vars(Worker(p, i))
    /\ \A c \in Clients : WF_vars(Continue(c))

Spec == Init /\ [][Next]_vars /\ Fairness
-----------------------------------------------------------------------------
EngineType ==
    /\ epoch \in Nat /\ registered \in BOOLEAN
    /\ pinned \in [Tensors -> SUBSET Chunks]
    /\ gen \in [Pools -> [Tensors -> Nat]]

PoolType ==
    /\ pool \in Pools \cup {None} /\ poolMtx \in Clients \cup {None}
    /\ npools \in 0..MaxPools
    /\ size \in [Pools -> Nat] /\ shutdown \in [Pools -> BOOLEAN]

TicketType ==
    /\ queue \in [Pools -> Seq(Jobs)]
    /\ pending \in [Pools -> [Tensors -> Int]]
    /\ tkEpoch \in [Pools -> [Tensors -> Nat]]
    /\ tkTrack \in [Pools -> [Tensors -> BOOLEAN]]
    /\ tkReads \in [Pools -> [Tensors -> SUBSET Chunks]]

WorkerType ==
    /\ wpc \in [Pools -> [Workers -> WorkerPlaces]]
    /\ wjob \in [Pools -> [Workers -> Jobs \cup {None}]]
    /\ wdone \in [Pools -> [Workers -> BOOLEAN]]
    /\ wlast \in [Pools -> [Workers -> BOOLEAN]]

ClientType ==
    /\ pc \in [Clients -> ClientPlaces]
    /\ held \in [Clients -> Pools \cup {None}]
    /\ call \in [Clients -> Calls]
    /\ resume \in [Clients -> {"idle", "wait_pool", "set_start"}]

\* Every variable has its type.
TypeOK == EngineType /\ PoolType /\ TicketType /\ WorkerType /\ ClientType

\* ticket::pending counts exactly the jobs of the tensor that are queued or in
\* a worker's hands: nothing is counted twice or lost, whichever of the worker
\* and stop() completes a job.
PendingExact ==
    \A p \in Pools, w \in Tensors :
        pending[p][w] = Cardinality(Outstanding(p, w))

\* A pool is shut down only after its last shared_ptr is gone: no call ever
\* runs on a pool that stop() has emptied, so no queued read is dropped under
\* a thread that counts on it.
NoCallOnDeadPool ==
    \A p \in Pools : shutdown[p] =>
        pool # p /\ \A c \in Clients : held[c] = p => pc[c] = "join"

\* Urgent jobs are taken before all lookahead jobs (enqueue_ranges puts them at
\* the front, lookahead at the back).
UrgentFirst ==
    \A p \in Pools : \A i, k \in 1..Len(queue[p]) :
        i < k /\ queue[p][k].urgent => queue[p][i].urgent

\* Lookahead and manifest work is bounded: the drop in enqueue_ranges leaves at
\* most one tensor's jobs above MAX_QUEUE, however many passes and callers.
LookaheadBounded ==
    \A p \in Pools :
        Cardinality({k \in 1..Len(queue[p]) : ~queue[p][k].urgent}) <= MaxQueue + NChunks

\* When ggml_moe_prefetch_wait returns, no job of the tensor is left in the pool
\* the call looked at ("block until all pending prefetch jobs are complete").
WaitReturnsDone ==
    \A c \in Clients :
        /\ pc[c] \in {"wait_lookup", "wait_check"}
        /\ pc'[c] \notin {pc[c], "wait_check", "wait_sleep"}
        => Outstanding(held[c], call[c].w) = {}
WaitIsBarrier == [][WaitReturnsDone]_vars

\* Every call returns: a waiter is never left asleep after the last job of its
\* ticket, and set_n_threads and the destructor get their workers joined.
CallsReturn == \A c \in Clients : pc[c] # "idle" ~> pc[c] = "idle"
=============================================================================
