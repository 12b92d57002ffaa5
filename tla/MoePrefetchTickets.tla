-------------------------- MODULE MoePrefetchTickets --------------------------
(***************************************************************************)
(* Tickets count what is owed, and the queue keeps its order and length:   *)
(* proofs of PendingExact, WaitIsBarrier, UrgentFirst and LookaheadBounded *)
(* for any number of clients, tensors, units, workers and pools.           *)
(***************************************************************************)
EXTENDS MoePrefetchProofs, SequenceTheorems

USE NChunksAssumption, MaxThreadsAssumption, MaxPoolsAssumption, NoneAssumption
    DEF Pools, Workers

Owed(p) == JobsIn(queue[p]) \cup InFlight(p)

\* No job is in two places, so that one completion pays for it once; every job
\* is older than the enqueues to come; a pool to come is empty.
PoolTickets(p) ==
    /\ \A i, k \in 1..Len(queue[p]) : queue[p][i] = queue[p][k] => i = k
    /\ \A i, k \in Busy(p) : wjob[p][i] = wjob[p][k] => i = k
    /\ JobsIn(queue[p]) \cap InFlight(p) = {}
    /\ \A j \in Owed(p) : j.g <= gen[p][j.w]
    /\ p > npools => queue[p] = <<>> /\ \A i \in Workers : wpc[p][i] = "none"
    /\ \A w \in Tensors : pending[p][w] = Cardinality(Outstanding(p, w))

\* The units of a call are distinct.
CallUnits ==
    \A c \in Clients : \A i, k \in 1..Len(call[c].cs) :
        call[c].cs[i] = call[c].cs[k] => i = k

Tickets   == CallUnits /\ \A p \in Pools : PoolTickets(p)
TicketInv == LifetimeInv /\ Tickets
-----------------------------------------------------------------------------
\* The jobs of a pool are finite in number, and jobs.
LEMMA OwedFinite ==
    ASSUME TypeInv, NEW p \in Pools
    PROVE  /\ IsFiniteSet(JobsIn(queue[p])) /\ JobsIn(queue[p]) \subseteq Jobs
           /\ IsFiniteSet(InFlight(p)) /\ InFlight(p) \subseteq Jobs
           /\ IsFiniteSet(Owed(p))
           /\ \A w \in Tensors : IsFiniteSet(Outstanding(p, w))
<1> USE DEF TypeInv, TypeOK
<1>1. IsFiniteSet(JobsIn(queue[p])) BY QueueFinite
<1>2. JobsIn(queue[p]) \subseteq Jobs
  <2>1. queue[p] \in Seq(Jobs) BY DEF TicketType
  <2> QED BY <2>1 DEF JobsIn
<1>3. InFlight(p) \subseteq Jobs BY DEF InFlight, Busy, WorkerInv
<1>4. IsFiniteSet(InFlight(p))
  <2>1. IsFiniteSet(Workers) BY FS_Interval
  <2>2. Busy(p) \in SUBSET Workers BY DEF Busy
  <2>3. IsFiniteSet(Busy(p)) BY <2>1, <2>2, FS_Subset
  <2>4. [i \in Busy(p) |-> wjob[p][i]] \in Surjection(Busy(p), InFlight(p))
    BY DEF Surjection, InFlight
  <2> QED BY <2>3, <2>4, FS_Surjection
<1>5. IsFiniteSet(Owed(p)) BY <1>1, <1>4, FS_Union DEF Owed
<1>6. ASSUME NEW w \in Tensors PROVE IsFiniteSet(Outstanding(p, w))
  <2>1. Outstanding(p, w) \in SUBSET Owed(p) BY DEF Outstanding, Owed
  <2> QED BY <1>5, <2>1, FS_Subset
<1> QED BY <1>1, <1>2, <1>3, <1>4, <1>5, <1>6

\* A pool whose jobs, counters and generations stay keeps its tickets.
LEMMA KeepTickets ==
    ASSUME NEW p \in Pools, PoolTickets(p),
           queue'[p] = queue[p], pending'[p] = pending[p], gen'[p] = gen[p],
           Busy(p)' = Busy(p), \A i \in Busy(p) : wjob'[p][i] = wjob[p][i],
           p > npools' => p > npools /\ \A i \in Workers : wpc'[p][i] = "none"
    PROVE  PoolTickets(p)'
<1>1. InFlight(p)' = InFlight(p) BY DEF InFlight
<1>2. JobsIn(queue[p])' = JobsIn(queue[p]) BY DEF JobsIn
<1>3. Owed(p)' = Owed(p) BY <1>1, <1>2 DEF Owed
<1>4. \A w \in Tensors : Outstanding(p, w)' = Outstanding(p, w) BY <1>1, <1>2 DEF Outstanding
<1>5. \A i, k \in Busy(p) : wjob'[p][i] = wjob'[p][k] => i = k BY DEF PoolTickets
<1> QED BY <1>1, <1>2, <1>3, <1>4, <1>5 DEF PoolTickets

\* What waking workers changes about busy ones: nothing.
LEMMA WakeBusy ==
    ASSUME TypeInv, NEW p \in Pools, WakeWorkers(p) \/ UNCHANGED wpc, NEW q \in Pools
    PROVE  /\ Busy(q)' = Busy(q)
           /\ (\A i \in Workers : wpc[q][i] = "none") => \A i \in Workers : wpc'[q][i] = "none"
<1>1. ASSUME NEW i \in Workers
      PROVE  \/ wpc'[q][i] = wpc[q][i]
             \/ (wpc[q][i] = "asleep" /\ wpc'[q][i] = "lock")
  BY DEF WakeWorkers, TypeInv, TypeOK, WorkerType
<1> QED BY <1>1 DEF Busy
-----------------------------------------------------------------------------
\* One worker moves, between places that do not hold a job or both do.
LEMMA WorkerMoves ==
    ASSUME TypeInv, \A q \in Pools : PoolTickets(q), NEW p \in Pools, NEW i \in Workers,
           NEW place \in WorkerPlaces, WorkerAt(p, i, place),
           wpc[p][i] \in {"read", "dec"} <=> place \in {"read", "dec"},
           p > npools => place = "none",
           UNCHANGED <<queue, pending, gen, npools>>,
           \A q \in Pools, k \in Workers : k \in Busy(q) => wjob'[q][k] = wjob[q][k]
    PROVE  \A q \in Pools : PoolTickets(q)'
<1> SUFFICES ASSUME NEW q \in Pools PROVE PoolTickets(q)' OBVIOUS
<1>1. wpc' = [wpc EXCEPT ![p][i] = place] /\ wpc \in [Pools -> [Workers -> WorkerPlaces]]
  BY DEF WorkerAt, TypeInv, TypeOK, WorkerType
<1>2. \A k \in Workers : wpc'[q][k] = (IF q = p /\ k = i THEN place ELSE wpc[q][k]) BY <1>1
<1>3. Busy(q)' = Busy(q) BY <1>2 DEF Busy
<1>4. q > npools' => \A k \in Workers : wpc'[q][k] = "none" BY <1>2 DEF PoolTickets
<1>5. \A k \in Busy(q) : wjob'[q][k] = wjob[q][k] BY DEF Busy
<1> QED BY <1>3, <1>4, <1>5, KeepTickets

\* A worker takes the front job: it leaves the queue for the worker's hands.
LEMMA PopTickets ==
    ASSUME TypeInv, \A q \in Pools : PoolTickets(q), NEW p \in Pools, NEW i \in Workers,
           wpc[p][i] = "lock", queue[p] # <<>>, WorkerAt(p, i, "read"),
           wjob' = [wjob EXCEPT ![p][i] = Head(queue[p])],
           queue' = [queue EXCEPT ![p] = Tail(@)],
           UNCHANGED <<pending, gen, npools>>
    PROVE  \A q \in Pools : PoolTickets(q)'
<1> SUFFICES ASSUME NEW q \in Pools PROVE PoolTickets(q)' OBVIOUS
<1> USE DEF TypeInv, TypeOK
<1>1. wpc' = [wpc EXCEPT ![p][i] = "read"] /\ wpc \in [Pools -> [Workers -> WorkerPlaces]]
      /\ wjob \in [Pools -> [Workers -> Jobs \cup {None}]] /\ queue \in [Pools -> Seq(Jobs)]
  BY DEF WorkerAt, WorkerType, TicketType
<1>2. CASE q # p
  <2>1. queue'[q] = queue[q] /\ wpc'[q] = wpc[q] /\ wjob'[q] = wjob[q] BY <1>1, <1>2
  <2>2. Busy(q)' = Busy(q) BY <2>1 DEF Busy
  <2> QED BY <2>1, <2>2, KeepTickets DEF PoolTickets
<1>3. CASE q = p
  <2> DEFINE s == queue[p]
             h == Head(s)
  <2>1. s \in Seq(Jobs) /\ s # <<>> BY <1>1
  <2>2. queue'[p] = Tail(s) BY <1>1
  <2>3. \A k \in Workers : wjob'[p][k] = (IF k = i THEN h ELSE wjob[p][k]) BY <1>1
  <2>4. Busy(p)' = Busy(p) \cup {i} /\ i \notin Busy(p) BY <1>1 DEF Busy
  <2>5. \A m, n \in 1..Len(s) : s[m] = s[n] => m = n BY DEF PoolTickets
  <2> HIDE DEF s
  <2>6. /\ Len(s) \in Nat \ {0} /\ h = s[1] /\ Tail(s) \in Seq(Jobs)
        /\ Len(Tail(s)) = Len(s) - 1
        /\ \A m \in 1..Len(Tail(s)) : Tail(s)[m] = s[m + 1]
    BY <2>1
  <2>7. JobsIn(Tail(s)) = JobsIn(s) \ {h} /\ h \in JobsIn(s)
    <3>1. ASSUME NEW j \in JobsIn(Tail(s)) PROVE j \in JobsIn(s) \ {h}
      <4>1. PICK m \in 1..Len(Tail(s)) : j = Tail(s)[m] BY <3>1 DEF JobsIn
      <4>2. m + 1 \in 1..Len(s) /\ m + 1 # 1 /\ 1 \in 1..Len(s) /\ j = s[m + 1] BY <4>1, <2>6
      <4> QED BY <4>2, <2>5, <2>6 DEF JobsIn
    <3>2. ASSUME NEW j \in JobsIn(s) \ {h} PROVE j \in JobsIn(Tail(s))
      <4>1. PICK m \in 1..Len(s) : j = s[m] BY <3>2 DEF JobsIn
      <4>2. m # 1 BY <4>1, <3>2, <2>6
      <4>3. m - 1 \in 1..Len(Tail(s)) /\ (m - 1) + 1 = m BY <4>2, <2>6
      <4>4. Tail(s)[m - 1] = s[m] BY <4>3, <2>6
      <4> QED BY <4>1, <4>3, <4>4 DEF JobsIn
    <3>3. h \in JobsIn(s) BY <2>6 DEF JobsIn
    <3> QED BY <3>1, <3>2, <3>3
  <2>8. InFlight(p)' = InFlight(p) \cup {h} BY <2>3, <2>4 DEF InFlight, Busy
  <2>9. h \notin InFlight(p) BY <2>7 DEF PoolTickets, s
  <2>10. JobsIn(queue[p])' = JobsIn(s) \ {h} BY <2>2, <2>7 DEF JobsIn
  <2>11. Owed(p)' = Owed(p) BY <2>7, <2>8, <2>10 DEF Owed, s
  <2>12. \A w \in Tensors : Outstanding(p, w)' = Outstanding(p, w)
    BY <2>11 DEF Outstanding, Owed
  <2>13. \A m, n \in 1..Len(queue'[p]) : queue'[p][m] = queue'[p][n] => m = n
    <3> SUFFICES ASSUME NEW m \in 1..Len(Tail(s)), NEW n \in 1..Len(Tail(s)),
                        Tail(s)[m] = Tail(s)[n]
                 PROVE  m = n
      BY <2>2
    <3>1. m + 1 \in 1..Len(s) /\ n + 1 \in 1..Len(s) /\ s[m + 1] = s[n + 1] BY <2>6
    <3>2. m + 1 = n + 1 BY <3>1, <2>5
    <3> QED BY <3>2
  <2>14. \A k, l \in Busy(p)' : wjob'[p][k] = wjob'[p][l] => k = l
    <3> SUFFICES ASSUME NEW k \in Busy(p)', NEW l \in Busy(p)', wjob'[p][k] = wjob'[p][l]
                 PROVE  k = l
      OBVIOUS
    <3>1. \A m \in Busy(p) : wjob[p][m] # h /\ wjob'[p][m] = wjob[p][m]
      BY <2>3, <2>4, <2>9 DEF InFlight, Busy
    <3>2. wjob'[p][i] = h BY <2>3
    <3> QED BY <2>4, <3>1, <3>2 DEF PoolTickets
  <2>15. JobsIn(queue[p])' \cap InFlight(p)' = {}
    BY <2>8, <2>10 DEF PoolTickets, s
  <2>16. p <= npools BY <2>1 DEF PoolTickets, s, PoolType
  <2>17. \A j \in Owed(p)' : j.g <= gen'[p][j.w] BY <2>11 DEF PoolTickets
  <2>18. ~(p > npools') BY <2>16 DEF PoolType
  <2>19. \A w \in Tensors : pending'[p][w] = Cardinality(Outstanding(p, w)')
    BY <2>12 DEF PoolTickets
  <2> QED BY <1>3, <2>13, <2>14, <2>15, <2>17, <2>18, <2>19 DEF PoolTickets
<1> QED BY <1>2, <1>3

\* fetch_sub pays for the job in the worker's hands, and for no other.
LEMMA DecrementTickets ==
    ASSUME TypeInv, \A q \in Pools : PoolTickets(q), NEW p \in Pools, NEW i \in Workers,
           WorkerDecrement(p, i)
    PROVE  \A q \in Pools : PoolTickets(q)'
<1> SUFFICES ASSUME NEW q \in Pools PROVE PoolTickets(q)' OBVIOUS
<1> USE DEF TypeInv, TypeOK
<1> DEFINE j == wjob[p][i]
<1>1. /\ wpc[p][i] = "dec" /\ wpc' = [wpc EXCEPT ![p][i] = "publish"]
      /\ wpc \in [Pools -> [Workers -> WorkerPlaces]] /\ pending \in [Pools -> [Tensors -> Int]]
      /\ pending' = [pending EXCEPT ![p][j.w] = @ - 1]
      /\ queue' = queue /\ wjob' = wjob /\ gen' = gen /\ npools' = npools
  BY DEF WorkerDecrement, WorkerAt, WorkerType, TicketType, engineVars, poolVars
<1>2. j \in Jobs /\ j.w \in Tensors BY <1>1 DEF WorkerInv, Jobs
<1>3. CASE q # p
  <2>1. wpc'[q] = wpc[q] /\ pending'[q] = pending[q] BY <1>1, <1>3
  <2>2. Busy(q)' = Busy(q) BY <2>1 DEF Busy
  <2> QED BY <1>1, <2>1, <2>2, KeepTickets DEF PoolTickets
<1>4. CASE q = p
  <2>1. i \in Busy(p) /\ Busy(p)' = Busy(p) \ {i} BY <1>1 DEF Busy
  <2>2. j \in InFlight(p) BY <2>1 DEF InFlight
  <2>3. InFlight(p)' = InFlight(p) \ {j}
    <3>1. \A k \in Busy(p) \ {i} : wjob[p][k] # j BY <2>1 DEF PoolTickets
    <3> QED BY <1>1, <2>1, <3>1 DEF InFlight
  <2>4. JobsIn(queue[p])' = JobsIn(queue[p]) BY <1>1 DEF JobsIn
  <2>5. Owed(p)' = Owed(p) \ {j} BY <2>2, <2>3, <2>4 DEF Owed, PoolTickets
  <2>6. \A w \in Tensors : Outstanding(p, w)' = Outstanding(p, w) \ {j}
    BY <2>5 DEF Outstanding, Owed
  <2>7. ASSUME NEW w \in Tensors PROVE pending'[p][w] = Cardinality(Outstanding(p, w)')
    <3>1. IsFiniteSet(Outstanding(p, w)) BY OwedFinite
    <3>2. pending[p][w] = Cardinality(Outstanding(p, w)) BY DEF PoolTickets
    <3>3. CASE w = j.w
      <4>1. j \in Outstanding(p, w) BY <2>2, <3>3 DEF Outstanding
      <4>2. Cardinality(Outstanding(p, w) \ {j}) = Cardinality(Outstanding(p, w)) - 1
        BY <3>1, <4>1, FS_RemoveElement
      <4>3. pending'[p][w] = pending[p][w] - 1 BY <1>1, <1>2, <3>3
      <4> QED BY <2>6, <3>2, <4>2, <4>3
    <3>4. CASE w # j.w
      <4>1. Outstanding(p, w) \ {j} = Outstanding(p, w) BY <3>4 DEF Outstanding
      <4>2. pending'[p][w] = pending[p][w] BY <1>1, <1>2, <3>4
      <4> QED BY <2>6, <3>2, <4>1, <4>2
    <3> QED BY <3>3, <3>4
  <2>8. \A k, l \in Busy(p)' : wjob'[p][k] = wjob'[p][l] => k = l
    BY <1>1, <2>1 DEF PoolTickets
  <2>9. \A n \in Owed(p)' : n.g <= gen'[p][n.w] BY <1>1, <2>5 DEF PoolTickets
  <2>10. ~(p > npools') BY <1>1 DEF PoolTickets
  <2>11. JobsIn(queue[p])' \cap InFlight(p)' = {} BY <2>3, <2>4 DEF PoolTickets
  <2>12. \A m, n \in 1..Len(queue'[p]) : queue'[p][m] = queue'[p][n] => m = n
    BY <1>1 DEF PoolTickets
  <2> QED BY <1>4, <2>7, <2>8, <2>9, <2>10, <2>11, <2>12 DEF PoolTickets
<1> QED BY <1>3, <1>4
-----------------------------------------------------------------------------
\* Two disjoint runs of distinct jobs, one after the other.
LEMMA ConcatJobs ==
    ASSUME NEW s \in Seq(Jobs), NEW t \in Seq(Jobs),
           \A m, n \in 1..Len(s) : s[m] = s[n] => m = n,
           \A m, n \in 1..Len(t) : t[m] = t[n] => m = n,
           JobsIn(s) \cap JobsIn(t) = {}
    PROVE  /\ s \o t \in Seq(Jobs)
           /\ JobsIn(s \o t) = JobsIn(s) \cup JobsIn(t)
           /\ \A m, n \in 1..Len(s \o t) : (s \o t)[m] = (s \o t)[n] => m = n
<1> DEFINE u == s \o t
<1>1. /\ u \in Seq(Jobs) /\ Len(u) = Len(s) + Len(t) /\ Len(s) \in Nat /\ Len(t) \in Nat
      /\ \A m \in 1..Len(u) : u[m] = IF m <= Len(s) THEN s[m] ELSE t[m - Len(s)]
  OBVIOUS
<1> HIDE DEF u
<1>2. ASSUME NEW m \in 1..Len(u)
      PROVE  \/ m \in 1..Len(s) /\ u[m] = s[m] /\ u[m] \in JobsIn(s)
             \/ m \notin 1..Len(s) /\ m - Len(s) \in 1..Len(t) /\ u[m] = t[m - Len(s)]
                /\ u[m] \in JobsIn(t)
  <2>1. CASE m <= Len(s) BY <1>1, <2>1 DEF JobsIn
  <2>2. CASE m > Len(s)
    <3>1. m - Len(s) \in 1..Len(t) /\ u[m] = t[m - Len(s)] BY <1>1, <2>2
    <3> QED BY <1>1, <2>2, <3>1 DEF JobsIn
  <2> QED BY <1>1, <2>1, <2>2
<1>3. JobsIn(u) \subseteq JobsIn(s) \cup JobsIn(t) BY <1>2 DEF JobsIn
<1>4. ASSUME NEW j \in JobsIn(s) PROVE j \in JobsIn(u)
  <2>1. PICK m \in 1..Len(s) : j = s[m] BY DEF JobsIn
  <2>2. m \in 1..Len(u) /\ u[m] = s[m] BY <1>1, <2>1
  <2> QED BY <2>1, <2>2 DEF JobsIn
<1>5. ASSUME NEW j \in JobsIn(t) PROVE j \in JobsIn(u)
  <2>1. PICK m \in 1..Len(t) : j = t[m] BY DEF JobsIn
  <2>2. m + Len(s) \in 1..Len(u) /\ u[m + Len(s)] = t[m] BY <1>1, <2>1
  <2> QED BY <2>1, <2>2 DEF JobsIn
<1>6. ASSUME NEW m \in 1..Len(u), NEW n \in 1..Len(u), u[m] = u[n] PROVE m = n
  <2>1. CASE m \in 1..Len(s) /\ n \in 1..Len(s) BY <1>2, <1>6, <2>1
  <2>2. CASE m \notin 1..Len(s) /\ n \notin 1..Len(s)
    <3>1. m - Len(s) = n - Len(s) BY <1>2, <1>6, <2>2
    <3> QED BY <1>1, <3>1
  <2>3. CASE m \in 1..Len(s) /\ n \notin 1..Len(s) BY <1>2, <1>6, <2>3
  <2>4. CASE m \notin 1..Len(s) /\ n \in 1..Len(s) BY <1>2, <1>6, <2>4
  <2> QED BY <2>1, <2>2, <2>3, <2>4
<1> QED BY <1>1, <1>3, <1>4, <1>5, <1>6 DEF u

\* The jobs of an enqueue are new to their pool, and as many as its units.
LEMMA NewJobsFresh ==
    ASSUME TypeInv, Tickets, NEW c \in Clients, call[c].w \in Tensors, NEW p \in Pools
    PROVE  LET js == NewJobs(c, gen[p][call[c].w] + 1)
           IN  /\ js \in Seq(Jobs)
               /\ \A m, n \in 1..Len(js) : js[m] = js[n] => m = n
               /\ JobsIn(js) \cap Owed(p) = {}
               /\ \A j \in JobsIn(js) : j.w = call[c].w /\ j.g = gen[p][call[c].w] + 1
               /\ IsFiniteSet(JobsIn(js)) /\ Cardinality(JobsIn(js)) = Len(js)
<1> DEFINE g  == gen[p][call[c].w]
           js == NewJobs(c, g + 1)
           J(k) == [w |-> call[c].w, c |-> call[c].cs[k], g |-> g + 1,
                    e |-> call[c].epoch, urgent |-> call[c].op = "node"]
<1>1. g \in Nat /\ g + 1 \in Nat BY DEF TypeInv, TypeOK, EngineType
<1> HIDE DEF g
<1>2. js \in Seq(Jobs) /\ Len(js) = Len(call[c].cs) /\ \A k \in 1..Len(js) : js[k] = J(k)
  BY <1>1, NewJobsType DEF TypeInv
<1> HIDE DEF js
<1>3. \A m, n \in 1..Len(js) : js[m] = js[n] => m = n
  <2> SUFFICES ASSUME NEW m \in 1..Len(js), NEW n \in 1..Len(js), js[m] = js[n] PROVE m = n
    OBVIOUS
  <2>1. J(m).c = J(n).c BY <1>2
  <2>2. call[c].cs[m] = call[c].cs[n] BY <2>1
  <2> QED BY <1>2, <2>2 DEF Tickets, CallUnits
<1>4. ASSUME NEW j \in JobsIn(js) PROVE j.w = call[c].w /\ j.g = g + 1
  <2>1. PICK k \in 1..Len(js) : j = js[k] BY DEF JobsIn
  <2>2. j = J(k) BY <1>2, <2>1
  <2> QED BY <2>2
<1>5. JobsIn(js) \cap Owed(p) = {}
  <2> SUFFICES ASSUME NEW j \in JobsIn(js), j \in Owed(p) PROVE FALSE OBVIOUS
  <2>1. j.g <= gen[p][j.w] BY DEF Tickets, PoolTickets
  <2>2. j.g = g + 1 /\ gen[p][j.w] = g BY <1>4 DEF g
  <2> QED BY <1>1, <2>1, <2>2
<1>6. IsFiniteSet(JobsIn(js)) /\ Cardinality(JobsIn(js)) = Len(js)
  <2> DEFINE n == Len(js)
             f == [k \in 1..n |-> js[k]]
  <2>1. n \in Nat BY <1>2
  <2>2. f \in Surjection(1..n, JobsIn(js)) BY DEF Surjection, JobsIn
  <2>3. f \in Injection(1..n, JobsIn(js))
    <3>1. f \in [1..n -> JobsIn(js)] BY DEF JobsIn
    <3>2. \A k, l \in 1..n : f[k] = f[l] => k = l BY <1>3
    <3> HIDE DEF f, n
    <3> QED BY <3>1, <3>2 DEF Injection, IsInjective
  <2> HIDE DEF f, n
  <2>4. IsFiniteSet(1..n) /\ Cardinality(1..n) = n
    <3>1. 1 \in Int /\ n \in Int BY <2>1
    <3>2. IsFiniteSet(1..n) /\ Cardinality(1..n) = (IF 1 > n THEN 0 ELSE n - 1 + 1)
      BY <3>1, FS_Interval
    <3> QED BY <2>1, <3>2
  <2>5. IsFiniteSet(JobsIn(js)) /\ Cardinality(JobsIn(js)) = Cardinality(1..n)
    BY <2>2, <2>3, <2>4, FS_Surjection
  <2> QED BY <2>4, <2>5 DEF n
<1> QED BY <1>2, <1>3, <1>4, <1>5, <1>6 DEF js, g

\* The critical section of enqueue_ranges counts exactly the jobs it queues.
LEMMA EnqueueTickets ==
    ASSUME LifetimeInv, Tickets, NEW c \in Clients, EnqueueRanges(c)
    PROVE  \A q \in Pools : PoolTickets(q)'
<1> USE DEF LifetimeInv, TypeInv, TypeOK
<1>1. PICK p \in Pools, w \in Tensors : p = held[c] /\ w = call[c].w
  BY DEF EnqueueRanges, ClientInv, HoldPlaces, TensorPlaces
<1> DEFINE js == NewJobs(c, gen[p][w] + 1)
<1>2. /\ js \in Seq(Jobs) /\ \A m, n \in 1..Len(js) : js[m] = js[n] => m = n
      /\ JobsIn(js) \cap Owed(p) = {} /\ \A j \in JobsIn(js) : j.w = w /\ j.g = gen[p][w] + 1
      /\ IsFiniteSet(JobsIn(js)) /\ Cardinality(JobsIn(js)) = Len(js)
  <2>1. call[c].w \in Tensors BY <1>1
  <2>2. TypeInv BY DEF LifetimeInv
  <2> HIDE DEF LifetimeInv, TypeInv, TypeOK, js
  <2>3. js = NewJobs(c, gen[p][call[c].w] + 1) BY <1>1 DEF js
  <2> QED BY <1>1, <2>1, <2>2, <2>3, NewJobsFresh
<1>3. /\ pending' = [pending EXCEPT ![p][w] = @ + Len(js)]
      /\ queue' = [queue EXCEPT ![p] = Insert(js, @, call[c].op = "node")]
      /\ gen' = [gen EXCEPT ![p][w] = @ + 1]
      /\ IF js = <<>> THEN UNCHANGED wpc ELSE WakeWorkers(p)
      /\ UNCHANGED <<poolVars, wjob>>
  BY <1>1, Zenon DEF EnqueueRanges
<1>4. WakeWorkers(p) \/ UNCHANGED wpc BY <1>3
<1>5. p <= npools
  <2>1. ~(p > npools) BY <1>1 DEF Lifetime, UnusedInv
  <2> QED BY <1>1, <2>1 DEF PoolType
<1>6. queue \in [Pools -> Seq(Jobs)] /\ pending \in [Pools -> [Tensors -> Int]]
      /\ gen \in [Pools -> [Tensors -> Nat]] /\ npools' = npools /\ wjob' = wjob /\ npools \in Nat
  BY <1>3 DEF TicketType, EngineType, PoolType, poolVars
<1> HIDE DEF js
<1> SUFFICES ASSUME NEW q \in Pools PROVE PoolTickets(q)' OBVIOUS
<1>7. Busy(q)' = Busy(q) /\ ((\A i \in Workers : wpc[q][i] = "none")
                             => \A i \in Workers : wpc'[q][i] = "none")
  BY <1>1, <1>4, WakeBusy
<1>8. PoolTickets(q) BY DEF Tickets
<1>9. CASE q # p
  <2>1. queue'[q] = queue[q] /\ pending'[q] = pending[q] /\ gen'[q] = gen[q]
    BY <1>3, <1>6, <1>9
  <2>2. q > npools' => q > npools /\ \A i \in Workers : wpc'[q][i] = "none"
    BY <1>6, <1>7, <1>8 DEF PoolTickets
  <2> QED BY <1>6, <1>7, <1>8, <2>1, <2>2, KeepTickets
<1>10. CASE q = p
  <2> DEFINE s == queue[p]
  <2>1. s \in Seq(Jobs) /\ \A m, n \in 1..Len(s) : s[m] = s[n] => m = n
    BY <1>1, <1>6, <1>8, <1>10 DEF PoolTickets
  <2>2. JobsIn(js) \cap JobsIn(s) = {} /\ JobsIn(js) \cap InFlight(p) = {} BY <1>2 DEF Owed
  <2>3. queue'[p] = js \o s \/ queue'[p] = s \o js BY <1>1, <1>3, <1>6 DEF Insert
  <2> HIDE DEF s
  <2>4. /\ JobsIn(queue'[p]) = JobsIn(s) \cup JobsIn(js)
        /\ \A m, n \in 1..Len(queue'[p]) : queue'[p][m] = queue'[p][n] => m = n
    <3>1. CASE queue'[p] = js \o s BY <3>1, <1>2, <2>1, <2>2, ConcatJobs
    <3>2. CASE queue'[p] = s \o js BY <3>2, <1>2, <2>1, <2>2, ConcatJobs
    <3> QED BY <2>3, <3>1, <3>2
  <2>5. InFlight(p)' = InFlight(p) BY <1>6, <1>7, <1>10 DEF InFlight
  <2>6. JobsIn(queue[p])' = JobsIn(s) \cup JobsIn(js) BY <2>4 DEF JobsIn
  <2>7. Owed(p)' = Owed(p) \cup JobsIn(js) BY <2>5, <2>6 DEF Owed, s
  <2>8. \A j \in Owed(p)' : j.g <= gen'[p][j.w]
    <3> SUFFICES ASSUME NEW j \in Owed(p)' PROVE j.g <= gen'[p][j.w] OBVIOUS
    <3>1. CASE j \in JobsIn(js)
      <4>1. gen'[p][w] = gen[p][w] + 1 BY <1>1, <1>3, <1>6
      <4>2. gen[p][w] + 1 \in Nat BY <1>1, <1>6
      <4> QED BY <1>2, <3>1, <4>1, <4>2
    <3>2. CASE j \in Owed(p)
      <4>1. j \in Jobs BY <1>1, <3>2, OwedFinite DEF Owed
      <4>2. j.w \in Tensors /\ j.g \in Nat BY <4>1 DEF Jobs
      <4>3. j.g <= gen[p][j.w] BY <1>8, <1>10, <3>2 DEF PoolTickets
      <4>4. gen[p][j.w] \in Nat /\ (gen'[p][j.w] = gen[p][j.w] \/ gen'[p][j.w] = gen[p][j.w] + 1)
        BY <1>1, <1>3, <1>6, <4>2
      <4> QED BY <4>2, <4>3, <4>4
    <3> QED BY <2>7, <3>1, <3>2
  <2>9. ASSUME NEW v \in Tensors PROVE pending'[p][v] = Cardinality(Outstanding(p, v)')
    <3>1. IsFiniteSet(Outstanding(p, v)) BY <1>1, OwedFinite
    <3>2. pending[p][v] = Cardinality(Outstanding(p, v)) BY <1>8, <1>10 DEF PoolTickets
    <3>3. Outstanding(p, v)' = {j \in Owed(p) \cup JobsIn(js) : j.w = v}
      BY <2>7 DEF Outstanding, Owed
    <3>4. CASE v = w
      <4>1. Outstanding(p, v)' = Outstanding(p, v) \cup JobsIn(js)
        BY <1>2, <3>3, <3>4 DEF Outstanding, Owed
      <4>2. Outstanding(p, v) \cap JobsIn(js) = {} BY <1>2 DEF Outstanding, Owed
      <4>3. Cardinality(Outstanding(p, v) \cup JobsIn(js))
              = Cardinality(Outstanding(p, v)) + Len(js)
        <5>1. Cardinality({}) = 0 /\ Cardinality(Outstanding(p, v)) \in Nat /\ Len(js) \in Nat
          BY <1>2, <3>1, FS_EmptySet, FS_CardinalityType
        <5>2. Cardinality(Outstanding(p, v) \cup JobsIn(js))
                = Cardinality(Outstanding(p, v)) + Cardinality(JobsIn(js))
                  - Cardinality(Outstanding(p, v) \cap JobsIn(js))
          BY <1>2, <3>1, FS_Union
        <5>3. Cardinality(Outstanding(p, v) \cap JobsIn(js)) = 0 BY <4>2, <5>1
        <5>4. Cardinality(JobsIn(js)) = Len(js) BY <1>2
        <5> QED BY <5>1, <5>2, <5>3, <5>4
      <4>4. pending'[p][v] = pending[p][v] + Len(js) BY <1>1, <1>3, <1>6, <3>4
      <4> QED BY <3>2, <4>1, <4>3, <4>4
    <3>5. CASE v # w
      <4>1. Outstanding(p, v)' = Outstanding(p, v)
        BY <1>2, <3>3, <3>5 DEF Outstanding, Owed
      <4>2. pending'[p][v] = pending[p][v] BY <1>1, <1>3, <1>6, <3>5
      <4> QED BY <3>2, <4>1, <4>2
    <3> QED BY <3>4, <3>5
  <2>10. JobsIn(queue[p])' \cap InFlight(p)' = {}
    BY <1>8, <1>10, <2>2, <2>5, <2>6 DEF PoolTickets, s
  <2>11. \A k, l \in Busy(p)' : wjob'[p][k] = wjob'[p][l] => k = l
    BY <1>6, <1>7, <1>8, <1>10 DEF PoolTickets
  <2>12. ~(p > npools') BY <1>1, <1>5, <1>6
  <2> QED BY <1>10, <2>4, <2>8, <2>9, <2>10, <2>11, <2>12 DEF PoolTickets
<1> QED BY <1>9, <1>10
-----------------------------------------------------------------------------
\* stop() pays for the queued jobs; those in the workers' hands stay owed.
LEMMA StopTickets ==
    ASSUME LifetimeInv, Tickets, NEW c \in Clients, Stop(c)
    PROVE  \A q \in Pools : PoolTickets(q)'
<1> USE DEF LifetimeInv, TypeInv, TypeOK
<1>1. PICK p \in Pools : p = held[c] BY DEF Stop, ClientInv, HoldPlaces
<1>2. /\ pending' = [pending EXCEPT ![p] = [w \in Tensors |-> pending[p][w] - Dropped(p, w)]]
      /\ queue' = [queue EXCEPT ![p] = <<>>] /\ WakeWorkers(p)
      /\ wjob' = wjob /\ gen' = gen /\ npools' = npools
  BY <1>1 DEF Stop, engineVars
<1>3. queue \in [Pools -> Seq(Jobs)] /\ pending \in [Pools -> [Tensors -> Int]]
  BY DEF TicketType
<1> SUFFICES ASSUME NEW q \in Pools PROVE PoolTickets(q)' OBVIOUS
<1>4. Busy(q)' = Busy(q) /\ ((\A i \in Workers : wpc[q][i] = "none")
                             => \A i \in Workers : wpc'[q][i] = "none")
  BY <1>2, WakeBusy
<1>5. PoolTickets(q) BY DEF Tickets
<1>6. q > npools' => q > npools /\ \A i \in Workers : wpc'[q][i] = "none"
  BY <1>2, <1>4, <1>5 DEF PoolTickets
<1>7. CASE q # p
  <2>1. queue'[q] = queue[q] /\ pending'[q] = pending[q] /\ gen'[q] = gen[q]
    BY <1>2, <1>3, <1>7
  <2> QED BY <1>2, <1>4, <1>5, <1>6, <2>1, KeepTickets
<1>8. CASE q = p
  <2>1. queue'[p] = <<>> BY <1>2, <1>3
  <2>2. JobsIn(queue[p])' = {} BY <2>1 DEF JobsIn
  <2>3. InFlight(p)' = InFlight(p) BY <1>2, <1>4, <1>8 DEF InFlight
  <2>4. Owed(p)' = InFlight(p) /\ Owed(p)' \subseteq Owed(p) BY <2>2, <2>3 DEF Owed
  <2>5. ASSUME NEW w \in Tensors PROVE pending'[p][w] = Cardinality(Outstanding(p, w)')
    <3> DEFINE Q == {j \in JobsIn(queue[p]) : j.w = w}
               F == {j \in InFlight(p) : j.w = w}
    <3>1. IsFiniteSet(Q) /\ IsFiniteSet(F) BY OwedFinite, FS_Subset
    <3>2. Outstanding(p, w) = Q \cup F /\ Outstanding(p, w)' = F /\ Q \cap F = {}
      BY <1>5, <1>8, <2>2, <2>3 DEF Outstanding, PoolTickets
    <3>3. pending[p][w] = Cardinality(Q \cup F) BY <1>5, <1>8, <3>2 DEF PoolTickets
    <3>4. pending'[p][w] = pending[p][w] - Cardinality(Q) BY <1>2, <1>3 DEF Dropped
    <3> HIDE DEF Q, F
    <3>5. Cardinality(Q \cup F) = Cardinality(Q) + Cardinality(F) - Cardinality(Q \cap F)
      BY <3>1, FS_Union
    <3>6. Cardinality(Q \cap F) = 0 BY <3>2, FS_EmptySet
    <3>7. Cardinality(Q) \in Nat /\ Cardinality(F) \in Nat BY <3>1, FS_CardinalityType
    <3>8. pending'[p][w] = Cardinality(F) BY <3>3, <3>4, <3>5, <3>6, <3>7
    <3> QED BY <3>2, <3>8
  <2>6. \A j \in Owed(p)' : j.g <= gen'[p][j.w] BY <1>2, <1>5, <1>8, <2>4 DEF PoolTickets
  <2>7. \A k, l \in Busy(p)' : wjob'[p][k] = wjob'[p][l] => k = l
    BY <1>2, <1>4, <1>5, <1>8 DEF PoolTickets
  <2>8. \A m, n \in 1..Len(queue'[p]) : queue'[p][m] = queue'[p][n] => m = n BY <2>1
  <2> QED BY <1>6, <1>8, <2>1, <2>2, <2>5, <2>6, <2>7, <2>8 DEF PoolTickets
<1> QED BY <1>7, <1>8

\* A new pool starts with nothing owed.
LEMMA StartTickets ==
    ASSUME LifetimeInv, Tickets, NEW c \in Clients, SetStart(c)
    PROVE  \A q \in Pools : PoolTickets(q)'
<1> USE DEF LifetimeInv, TypeInv, TypeOK
<1>1. PICK p \in Pools : p = npools + 1 BY DEF SetStart, ClientInv, PoolType
<1>2. /\ npools' = p /\ queue' = queue /\ pending' = pending /\ wjob' = wjob /\ gen' = gen
      /\ wpc' = [wpc EXCEPT ![p] =
                   [i \in Workers |-> IF i <= call[c].n THEN "lock" ELSE "none"]]
  BY <1>1 DEF SetStart, engineVars, ticketVars
<1>3. wpc \in [Pools -> [Workers -> WorkerPlaces]] /\ npools \in Nat
  BY DEF WorkerType, PoolType
<1> SUFFICES ASSUME NEW q \in Pools PROVE PoolTickets(q)' OBVIOUS
<1>4. PoolTickets(q) BY DEF Tickets
<1>5. CASE q = p
  <2>1. \A i \in Workers : wpc[p][i] = "none" BY <1>1, <1>3, <1>4, <1>5 DEF PoolTickets
  <2>2. Busy(p) = {} BY <2>1 DEF Busy
  <2>3. \A i \in Workers : wpc'[p][i] \in {"lock", "none"} BY <1>2, <1>3
  <2>4. Busy(p)' = {} BY <2>3 DEF Busy
  <2>5. ~(p > npools') BY <1>2
  <2> QED BY <1>2, <1>4, <1>5, <2>2, <2>4, <2>5, KeepTickets
<1>6. CASE q # p
  <2>1. wpc'[q] = wpc[q] BY <1>2, <1>3, <1>6
  <2>2. Busy(q)' = Busy(q) BY <2>1 DEF Busy
  <2>3. q > npools' => q > npools BY <1>1, <1>2, <1>3
  <2> QED BY <1>2, <1>4, <2>1, <2>2, <2>3, KeepTickets DEF PoolTickets
<1> QED BY <1>5, <1>6
-----------------------------------------------------------------------------
\* The units of a call are set once, without repetition.
LEMMA CallUnitsStep ==
    ASSUME TypeInv, CallUnits, Next PROVE CallUnits'
<1> USE DEF TypeInv, TypeOK
<1>1. call \in [Clients -> Calls] BY DEF ClientType
<1>2. NoCall.cs = <<>> /\ \A op, w, n, cs : NewCall(op, w, cs, n).cs = cs
  BY DEF NoCall, NewCall
<1>3. ASSUME NEW c \in Clients, NEW r, call' = [call EXCEPT ![c] = r],
             \A i, k \in 1..Len(r.cs) : r.cs[i] = r.cs[k] => i = k
      PROVE  CallUnits'
  <2>1. \A d \in Clients : call'[d] = (IF d = c THEN r ELSE call[d]) BY <1>1, <1>3
  <2> QED BY <1>3, <2>1 DEF CallUnits
<1>4. ASSUME NEW c \in Clients, NEW r, call' = [call EXCEPT ![c] = r],
             r = NoCall \/ r.cs = call[c].cs
      PROVE  CallUnits'
  <2>1. \A i, k \in 1..Len(r.cs) : r.cs[i] = r.cs[k] => i = k BY <1>2, <1>4 DEF CallUnits
  <2> QED BY <1>3, <1>4, <2>1
<1>5. ASSUME UNCHANGED call PROVE CallUnits' BY <1>5 DEF CallUnits
<1>6. ASSUME NEW c \in Clients, NEW next, Drop(c, next) PROVE CallUnits'
  <2>1. call' = [call EXCEPT ![c] = NoCall] \/ UNCHANGED call BY <1>6 DEF Drop
  <2> QED BY <1>4, <1>5, <2>1
<1>7. ASSUME NEW c \in Clients, NEW place, NEW args, GetPool(c, place, args),
             \A i, k \in 1..Len(args.cs) : args.cs[i] = args.cs[k] => i = k
      PROVE  CallUnits'
  <2>1. call' = [call EXCEPT ![c] = NoCall] \/ call' = [call EXCEPT ![c] = args]
    BY <1>7 DEF GetPool
  <2> QED BY <1>3, <1>4, <1>7, <2>1
<1>8. ASSUME NEW c \in Clients, Setup(c) PROVE CallUnits'
  <2>1. CASE UNCHANGED clientVars BY <1>5, <2>1 DEF clientVars
  <2>2. ASSUME NEW n \in 0..MaxThreads, SetNThreads(c, n) PROVE CallUnits'
    <3>1. PICK r \in {NewCall("set", None, <<>>, n), NoCall} : call' = [call EXCEPT ![c] = r]
      BY <2>2 DEF SetNThreads
    <3>2. r.cs = <<>> BY <1>2, <3>1
    <3>3. \A i, k \in 1..Len(r.cs) : r.cs[i] = r.cs[k] => i = k BY <3>2
    <3> QED BY <1>3, <3>1, <3>3
  <2> QED BY <1>8, <2>1, <2>2 DEF Setup, NewEpoch, RegisterMapping, UnregisterMapping
<1>9. ASSUME NEW c \in Clients, NEW w \in Tensors, TensorCall(c, w) PROVE CallUnits'
  <2>1. ASSUME NEW op, NEW S \in SUBSET Chunks, NEW cs \in Orders(S), CallEnqueue(c, op, w, cs)
        PROVE  CallUnits'
    <3>1. \A i, k \in 1..Len(cs) : cs[i] = cs[k] => i = k BY OrdersAreSequences
    <3>2. GetPool(c, "enq_epoch", NewCall(op, w, cs, 0)) BY <2>1 DEF CallEnqueue
    <3> QED BY <1>2, <1>7, <3>1, <3>2
  <2>2. ASSUME NEW op, NEW place, GetPool(c, place, NewCall(op, w, <<>>, 0)) PROVE CallUnits'
    BY <1>2, <1>7, <2>2
  <2>3. CASE PrefetchTensor(c, w) BY <2>1, <2>3 DEF PrefetchTensor
  <2>4. CASE \E S \in SUBSET Chunks : PrefetchNode(c, w, S) BY <2>1, <2>4 DEF PrefetchNode
  <2>5. CASE \E S \in SUBSET Chunks : \E cs \in Orders(S) : PrefetchExperts(c, w, cs)
    BY <2>1, <2>5 DEF PrefetchExperts
  <2>6. CASE CallWait(c, w) \/ CallCold(c, w) BY <2>2, <2>6 DEF CallWait, CallCold
  <2> QED BY <1>9, <2>3, <2>4, <2>5, <2>6 DEF TensorCall
<1>10. ASSUME NEW c \in Clients, Continue(c) PROVE CallUnits'
  <2>1. ASSUME NEW next, Drop(c, next) PROVE CallUnits' BY <1>6, <2>1
  <2>2. ASSUME NEW e, call' = [call EXCEPT ![c].epoch = e] PROVE CallUnits'
    <3>1. call' = [call EXCEPT ![c] = [call[c] EXCEPT !.epoch = e]] BY <2>2
    <3>2. [call[c] EXCEPT !.epoch = e].cs = call[c].cs BY <1>1 DEF Calls
    <3> QED BY <1>4, <3>1, <3>2
  <2>3. ASSUME NEW S, call' = [call EXCEPT ![c].taken = S] PROVE CallUnits'
    <3>1. call' = [call EXCEPT ![c] = [call[c] EXCEPT !.taken = S]] BY <2>3
    <3>2. [call[c] EXCEPT !.taken = S].cs = call[c].cs BY <1>1 DEF Calls
    <3> QED BY <1>4, <3>1, <3>2
  <2>4. CASE EnqueueReadEpoch(c) BY <2>1, <2>2, <2>4 DEF EnqueueReadEpoch
  <2>5. CASE EnqueueRefused(c) BY <2>1, <2>5 DEF EnqueueRefused
  <2>6. CASE EnqueueRanges(c) BY <2>1, <2>6 DEF EnqueueRanges
  <2>7. CASE WaitGetPool(c) BY <1>7, <2>7 DEF WaitGetPool, CallUnits
  <2>8. CASE WaitLookup(c) BY <1>5, <2>1, <2>8 DEF WaitLookup
  <2>9. CASE WaitCheck(c) BY <1>5, <2>1, <2>9 DEF WaitCheck
  <2>10. CASE ColdTake(c) BY <2>1, <2>3, <2>10 DEF ColdTake
  <2>11. CASE ColdApply(c) BY <2>1, <2>11 DEF ColdApply
  <2>12. CASE SetStart(c) BY <1>4, <2>12 DEF SetStart
  <2>13. CASE Stop(c) \/ Join(c) BY <1>5, <2>13 DEF Stop, Join
  <2> QED BY <1>10, <2>4, <2>5, <2>6, <2>7, <2>8, <2>9, <2>10, <2>11, <2>12, <2>13 DEF Continue
<1>11. ASSUME NEW p \in Pools, NEW i \in Workers, Worker(p, i) PROVE CallUnits'
  BY <1>5, <1>11 DEF Worker, WorkerPop, WorkerRead, WorkerDecrement, WorkerPublish, clientVars
<1> QED BY <1>8, <1>9, <1>10, <1>11 DEF Next
-----------------------------------------------------------------------------
\* Worker steps and steps that leave tickets alone.
LEMMA WorkerTickets ==
    ASSUME LifetimeInv, Tickets, NEW p \in Pools, NEW i \in Workers, Worker(p, i)
    PROVE  \A q \in Pools : PoolTickets(q)'
<1> USE DEF LifetimeInv
<1>1. \A q \in Pools : PoolTickets(q) BY DEF Tickets
<1>2. ~(p > npools) \/ wpc[p][i] = "none" BY <1>1 DEF PoolTickets
<1>3. CASE WorkerPop(p, i)
  <2>1. UNCHANGED <<pending, gen, npools>> /\ wpc[p][i] = "lock"
    BY <1>3 DEF WorkerPop, engineVars, poolVars
  <2>2. CASE \/ WorkerAt(p, i, "none") /\ UNCHANGED <<queue, wjob>>
             \/ WorkerAt(p, i, "asleep") /\ UNCHANGED <<queue, wjob>>
    <3>1. PICK place \in {"none", "asleep"} : WorkerAt(p, i, place) BY <2>2
    <3>2. place \in WorkerPlaces /\ (p > npools => place = "none")
      BY <1>2, <2>1 DEF WorkerPlaces
    <3> QED BY <1>1, <2>1, <2>2, <3>1, <3>2, WorkerMoves
  <2>3. CASE /\ queue[p] # <<>> /\ WorkerAt(p, i, "read")
             /\ wjob' = [wjob EXCEPT ![p][i] = Head(queue[p])]
             /\ queue' = [queue EXCEPT ![p] = Tail(@)]
    BY <1>1, <2>1, <2>3, PopTickets
  <2> QED BY <1>3, <2>2, <2>3 DEF WorkerPop
<1>4. CASE WorkerRead(p, i)
  <2>1. UNCHANGED <<queue, pending, gen, npools, wjob>>
    BY <1>4 DEF WorkerRead, engineVars, poolVars, ticketVars
  <2>2. WorkerAt(p, i, "dec") /\ wpc[p][i] = "read" /\ "dec" \in WorkerPlaces
    BY <1>4 DEF WorkerRead, WorkerPlaces
  <2> QED BY <1>1, <1>2, <2>1, <2>2, WorkerMoves
<1>5. CASE WorkerDecrement(p, i) BY <1>1, <1>5, DecrementTickets
<1>6. CASE WorkerPublish(p, i)
  <2>1. UNCHANGED <<queue, pending, gen, npools>>
    BY <1>6 DEF WorkerPublish, engineVars, poolVars
  <2>2. WorkerAt(p, i, "lock") /\ wpc[p][i] = "publish" /\ "lock" \in WorkerPlaces
    BY <1>6 DEF WorkerPublish, WorkerPlaces
  <2>3. wjob' = [wjob EXCEPT ![p][i] = None] /\ wjob \in [Pools -> [Workers -> Jobs \cup {None}]]
    BY <1>6 DEF WorkerPublish, TypeInv, TypeOK, WorkerType
  <2>4. \A q \in Pools, k \in Workers : k \in Busy(q) => wjob'[q][k] = wjob[q][k]
    BY <2>2, <2>3 DEF Busy
  <2> QED BY <1>1, <1>2, <2>1, <2>2, <2>4, WorkerMoves
<1> QED BY <1>3, <1>4, <1>5, <1>6 DEF Worker

LEMMA SameTickets ==
    ASSUME LifetimeInv, Tickets, UNCHANGED <<queue, pending, gen, npools, wpc, wjob>>
    PROVE  \A q \in Pools : PoolTickets(q)'
<1> SUFFICES ASSUME NEW q \in Pools PROVE PoolTickets(q)' OBVIOUS
<1>1. Busy(q)' = Busy(q) BY DEF Busy
<1> QED BY <1>1, KeepTickets DEF Tickets, PoolTickets

LEMMA InitTicketInv == Init => TicketInv
<1> SUFFICES ASSUME Init PROVE Tickets BY InitLifetimeInv DEF TicketInv
<1>1. CallUnits BY DEF Init, CallUnits, NoCall, NewCall
<1>2. ASSUME NEW p \in Pools PROVE PoolTickets(p)
  <2>1. queue[p] = <<>> /\ npools = 0 /\ \A w \in Tensors : pending[p][w] = 0 BY DEF Init
  <2>2. \A i \in Workers : wpc[p][i] = "none" BY DEF Init
  <2>3. JobsIn(queue[p]) = {} /\ Busy(p) = {} BY <2>1, <2>2 DEF JobsIn, Busy
  <2>4. InFlight(p) = {} BY <2>3 DEF InFlight
  <2>5. Owed(p) = {} /\ \A w \in Tensors : Outstanding(p, w) = {}
    BY <2>3, <2>4 DEF Owed, Outstanding
  <2>6. Len(queue[p]) = 0 /\ gen[p] = [w \in Tensors |-> 0] BY <2>1 DEF Init
  <2>7. \A w \in Tensors : pending[p][w] = Cardinality(Outstanding(p, w))
    BY <2>1, <2>5, FS_EmptySet
  <2>8. \A i, k \in 1..Len(queue[p]) : queue[p][i] = queue[p][k] => i = k BY <2>6
  <2> QED BY <2>1, <2>2, <2>3, <2>4, <2>5, <2>7, <2>8 DEF PoolTickets
<1> QED BY <1>1, <1>2 DEF Tickets

LEMMA NextTicketInv == TicketInv /\ [Next]_vars => TicketInv'
<1> SUFFICES ASSUME TicketInv, [Next]_vars PROVE TicketInv' OBVIOUS
<1> USE DEF TicketInv
<1>1. LifetimeInv' BY NextLifetimeInv
<1>2. CallUnits'
  <2>1. CASE Next BY <2>1, CallUnitsStep DEF LifetimeInv, Tickets
  <2>2. CASE UNCHANGED vars BY <2>2 DEF vars, clientVars, Tickets, CallUnits
  <2> QED BY <2>1, <2>2
<1>3. \A q \in Pools : PoolTickets(q)'
  <2>1. CASE UNCHANGED vars
    BY <2>1, SameTickets DEF vars, engineVars, poolVars, ticketVars, workerVars
  <2>2. ASSUME NEW c \in Clients, Setup(c) PROVE \A q \in Pools : PoolTickets(q)'
    BY <2>2, SameTickets
       DEF Setup, NewEpoch, RegisterMapping, UnregisterMapping, SetNThreads, engineVars,
           poolVars, ticketVars, workerVars
  <2>3. ASSUME NEW c \in Clients, NEW w \in Tensors, TensorCall(c, w)
        PROVE  \A q \in Pools : PoolTickets(q)'
    <3>1. UNCHANGED <<gen, poolVars, ticketVars, workerVars>>
      BY <2>3 DEF TensorCall, PrefetchTensor, PrefetchNode, PrefetchExperts, CallEnqueue,
         CallWait, CallCold, engineVars
    <3> QED BY <3>1, SameTickets DEF poolVars, ticketVars, workerVars
  <2>4. ASSUME NEW c \in Clients, Continue(c) PROVE \A q \in Pools : PoolTickets(q)'
    <3>1. CASE \/ EnqueueReadEpoch(c) \/ EnqueueRefused(c) \/ WaitGetPool(c) \/ WaitLookup(c)
               \/ WaitCheck(c) \/ ColdTake(c) \/ ColdApply(c) \/ Join(c)
      <4>1. UNCHANGED <<engineVars, npools, queue, pending, workerVars>>
        BY <3>1 DEF EnqueueReadEpoch, EnqueueRefused, WaitGetPool, WaitLookup, WaitCheck,
           ColdTake, ColdApply, Join, poolVars, ticketVars
      <4> QED BY <4>1, SameTickets DEF engineVars, workerVars
    <3> QED BY <2>4, <3>1, EnqueueTickets, StopTickets, StartTickets DEF Continue
  <2>5. CASE Next BY <2>2, <2>3, <2>4, <2>5, WorkerTickets DEF Next
  <2> QED BY <2>1, <2>5
<1> QED BY <1>1, <1>2, <1>3 DEF Tickets

\* ticket::pending is exact, whatever the interleaving of workers, enqueues and
\* pool replacement: every job is counted once and completed once.
THEOREM TicketsAreExact == Spec => []PendingExact
<1>1. Init => TicketInv BY InitTicketInv
<1>2. TicketInv /\ [Next]_vars => TicketInv' BY NextTicketInv
<1>3. TicketInv => PendingExact BY DEF TicketInv, Tickets, PoolTickets, PendingExact
<1> QED BY <1>1, <1>2, <1>3, PTL DEF Spec
-----------------------------------------------------------------------------
\* A client leaves a wait by its own step only.
LEMMA OwnStepLeavesWait ==
    ASSUME TypeInv, Next, NEW c \in Clients, pc[c] \in {"wait_lookup", "wait_check"},
           pc'[c] \notin {pc[c], "wait_check", "wait_sleep"}
    PROVE  WaitLookup(c) \/ WaitCheck(c)
<1> USE DEF TypeInv, TypeOK
<1>1. pc \in [Clients -> ClientPlaces] BY DEF ClientType
<1>2. ASSUME NEW d \in Clients, NEW v, pc' = [pc EXCEPT ![d] = v] PROVE d = c
  BY <1>1, <1>2
<1>3. ASSUME NEW d \in Clients, NEW next, Drop(d, next) PROVE d = c BY <1>2, <1>3 DEF Drop
<1>4. ASSUME NEW d \in Clients, NEW place, NEW args, GetPool(d, place, args) PROVE d = c
  BY <1>2, <1>4 DEF GetPool
<1>5. ASSUME NEW d \in Clients, Setup(d) PROVE FALSE
  <2>1. pc[d] = "idle" /\ (pc' = pc \/ \E v : pc' = [pc EXCEPT ![d] = v])
    BY <1>5 DEF Setup, NewEpoch, RegisterMapping, UnregisterMapping, SetNThreads, clientVars
  <2> QED BY <1>2, <2>1
<1>6. ASSUME NEW d \in Clients, NEW w \in Tensors, TensorCall(d, w) PROVE FALSE
  <2>1. pc[d] = "idle" /\ \E place, args : GetPool(d, place, args)
    BY <1>6 DEF TensorCall, PrefetchTensor, PrefetchNode, PrefetchExperts, CallEnqueue,
       CallWait, CallCold
  <2> QED BY <1>4, <2>1
<1>7. ASSUME NEW p \in Pools, NEW i \in Workers, Worker(p, i) PROVE FALSE
  <2>1. pc' = pc \/ WakeWaiters(p)
    BY <1>7 DEF Worker, WorkerPop, WorkerRead, WorkerDecrement, WorkerPublish, clientVars
  <2> QED BY <2>1 DEF WakeWaiters
<1>8. ASSUME NEW d \in Clients, Continue(d) PROVE WaitLookup(c) \/ WaitCheck(c)
  <2>1. CASE WaitLookup(d) \/ WaitCheck(d)
    <3>1. d = c BY <1>2, <1>3, <2>1 DEF WaitLookup, WaitCheck
    <3> QED BY <2>1, <3>1
  <2>2. CASE EnqueueReadEpoch(d)
    <3>1. d = c BY <1>2, <1>3, <2>2 DEF EnqueueReadEpoch
    <3> QED BY <2>2, <3>1 DEF EnqueueReadEpoch
  <2>3. CASE EnqueueRefused(d) \/ EnqueueRanges(d)
    <3>1. d = c /\ pc[d] = "enq_lock" BY <1>3, <2>3 DEF EnqueueRefused, EnqueueRanges
    <3> QED BY <3>1
  <2>4. CASE WaitGetPool(d)
    <3>1. d = c /\ pc[d] = "wait_pool" BY <1>4, <2>4 DEF WaitGetPool
    <3> QED BY <3>1
  <2>5. CASE ColdTake(d) \/ ColdApply(d)
    <3>1. d = c /\ pc[d] \in {"cold_take", "cold_apply"}
      BY <1>2, <1>3, <2>5 DEF ColdTake, ColdApply
    <3> QED BY <3>1
  <2>6. CASE SetStart(d) \/ Join(d)
    <3>1. d = c /\ pc[d] \in {"set_start", "join"} BY <1>2, <2>6 DEF SetStart, Join
    <3> QED BY <3>1
  <2>7. CASE Stop(d)
    <3>1. pc[d] = "stop" /\ pc'[c] = (IF c = d THEN "join"
                                     ELSE IF pc[c] = "wait_sleep" /\ held[c] = held[d]
                                     THEN "wait_check" ELSE pc[c])
      BY <2>7 DEF Stop
    <3> QED BY <3>1
  <2> QED BY <1>8, <2>1, <2>2, <2>3, <2>4, <2>5, <2>6, <2>7 DEF Continue
<1> QED BY <1>5, <1>6, <1>7, <1>8 DEF Next

\* A client that leaves a wait leaves nothing owed behind it.
LEMMA NextWaitReturns == TicketInv /\ [Next]_vars => [WaitReturnsDone]_vars
<1> SUFFICES ASSUME TicketInv, Next, NEW c \in Clients,
                    pc[c] \in {"wait_lookup", "wait_check"},
                    pc'[c] \notin {pc[c], "wait_check", "wait_sleep"}
             PROVE  Outstanding(held[c], call[c].w) = {}
  BY DEF WaitReturnsDone
<1>1. TypeInv BY DEF TicketInv, LifetimeInv
<1>2. PICK p \in Pools, w \in Tensors : p = held[c] /\ w = call[c].w
  BY <1>1 DEF TypeInv, ClientInv, HoldPlaces, TensorPlaces
<1>3. WaitLookup(c) \/ WaitCheck(c) BY <1>1, OwnStepLeavesWait
<1>4. ~shutdown[p]
  BY <1>2 DEF TicketInv, LifetimeInv, Lifetime, NoCallOnDeadPool
<1>5. pending[p][w] <= 0
  <2>1. pc \in [Clients -> ClientPlaces] BY <1>1 DEF TypeInv, TypeOK, ClientType
  <2> QED BY <1>2, <1>3, <1>4, <2>1 DEF WaitLookup, WaitCheck, WaitReady
<1>6. pending[p][w] = Cardinality(Outstanding(p, w)) /\ IsFiniteSet(Outstanding(p, w))
  BY <1>1, OwedFinite DEF TicketInv, Tickets, PoolTickets
<1>7. Cardinality(Outstanding(p, w)) = 0 BY <1>5, <1>6, FS_CardinalityType
<1> QED BY <1>2, <1>6, <1>7, FS_EmptySet

\* ggml_moe_prefetch_wait is a barrier for the pool it looked at, though it
\* reads the counter first without the lock: a counter of zero means that
\* nothing is owed, and no pool is shut down under a waiter.
THEOREM WaitBarrier == Spec => WaitIsBarrier
<1>1. Init => TicketInv BY InitTicketInv
<1>2. TicketInv /\ [Next]_vars => TicketInv' BY NextTicketInv
<1>3. TicketInv /\ [Next]_vars => [WaitReturnsDone]_vars BY NextWaitReturns
<1> QED BY <1>1, <1>2, <1>3, PTL DEF Spec, WaitIsBarrier

-----------------------------------------------------------------------------
(* The order and the length of the queue                                   *)

USE MaxQueueAssumption

\* The places of lookahead jobs in a queue.
Lookaheads(q) == { k \in 1..Len(q) : ~q[k].urgent }

\* A queue is an urgent part followed by a lookahead part.
Sorted(q) == \A i, k \in 1..Len(q) : i < k /\ q[k].urgent => q[i].urgent

\* What a queue may become: itself, nothing, itself without its front, or
\* itself with the jobs of a call inserted.
QueueStep(q, r) ==
    \/ r = q
    \/ r = <<>>
    \/ q # <<>> /\ r = Tail(q)
    \/ \E js \in Seq(Jobs), urgent \in BOOLEAN :
          /\ Len(js) <= NChunks
          /\ \A k \in 1..Len(js) : js[k].urgent = urgent
          /\ ~urgent => Len(q) <= MaxQueue
          /\ r = Insert(js, q, urgent)
-----------------------------------------------------------------------------
\* The places of a set fit into another when all are moved by the same distance.
LEMMA ShiftedSet ==
    ASSUME NEW d \in Int, NEW A \in SUBSET Int, NEW B \in SUBSET Int, IsFiniteSet(B),
           \A k \in A : k + d \in B
    PROVE  IsFiniteSet(A) /\ Cardinality(A) <= Cardinality(B)
<1> DEFINE f == [k \in A |-> k + d]
<1>1. f \in [A -> B] OBVIOUS
<1>2. \A i, k \in A : f[i] = f[k] => i = k
  <2> SUFFICES ASSUME NEW i \in A, NEW k \in A, f[i] = f[k] PROVE i = k OBVIOUS
  <2>1. i + d = k + d OBVIOUS
  <2> QED BY <2>1
<1> HIDE DEF f
<1>3. f \in Injection(A, B) BY <1>1, <1>2 DEF Injection, IsInjective
<1> QED BY <1>3, FS_Injection

\* Lookahead places are places, and finite in number.
LEMMA LookaheadsFinite ==
    ASSUME NEW q \in Seq(Jobs)
    PROVE  /\ Lookaheads(q) \in SUBSET Int
           /\ IsFiniteSet(Lookaheads(q)) /\ Cardinality(Lookaheads(q)) \in Nat
           /\ Cardinality(Lookaheads(q)) <= Len(q)
<1>1. Len(q) \in Nat OBVIOUS
<1>2. IsFiniteSet(1..Len(q)) /\ Cardinality(1..Len(q)) = Len(q)
  <2>1. 1 \in Int /\ Len(q) \in Int BY <1>1
  <2>2. /\ IsFiniteSet(1..Len(q))
        /\ Cardinality(1..Len(q)) = (IF 1 > Len(q) THEN 0 ELSE Len(q) - 1 + 1)
    BY <2>1, FS_Interval
  <2> QED BY <1>1, <2>2
<1>3. Lookaheads(q) \in SUBSET (1..Len(q)) BY DEF Lookaheads
<1>4. IsFiniteSet(Lookaheads(q)) /\ Cardinality(Lookaheads(q)) <= Cardinality(1..Len(q))
  BY <1>2, <1>3, FS_Subset
<1>5. Cardinality(Lookaheads(q)) \in Nat BY <1>4, FS_CardinalityType
<1> QED BY <1>1, <1>2, <1>3, <1>4, <1>5

\* Every queue step keeps urgent jobs in front.
LEMMA StepSorted ==
    ASSUME NEW q \in Seq(Jobs), NEW r, QueueStep(q, r), Sorted(q)
    PROVE  Sorted(r)
<1>1. CASE r = q BY <1>1
<1>2. CASE r = <<>> BY <1>2 DEF Sorted
<1>3. CASE q # <<>> /\ r = Tail(q)
  <2>1. /\ Len(r) = Len(q) - 1 /\ Len(q) \in Nat \ {0}
        /\ \A k \in 1..Len(r) : r[k] = q[k + 1]
    BY <1>3
  <2> SUFFICES ASSUME NEW i \in 1..Len(r), NEW k \in 1..Len(r), i < k, r[k].urgent
               PROVE  r[i].urgent
    BY DEF Sorted
  <2>2. i + 1 \in 1..Len(q) /\ k + 1 \in 1..Len(q) /\ i + 1 < k + 1 BY <2>1
  <2>3. r[i] = q[i + 1] /\ r[k] = q[k + 1] BY <2>1
  <2> QED BY <2>2, <2>3, Zenon DEF Sorted
<1>4. ASSUME NEW js \in Seq(Jobs), NEW urgent \in BOOLEAN,
             \A k \in 1..Len(js) : js[k].urgent = urgent, r = Insert(js, q, urgent)
      PROVE  Sorted(r)
  <2> SUFFICES ASSUME NEW i \in 1..Len(r), NEW k \in 1..Len(r), i < k, r[k].urgent
               PROVE  r[i].urgent
    BY DEF Sorted
  <2>1. CASE urgent
    <3>1. r = js \o q BY <1>4, <2>1 DEF Insert
    <3>2. /\ Len(r) = Len(js) + Len(q) /\ Len(js) \in Nat /\ Len(q) \in Nat
          /\ \A m \in 1..Len(r) : r[m] = IF m <= Len(js) THEN js[m] ELSE q[m - Len(js)]
      BY <3>1
    <3>3. CASE i <= Len(js)
      <4>1. r[i] = js[i] /\ i \in 1..Len(js) BY <3>2, <3>3
      <4> QED BY <1>4, <2>1, <4>1, Zenon
    <3>4. CASE i > Len(js)
      <4>1. /\ i - Len(js) \in 1..Len(q) /\ k - Len(js) \in 1..Len(q)
            /\ i - Len(js) < k - Len(js)
            /\ r[i] = q[i - Len(js)] /\ r[k] = q[k - Len(js)]
        BY <3>2, <3>4
      <4> QED BY <4>1, Zenon DEF Sorted
    <3> QED BY <3>2, <3>3, <3>4
  <2>2. CASE ~urgent
    <3>1. r = q \o js BY <1>4, <2>2 DEF Insert
    <3>2. /\ Len(r) = Len(q) + Len(js) /\ Len(js) \in Nat /\ Len(q) \in Nat
          /\ \A m \in 1..Len(r) : r[m] = IF m <= Len(q) THEN q[m] ELSE js[m - Len(q)]
      BY <3>1
    <3>3. CASE k <= Len(q)
      <4>1. i \in 1..Len(q) /\ k \in 1..Len(q) /\ r[i] = q[i] /\ r[k] = q[k]
        BY <3>2, <3>3
      <4> QED BY <4>1, Zenon DEF Sorted
    <3>4. CASE k > Len(q)
      <4>1. k - Len(q) \in 1..Len(js) /\ r[k] = js[k - Len(q)] BY <3>2, <3>4
      <4> QED BY <1>4, <2>2, <4>1, Zenon
    <3> QED BY <3>2, <3>3, <3>4
  <2> QED BY <2>1, <2>2
<1> QED BY <1>1, <1>2, <1>3, <1>4 DEF QueueStep

\* Every queue step keeps the lookahead part within its bound.
LEMMA StepBounded ==
    ASSUME NEW q \in Seq(Jobs), NEW r \in Seq(Jobs), QueueStep(q, r),
           Cardinality(Lookaheads(q)) <= MaxQueue + NChunks
    PROVE  Cardinality(Lookaheads(r)) <= MaxQueue + NChunks
<1> DEFINE Fewer == Cardinality(Lookaheads(r)) <= Cardinality(Lookaheads(q))
<1>1. /\ Cardinality(Lookaheads(r)) \in Nat /\ Cardinality(Lookaheads(r)) <= Len(r)
      /\ Cardinality(Lookaheads(q)) \in Nat /\ IsFiniteSet(Lookaheads(q))
      /\ Lookaheads(q) \in SUBSET Int /\ Lookaheads(r) \in SUBSET Int
  BY LookaheadsFinite
<1>2. CASE r = q BY <1>2
<1>3. CASE r = <<>>
  <2>1. Len(r) = 0 BY <1>3
  <2> QED BY <1>1, <2>1
<1>4. CASE q # <<>> /\ r = Tail(q)
  <2>1. /\ Len(r) = Len(q) - 1 /\ Len(q) \in Nat \ {0}
        /\ \A k \in 1..Len(r) : r[k] = q[k + 1]
    BY <1>4
  <2> DEFINE d == 1
  <2>2. ASSUME NEW k \in Lookaheads(r) PROVE k + d \in Lookaheads(q)
    <3>1. k \in 1..Len(r) /\ ~r[k].urgent BY DEF Lookaheads
    <3>2. k + d \in 1..Len(q) /\ r[k] = q[k + d] BY <2>1, <3>1
    <3> HIDE DEF d
    <3> QED BY <3>1, <3>2, Zenon DEF Lookaheads
  <2>3. d \in Int OBVIOUS
  <2> HIDE DEF d
  <2>4. Fewer BY <1>1, <2>2, <2>3, ShiftedSet
  <2> QED BY <1>1, <2>4
<1>5. ASSUME NEW js \in Seq(Jobs), NEW urgent \in BOOLEAN, Len(js) <= NChunks,
             \A k \in 1..Len(js) : js[k].urgent = urgent, ~urgent => Len(q) <= MaxQueue,
             r = Insert(js, q, urgent)
      PROVE  Cardinality(Lookaheads(r)) <= MaxQueue + NChunks
  <2>1. CASE urgent
    <3> DEFINE d == 0 - Len(js)
    <3>1. r = js \o q BY <1>5, <2>1 DEF Insert
    <3>2. /\ Len(r) = Len(js) + Len(q) /\ Len(js) \in Nat /\ Len(q) \in Nat
          /\ \A k \in 1..Len(r) : r[k] = IF k <= Len(js) THEN js[k] ELSE q[k - Len(js)]
      BY <3>1
    <3>3. ASSUME NEW k \in Lookaheads(r) PROVE k + d \in Lookaheads(q)
      <4>1. k \in 1..Len(r) /\ ~r[k].urgent BY DEF Lookaheads
      <4>2. k \notin 1..Len(js)
        <5> SUFFICES ASSUME k \in 1..Len(js) PROVE FALSE OBVIOUS
        <5>1. r[k] = js[k] BY <3>2, <4>1
        <5> QED BY <1>5, <2>1, <4>1, <5>1, Zenon
      <4>3. k + d \in 1..Len(q) /\ r[k] = q[k + d] BY <3>2, <4>1, <4>2
      <4> HIDE DEF d
      <4> QED BY <4>1, <4>3, Zenon DEF Lookaheads
    <3>4. d \in Int BY <3>2
    <3> HIDE DEF d
    <3>5. Fewer BY <1>1, <3>3, <3>4, ShiftedSet
    <3> QED BY <1>1, <3>5
  <2>2. CASE ~urgent
    <3>1. r = q \o js BY <1>5, <2>2 DEF Insert
    <3>2. Len(r) = Len(q) + Len(js) /\ Len(js) \in Nat /\ Len(q) \in Nat BY <3>1
    <3> QED BY <1>1, <1>5, <2>2, <3>2
  <2> QED BY <2>1, <2>2
<1> QED BY <1>2, <1>3, <1>4, <1>5 DEF QueueStep
-----------------------------------------------------------------------------
\* A call reads each unit at most once, so it queues at most NChunks jobs.
LEMMA CallLength ==
    ASSUME TypeInv, Tickets, NEW c \in Clients
    PROVE  Len(call[c].cs) \in Nat /\ Len(call[c].cs) <= NChunks
<1> DEFINE cs == call[c].cs
<1>1. cs \in Seq(Chunks) BY DEF TypeInv, TypeOK, ClientType, Calls
<1>2. \A i, k \in 1..Len(cs) : cs[i] = cs[k] => i = k BY DEF Tickets, CallUnits
<1> HIDE DEF cs
<1>3. Len(cs) \in Nat BY <1>1
<1> DEFINE n == Len(cs)
           f == [k \in 1..n |-> cs[k]]
<1>4. f \in [1..n -> Chunks] BY <1>1
<1>5. \A i, k \in 1..n : f[i] = f[k] => i = k BY <1>2
<1>6. IsFiniteSet(1..n) /\ Cardinality(1..n) = n
  <2>1. 1 \in Int /\ n \in Int BY <1>3
  <2>2. IsFiniteSet(1..n) /\ Cardinality(1..n) = (IF 1 > n THEN 0 ELSE n - 1 + 1)
    BY <2>1, FS_Interval
  <2> QED BY <1>3, <2>2
<1>7. IsFiniteSet(Chunks) /\ Cardinality(Chunks) = NChunks
  <2>1. 1 \in Int /\ NChunks \in Int OBVIOUS
  <2>2. IsFiniteSet(1..NChunks) /\ Cardinality(1..NChunks) = (IF 1 > NChunks THEN 0 ELSE NChunks - 1 + 1)
    BY <2>1, FS_Interval
  <2> QED BY <2>2 DEF Chunks
<1> HIDE DEF f, n
<1>8. f \in Injection(1..n, Chunks) BY <1>4, <1>5 DEF Injection, IsInjective
<1>9. n <= NChunks BY <1>6, <1>7, <1>8, FS_Injection
<1> QED BY <1>3, <1>9 DEF cs, n

\* Every step of the engine is a queue step for every pool.
LEMMA NextQueueStep ==
    ASSUME TicketInv, [Next]_vars, NEW p \in Pools
    PROVE  QueueStep(queue[p], queue'[p])
<1> USE DEF TicketInv, LifetimeInv
<1>1. queue \in [Pools -> Seq(Jobs)] BY DEF TypeInv, TypeOK, TicketType
<1>2. CASE queue' = queue BY <1>2 DEF QueueStep
<1>3. ASSUME NEW c \in Clients, Stop(c) PROVE QueueStep(queue[p], queue'[p])
  <2>1. queue' = [queue EXCEPT ![held[c]] = <<>>] BY <1>3 DEF Stop
  <2> QED BY <1>1, <2>1 DEF QueueStep
<1>4. ASSUME NEW c \in Clients, EnqueueRanges(c) PROVE QueueStep(queue[p], queue'[p])
  <2>1. PICK h \in Pools, w \in Tensors : h = held[c] /\ w = call[c].w
    BY <1>4 DEF EnqueueRanges, TypeInv, ClientInv, HoldPlaces, TensorPlaces
  <2> DEFINE js == NewJobs(c, gen[h][w] + 1)
             urgent == (call[c].op = "node")
  <2>2. queue' = [queue EXCEPT ![h] = Insert(js, @, urgent)] /\ ~QueueFull(c)
    BY <1>4, <2>1 DEF EnqueueRanges
  <2>3. gen[h][w] + 1 \in Nat BY DEF TypeInv, TypeOK, EngineType
  <2>4. /\ js \in Seq(Jobs) /\ Len(js) = Len(call[c].cs)
        /\ \A k \in 1..Len(call[c].cs) :
             js[k] = [w |-> call[c].w, c |-> call[c].cs[k], g |-> gen[h][w] + 1,
                      e |-> call[c].epoch, urgent |-> urgent]
    BY <2>1, <2>3, NewJobsType DEF TypeInv
  <2>8. urgent \in BOOLEAN OBVIOUS
  <2> HIDE DEF js, urgent
  <2>5. ASSUME NEW k \in 1..Len(js) PROVE js[k].urgent = urgent
    <3>1. js[k] = [w |-> call[c].w, c |-> call[c].cs[k], g |-> gen[h][w] + 1,
                   e |-> call[c].epoch, urgent |-> urgent]
      BY <2>4
    <3> QED BY <3>1
  <2>6. Len(js) <= NChunks BY <2>4, CallLength
  <2>7. ~urgent => Len(queue[h]) <= MaxQueue
    <3>1. Len(queue[h]) \in Nat BY <1>1
    <3> QED BY <2>1, <2>2, <3>1 DEF QueueFull, urgent
  <2>9. CASE p = h
    <3>1. queue'[p] = Insert(js, queue[p], urgent) BY <1>1, <2>2, <2>9
    <3> QED BY <2>4, <2>5, <2>6, <2>7, <2>8, <2>9, <3>1 DEF QueueStep
  <2>10. CASE p # h BY <1>1, <2>2, <2>10 DEF QueueStep
  <2> QED BY <2>9, <2>10
<1>5. ASSUME NEW q \in Pools, NEW i \in Workers, WorkerPop(q, i)
      PROVE  QueueStep(queue[p], queue'[p])
  <2>1. \/ queue' = queue
        \/ queue[q] # <<>> /\ queue' = [queue EXCEPT ![q] = Tail(@)]
    BY <1>5 DEF WorkerPop
  <2>2. \/ queue'[p] = queue[p]
        \/ queue[p] # <<>> /\ queue'[p] = Tail(queue[p])
    BY <1>1, <2>1
  <2> QED BY <2>2, Zenon DEF QueueStep
<1>6. CASE UNCHANGED vars BY <1>2, <1>6 DEF vars, ticketVars
<1>7. ASSUME NEW c \in Clients, Setup(c) PROVE queue' = queue
  BY <1>7 DEF Setup, NewEpoch, RegisterMapping, UnregisterMapping, SetNThreads, ticketVars
<1>8. ASSUME NEW c \in Clients, NEW w \in Tensors, TensorCall(c, w) PROVE queue' = queue
  BY <1>8 DEF TensorCall, PrefetchTensor, PrefetchNode, PrefetchExperts, CallEnqueue,
     CallWait, CallCold, ticketVars
<1>9. ASSUME NEW c \in Clients, Continue(c), ~EnqueueRanges(c), ~Stop(c) PROVE queue' = queue
  BY <1>9 DEF Continue, EnqueueReadEpoch, EnqueueRefused, WaitGetPool, WaitLookup,
     WaitCheck, ColdTake, ColdApply, SetStart, Join, ticketVars
<1>10. ASSUME NEW q \in Pools, NEW i \in Workers, Worker(q, i), ~WorkerPop(q, i)
       PROVE  queue' = queue
  BY <1>10 DEF Worker, WorkerRead, WorkerDecrement, WorkerPublish, ticketVars
<1>11. CASE Next
  BY <1>2, <1>3, <1>4, <1>5, <1>7, <1>8, <1>9, <1>10, <1>11 DEF Next
<1> QED BY <1>6, <1>11
-----------------------------------------------------------------------------
QueueInv == UrgentFirst /\ LookaheadBounded

LEMMA InitQueueInv == Init => QueueInv
<1> SUFFICES ASSUME Init, NEW p \in Pools
             PROVE  Sorted(queue[p]) /\ Cardinality(Lookaheads(queue[p])) <= MaxQueue + NChunks
  BY DEF QueueInv, UrgentFirst, LookaheadBounded, Sorted, Lookaheads
<1>1. queue[p] = <<>> /\ Len(queue[p]) = 0 BY DEF Init
<1>2. <<>> \in Seq(Jobs) OBVIOUS
<1>3. Cardinality(Lookaheads(<<>>)) \in Nat /\ Cardinality(Lookaheads(<<>>)) <= 0
  BY <1>2, LookaheadsFinite
<1> QED BY <1>1, <1>3 DEF Sorted

LEMMA NextQueueInv == TicketInv /\ QueueInv /\ [Next]_vars => QueueInv'
<1> SUFFICES ASSUME TicketInv, QueueInv, [Next]_vars, NEW p \in Pools
             PROVE  /\ Sorted(queue'[p])
                    /\ Cardinality(Lookaheads(queue'[p])) <= MaxQueue + NChunks
  BY DEF QueueInv, UrgentFirst, LookaheadBounded, Sorted, Lookaheads
<1>1. QueueStep(queue[p], queue'[p]) BY NextQueueStep
<1>2. queue[p] \in Seq(Jobs)
  BY DEF TicketInv, LifetimeInv, TypeInv, TypeOK, TicketType
<1>3. queue'[p] \in Seq(Jobs)
  <2>1. TicketInv' BY NextTicketInv
  <2> QED BY <2>1 DEF TicketInv, LifetimeInv, TypeInv, TypeOK, TicketType
<1>4. Sorted(queue[p]) /\ Cardinality(Lookaheads(queue[p])) <= MaxQueue + NChunks
  BY DEF QueueInv, UrgentFirst, LookaheadBounded, Sorted, Lookaheads
<1> QED BY <1>1, <1>2, <1>3, <1>4, StepSorted, StepBounded

\* However many threads ask, no lookahead job is ever ahead of an urgent one:
\* a kernel that waits for its experts is not delayed by queued lookahead.
THEOREM UrgentGoesFirst == Spec => []UrgentFirst
<1>1. Init => TicketInv /\ QueueInv BY InitTicketInv, InitQueueInv
<1>2. TicketInv /\ QueueInv /\ [Next]_vars => (TicketInv /\ QueueInv)'
  BY NextTicketInv, NextQueueInv
<1>3. QueueInv => UrgentFirst BY DEF QueueInv
<1> QED BY <1>1, <1>2, <1>3, PTL DEF Spec

\* The queue limit is tested before a whole tensor is added, and urgent work
\* ignores it; still lookahead exceeds the limit by one tensor at most.
THEOREM LookaheadIsBounded == Spec => []LookaheadBounded
<1>1. Init => TicketInv /\ QueueInv BY InitTicketInv, InitQueueInv
<1>2. TicketInv /\ QueueInv /\ [Next]_vars => (TicketInv /\ QueueInv)'
  BY NextTicketInv, NextQueueInv
<1>3. QueueInv => LookaheadBounded BY DEF QueueInv
<1> QED BY <1>1, <1>2, <1>3, PTL DEF Spec
=============================================================================
