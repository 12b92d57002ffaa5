--------------------------- MODULE MCMoePrefetch ---------------------------
(***************************************************************************)
(* MoePrefetch for TLC.  The exploration starts after llama_init: the      *)
(* model is mapped and a first pool runs.  From there the clients make any *)
(* MaxCalls calls between them.                                            *)
(***************************************************************************)
EXTENDS MoePrefetch, TLC

CONSTANT MaxCalls

VARIABLE ncalls  \* calls made so far

mcVars == <<vars, ncalls>>

MCInit ==
    /\ ncalls = 0
    /\ epoch = 1
    /\ registered = TRUE
    /\ pinned = [w \in Tensors |-> {}]
    /\ gen = [p \in Pools |-> [w \in Tensors |-> 0]]
    /\ pool = 1 /\ poolMtx = None /\ npools = 1
    /\ size = [p \in Pools |-> IF p = 1 THEN MaxThreads ELSE 0]
    /\ shutdown = [p \in Pools |-> FALSE]
    /\ queue = [p \in Pools |-> <<>>]
    /\ pending = [p \in Pools |-> [w \in Tensors |-> 0]]
    /\ tkEpoch = [p \in Pools |-> [w \in Tensors |-> 0]]
    /\ tkTrack = [p \in Pools |-> [w \in Tensors |-> FALSE]]
    /\ tkReads = [p \in Pools |-> [w \in Tensors |-> {}]]
    /\ wpc = [p \in Pools |-> [i \in Workers |-> IF p = 1 THEN "lock" ELSE "none"]]
    /\ wjob = [p \in Pools |-> [i \in Workers |-> None]]
    /\ wdone = [p \in Pools |-> [i \in Workers |-> FALSE]]
    /\ wlast = [p \in Pools |-> [i \in Workers |-> FALSE]]
    /\ pc = [c \in Clients |-> "idle"]
    /\ call = [c \in Clients |-> NoCall]
    /\ held = [c \in Clients |-> None]
    /\ resume = [c \in Clients |-> "idle"]

MCCall ==
    /\ ncalls < MaxCalls
    /\ \E c \in Clients :
          \/ Setup(c)
          \/ \E w \in Tensors : TensorCall(c, w)
    /\ ncalls' = ncalls + 1

MCNext ==
    \/ MCCall
    \/ \E c \in Clients : Continue(c) /\ UNCHANGED ncalls
    \/ \E p \in Pools, i \in Workers : Worker(p, i) /\ UNCHANGED ncalls

ClientSymmetry == Permutations(Clients)

MCSpec == MCInit /\ [][MCNext]_mcVars /\ Fairness
=============================================================================
