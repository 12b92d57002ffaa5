---------------------------- MODULE TaskService ----------------------------
(***************************************************************************)
(* What the server promises about tasks: each one is queued, perhaps runs, *)
(* and is over; it gets at most one final result, in the step that ends    *)
(* it, and nothing of it comes back afterwards.  A step may move several   *)
(* tasks (a request of several tasks, a failed batch).                     *)
(***************************************************************************)
EXTENDS Naturals

CONSTANT Ids
VARIABLES
    life,  \* id -> "new", "queued", "running", "over"
    final  \* id -> final results sent

Init == life = [id \in Ids |-> "new"] /\ final = [id \in Ids |-> 0]

Moves ==
    {<<"new", "queued">>, <<"queued", "running">>, <<"queued", "over">>, <<"running", "over">>}

Stays(id) == life'[id] = life[id] /\ final'[id] = final[id]
Moved(id) == <<life[id], life'[id]>> \in Moves /\ final'[id] = final[id]
Answered(id) ==
    /\ life[id] \in {"queued", "running"} /\ life'[id] = "over"
    /\ final[id] = 0 /\ final'[id] = 1

Next == \A id \in Ids : Stays(id) \/ Moved(id) \/ Answered(id)
Spec == Init /\ [][Next]_<<life, final>>
=============================================================================
