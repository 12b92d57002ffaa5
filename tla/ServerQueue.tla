---------------------------- MODULE ServerQueue ----------------------------
(***************************************************************************)
(* server_queue and server_response: the task queue between the HTTP       *)
(* threads and the loop thread, and the two result queues back.  Every     *)
(* operation is one critical section of mutex_tasks or of mutex_results.   *)
(* The id of a request's task stands for the fresh number id++ hands out,  *)
(* NoId for the ids nobody awaits; id_slot 0 is the -1 of a task that      *)
(* names no slot.                                                          *)
(***************************************************************************)
EXTENDS Naturals, Sequences, FiniteSets, FiniteSetsExt, SequencesExt

CONSTANTS
    Ids,   \* ids of the tasks of requests
    NoId   \* -1, and the ids of CANCEL and NEXT_RESPONSE tasks

VARIABLES
    queue_tasks,
    queue_tasks_deferred,
    waiting_task_ids,
    queue_results,         \* read by recv_with_timeout
    queue_results_legacy   \* read by recv

taskQueues == <<queue_tasks, queue_tasks_deferred>>
resultQueues == <<queue_results, queue_results_legacy>>
queueVars == <<taskQueues, waiting_task_ids, resultQueues>>

TaskTypes == {"slot_task", "at_once", "CANCEL", "NEXT_RESPONSE"}
Task == [type : TaskTypes, id : Ids \cup {NoId}, target : Ids \cup {NoId},
         id_slot : Nat]
NewTask(type, id, slot) == [type |-> type, id |-> id, target |-> NoId, id_slot |-> slot]
CancelTask(id) == [NewTask("CANCEL", NoId, 0) EXCEPT !.target = id]
NextResponse == NewTask("NEXT_RESPONSE", NoId, 0)

Result == [id : Ids, error : BOOLEAN]
Answer(id) == [id |-> id, error |-> FALSE]
Failure(id) == [id |-> id, error |-> TRUE]

\* The k-th number of S, and the elements of q at some places, in order.
Nth(S, k) == CHOOSE i \in S : Cardinality({j \in S : j <= i}) = k
Pick(q, S) == [k \in 1..Cardinality(S) |-> q[Nth(S, k)]]

QueueInit ==
    /\ queue_tasks = <<>> /\ queue_tasks_deferred = <<>>
    /\ waiting_task_ids = {}
    /\ queue_results = <<>> /\ queue_results_legacy = <<>>

-----------------------------------------------------------------------------
(* server_queue                                                            *)

\* Both overloads of post push at the back ...
Post(tasks) ==
    /\ queue_tasks' = queue_tasks \o tasks
    /\ UNCHANGED queue_tasks_deferred

\* ... and cancels go to the front, after cleanup_pending_task has erased
\* their targets from both queues.
Without(q, ids) == Pick(q, {i \in DOMAIN q : q[i].id \notin ids})

PostCancels(ids) ==
    /\ queue_tasks' = SetToSeq({CancelTask(id) : id \in ids})
                          \o Without(queue_tasks, ids)
    /\ queue_tasks_deferred' = Without(queue_tasks_deferred, ids)

Defer(task) ==
    /\ queue_tasks_deferred' = Append(queue_tasks_deferred, task)
    /\ UNCHANGED queue_tasks

\* notify_slot_changed, then post of NEXT_RESPONSE, as update_slots calls
\* them: each one only if its condition holds.
DeferredKept(changed) == queue_tasks_deferred  \* mutant: copied, not moved
StillDeferred(changed) == IF changed THEN <<>> ELSE queue_tasks_deferred
Woken(changed) == IF changed THEN queue_tasks_deferred ELSE <<>>

NotifyAndPost(changed, tasks) ==
    /\ queue_tasks' = queue_tasks \o Woken(changed) \o tasks
    /\ queue_tasks_deferred' = StillDeferred(changed)

-----------------------------------------------------------------------------
(* server_response                                                         *)

AddWaiting(ids) ==
    waiting_task_ids' = waiting_task_ids \cup ids /\ UNCHANGED resultQueues

RemoveWaiting(ids) ==
    waiting_task_ids' = waiting_task_ids \ ids /\ UNCHANGED resultQueues

\* A result whose id nobody awaits is dropped.
Awaited(results) ==
    Pick(results, {i \in DOMAIN results : results[i].id \in waiting_task_ids})

\* send(server_task_result_ptr&&): completions, embeddings, every send_error.
Send(results) ==
    /\ queue_results' = queue_results \o Awaited(results)
    /\ UNCHANGED <<waiting_task_ids, queue_results_legacy>>

\* send(server_task_result): slot actions, metrics, adapters.
SendLegacy(results) ==
    /\ queue_results_legacy' = queue_results_legacy \o Awaited(results)
    /\ UNCHANGED <<waiting_task_ids, queue_results>>

\* The first result for one of ids is taken out of the queue.
FirstFor(results, ids) == Min({i \in DOMAIN results : results[i].id \in ids})
HasResult(results, ids) == \E i \in DOMAIN results : results[i].id \in ids
TakenOut(results, ids) == Pick(results, DOMAIN results \ {FirstFor(results, ids)})

TakeFirstFor(ids) ==
    /\ queue_results' = TakenOut(queue_results, ids)
    /\ UNCHANGED queue_results_legacy

Recv(id) ==
    /\ HasResult(queue_results_legacy, {id})
    /\ queue_results_legacy' = TakenOut(queue_results_legacy, {id})
    /\ UNCHANGED queue_results

QueueTypeOK ==
    /\ queue_tasks \in Seq(Task)
    /\ queue_tasks_deferred \in Seq(Task)
    /\ waiting_task_ids \subseteq Ids
    /\ queue_results \in Seq(Result)
    /\ queue_results_legacy \in Seq(Result)
=============================================================================
