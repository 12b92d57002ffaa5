------------------------------- MODULE Server -------------------------------
(***************************************************************************)
(* llama-server: HTTP threads that post tasks and wait for results, and    *)
(* the loop thread that runs the tasks on slots.  Readers use              *)
(* server_response_reader; legacy clients (slot actions, metrics,          *)
(* adapters) post one task and block in recv.  A client makes one request. *)
(***************************************************************************)
EXTENDS ServerSlots

CONSTANTS
    Readers, LegacyClients,
    TasksOf,   \* client -> the ids of its tasks
    Kinds,     \* id -> types the task may have: "slot_task" needs a slot
    IdSlots,   \* id -> what the request may give as id_slot: 0 for any slot,
               \* a slot, or one that does not exist
    SysPrompt  \* ids of requests that set the system prompt

Clients == Readers \cup LegacyClients

ASSUME ServerAssumption ==
    /\ Readers \cap LegacyClients = {} /\ NoId \notin Ids
    /\ IdSlots \in [Ids -> (SUBSET Nat) \ {{}}]
    /\ TasksOf \in [Clients -> (SUBSET Ids) \ {{}}]
    /\ \A c \in Clients : IsFiniteSet(TasksOf[c])
    /\ \A c, d \in Clients : c # d => TasksOf[c] \cap TasksOf[d] = {}
    /\ \A c \in LegacyClients : \E id \in Ids : TasksOf[c] = {id}
    /\ Kinds \in [Ids -> (SUBSET {"slot_task", "at_once"}) \ {{}}]
    /\ \A c \in Readers : \A id \in TasksOf[c] : Kinds[id] = {"slot_task"}
    /\ SysPrompt \subseteq Ids

VARIABLES
    pc,        \* step of each client
    received,  \* ids a reader has the final result of
    loop,      \* step of the loop thread
    cursor,    \* slot whose prompt is looked at in this update, or 0
    hand,      \* the task popped and not yet handled
    finals,    \* history: final results sent for each id
    dropped    \* history: ids whose slot was taken away without a word

clientVars == <<pc, received>>
historyVars == <<finals, dropped>>
vars == <<queueVars, slotVars, clientVars, loop, cursor, hand, historyVars>>

IsReaderTask(id) == \E c \in Readers : id \in TasksOf[c]
NoTask == NextResponse
AnySlot == 0

Init ==
    /\ QueueInit /\ SlotsInit
    /\ pc = [c \in Clients |-> "idle"] /\ received = [c \in Clients |-> {}]
    /\ loop = "wait" /\ cursor = 0 /\ hand = NoTask
    /\ finals = [id \in Ids |-> 0] /\ dropped = {}

\* What the loop thread sends, and the history of it.
Record(results) ==
    finals' = [id \in Ids |-> finals[id] +
                 Cardinality({i \in DOMAIN results : results[i] = Answer(id)})]

Respond(results) == Send(results) /\ Record(results) /\ UNCHANGED dropped
RespondLegacy(results) == SendLegacy(results) /\ Record(results) /\ UNCHANGED dropped
Silent == UNCHANGED <<waiting_task_ids, resultQueues, historyVars>>

-----------------------------------------------------------------------------
(* server_response_reader                                                  *)

PostRequest(c) ==
    \E type \in [TasksOf[c] -> {"slot_task", "at_once"}],
       slot \in [TasksOf[c] -> UNION {IdSlots[id] : id \in TasksOf[c]}] :
        /\ \A id \in TasksOf[c] : type[id] \in Kinds[id] /\ slot[id] \in IdSlots[id]
        /\ Post(SetToSeq({NewTask(type[id], id, slot[id]) : id \in TasksOf[c]}))
Goto(c, from, to) == pc[c] = from /\ pc' = [pc EXCEPT ![c] = to]
ClientKeeps == UNCHANGED <<slotVars, loop, cursor, hand, historyVars>>

\* post_tasks registers the ids before it posts.
PostTasks(c) ==
    \/ /\ Goto(c, "idle", "registered")
       /\ AddWaiting(TasksOf[c]) /\ UNCHANGED <<taskQueues, received>>
    \/ /\ Goto(c, "registered", "waiting")
       /\ PostRequest(c) /\ UNCHANGED <<waiting_task_ids, resultQueues, received>>

\* next: an error stops the reader; the last final result ends it.
NextResult(c) ==
    /\ pc[c] = "waiting" /\ HasResult(queue_results, TasksOf[c])
    /\ LET res == queue_results[FirstFor(queue_results, TasksOf[c])]
           got == received[c] \cup {res.id}
           end == res.error \/ got = TasksOf[c]
       IN  /\ received' = IF res.error THEN received ELSE [received EXCEPT ![c] = got]
           /\ waiting_task_ids' = IF end THEN waiting_task_ids \ TasksOf[c]
                                         ELSE waiting_task_ids
           /\ pc' = [pc EXCEPT ![c] = IF res.error THEN "stopping"
                                      ELSE IF end THEN "answered" ELSE "waiting"]
    /\ TakeFirstFor(TasksOf[c]) /\ UNCHANGED taskQueues

\* The connection is closed: only a client whose task is on a slot asks the
\* decode to stop, one step after it looked.
Leave(c) ==
    /\ \/ Goto(c, "waiting", "aborting") /\ OnSlot(TasksOf[c])
          /\ UNCHANGED waiting_task_ids
       \/ Goto(c, "waiting", "stopping") /\ ~OnSlot(TasksOf[c])
          /\ waiting_task_ids' = waiting_task_ids \ TasksOf[c]
    /\ UNCHANGED <<taskQueues, resultQueues, received>>

StopDecode(c) ==
    /\ Goto(c, "aborting", "stopping")
    /\ stop_internal_decode' = TRUE
    /\ RemoveWaiting(TasksOf[c])
    /\ UNCHANGED <<taskQueues, received, slots, batch, n_batch, ctx_shift,
                   loop, cursor, hand, historyVars>>

\* stop(): one CANCEL per task, at the front of the queue.
Stop(c) ==
    /\ Goto(c, "stopping", "left")
    /\ PostCancels(TasksOf[c])
    /\ UNCHANGED <<waiting_task_ids, resultQueues, received>>

Reader(c) ==
    \/ (PostTasks(c) \/ NextResult(c) \/ Leave(c) \/ Stop(c)) /\ ClientKeeps
    \/ StopDecode(c)

-----------------------------------------------------------------------------
(* Legacy handlers: post, then add_waiting_task_id, then recv.             *)

LegacyPost(c) ==
    /\ Goto(c, "idle", "posted")
    /\ PostRequest(c) /\ UNCHANGED <<waiting_task_ids, resultQueues>>

LegacyRegister(c) ==
    /\ Goto(c, "posted", "waiting")
    /\ AddWaiting(TasksOf[c]) /\ UNCHANGED taskQueues

LegacyRecv(c) ==
    /\ Goto(c, "waiting", "answered")
    /\ \E id \in TasksOf[c] : Recv(id)
    /\ waiting_task_ids' = waiting_task_ids \ TasksOf[c]
    /\ UNCHANGED taskQueues

Legacy(c) ==
    (LegacyPost(c) \/ LegacyRegister(c) \/ LegacyRecv(c))
        /\ UNCHANGED received /\ ClientKeeps

-----------------------------------------------------------------------------
(* start_loop and process_single_task                                      *)

SlotsKept == UNCHANGED slotVars
QueuesKept == UNCHANGED taskQueues

LoopPop ==
    /\ loop \in {"wait", "pop"} /\ queue_tasks # <<>>
    /\ loop' = "handle" /\ hand' = Head(queue_tasks)
    /\ queue_tasks' = Tail(queue_tasks) /\ UNCHANGED queue_tasks_deferred
    /\ SlotsKept /\ Silent

\* The slots a task may run on; any available one when it names none.
Candidates == {s \in Slots : Available(slots[s]) /\ hand.id_slot \in {AnySlot, s}}

Handle(type) == loop = "handle" /\ hand.type = type /\ loop' = "pop" /\ hand' = NoTask

\* No slot, or the slot is busy.  A slot action on an unknown slot is not
\* deferred; a completion is.
HandleDefer ==
    /\ Handle("slot_task") /\ Candidates = {}
    /\ IsReaderTask(hand.id) \/ hand.id_slot \in Slots
    /\ Defer(hand) /\ SlotsKept /\ Silent

\* system_prompt_set releases every slot and tells nobody.
SetSystemPrompt(id) ==
    IF id \in SysPrompt THEN [s \in Slots |-> [Release(slots[s]) EXCEPT !.n_past = 0]]
                        ELSE slots
TakenBy(id) ==
    {slots[s].id_task : s \in {t \in Generating(slots) : id \in SysPrompt}}

HandleLaunch ==
    /\ Handle("slot_task") /\ IsReaderTask(hand.id)
    /\ \E s \in Candidates, ok \in BOOLEAN, n \in Request[hand.id].prompts :
          /\ slots' = [SetSystemPrompt(hand.id) EXCEPT ![s] = Launched(hand.id, n, ok)]
          /\ Send(IF ok THEN <<>> ELSE <<Failure(hand.id)>>)
          /\ Record(IF ok THEN <<>> ELSE <<Failure(hand.id)>>)
    /\ dropped' = dropped \cup TakenBy(hand.id)
    /\ stop_internal_decode' = (stop_internal_decode /\ hand.id \notin SysPrompt)
    /\ UNCHANGED <<batch, n_batch, ctx_shift>> /\ QueuesKept

\* Save, restore and erase answer a legacy client; their errors go through
\* send_error to the other queue.
HandleSlotAction ==
    /\ Handle("slot_task") /\ ~IsReaderTask(hand.id)
    /\ \/ Candidates # {} /\ RespondLegacy(<<Answer(hand.id)>>)
       \/ /\ Candidates # {} \/ hand.id_slot \notin Slots
          /\ Respond(<<Failure(hand.id)>>)
    /\ SlotsKept /\ QueuesKept

\* METRICS, SET_LORA and the control vectors.
HandleAtOnce ==
    /\ Handle("at_once")
    /\ \E r \in {Answer(hand.id), Failure(hand.id)} : RespondLegacy(<<r>>)
    /\ SlotsKept /\ QueuesKept

\* The first slot that has the id, even from a task it has finished.
Working == {s \in Slots : IsProcessing(slots[s])}
SlotsOf(id) == {s \in Slots : slots[s].id_task = id}
AfterCancel(id) ==
    IF SlotsOf(id) = {} THEN slots
    ELSE [slots EXCEPT ![Min(SlotsOf(id))] = Release(@)]

HandleCancel ==
    /\ Handle("CANCEL")
    /\ slots' = AfterCancel(hand.target)
    /\ stop_internal_decode' = (stop_internal_decode /\ SlotsOf(hand.target) = {})
    /\ UNCHANGED <<batch, n_batch, ctx_shift>> /\ QueuesKept /\ Silent

HandleNextResponse == Handle("NEXT_RESPONSE") /\ SlotsKept /\ QueuesKept /\ Silent

-----------------------------------------------------------------------------
(* update_slots                                                            *)

\* Back to the wait when every slot is idle.
NoFollow == <<>>  \* mutant: no NEXT_RESPONSE
Follow == <<NextResponse>>

LoopReleaseSlots ==
    LET idle == \A s \in Slots : Available(ReleaseSlots[s])
    IN  /\ loop = "pop" /\ queue_tasks = <<>>
        /\ slots' = ReleaseSlots
        /\ NotifyAndPost(Released # {}, IF idle THEN <<>> ELSE Follow)
        /\ loop' = IF idle THEN "wait" ELSE "batch"
        /\ UNCHANGED <<hand, batch, n_batch, ctx_shift, stop_internal_decode>> /\ Silent

\* The next slot with a prompt to add, or the decode of what there is.
ToPrompts(s) ==
    LET more == PendingAfter(s, slots', batch')
    IN  IF more # {} /\ (s = 0 => ContBatching \/ batch' = <<>>)
        THEN loop' = "prompt" /\ cursor' = Min(more)
        ELSE /\ loop' = IF batch' = <<>> THEN "wait" ELSE "decode"
             /\ cursor' = 0

LoopBatch ==
    LET shifted == [s \in Slots |-> Shifted(slots[s])]
    IN  /\ loop = "batch"
        /\ AddSampledTokens(shifted) /\ n_batch' = NBatch
        /\ Respond(IF ctx_shift THEN <<>> ELSE ErrorsOf(AtEnd))
        /\ stop_internal_decode' = (stop_internal_decode /\ (ctx_shift \/ AtEnd = {}))
        /\ ToPrompts(0)
        /\ UNCHANGED <<hand, ctx_shift>> /\ QueuesKept

\* An answer or a refusal, with the release() that goes with it.
LoopPromptEnds ==
    LET slot == slots[cursor]
    IN  /\ loop = "prompt"
        /\ \/ /\ EmptyPrompt(slot)
              /\ slots' = [slots EXCEPT ![cursor] = Freed(@)]
              /\ Respond(<<Answer(slot.id_task)>>)
           \/ /\ Refused(slot)
              /\ slots' = [slots EXCEPT ![cursor] = AfterRefusal(@)]
              /\ Respond(<<Failure(slot.id_task)>>)
        /\ stop_internal_decode' = FALSE
        /\ UNCHANGED batch /\ ToPrompts(cursor)
        /\ UNCHANGED <<hand, n_batch, ctx_shift>> /\ QueuesKept

LoopPromptAdds ==
    LET slot == Seen(slots[cursor])
    IN  /\ loop = "prompt" /\ ~EmptyPrompt(slots[cursor]) /\ ~Refused(slots[cursor])
        /\ IF Fits(slot) THEN Fill(cursor, slot)
           ELSE slots' = [slots EXCEPT ![cursor] = slot] /\ UNCHANGED batch
        /\ ToPrompts(cursor)
        /\ UNCHANGED <<hand, n_batch, ctx_shift, stop_internal_decode>>
        /\ QueuesKept /\ Silent

View == SubSeq(batch, 1, Min({n_batch, Len(batch)}))
RestOfBatch == SubSeq(batch, Len(View) + 1, Len(batch))
InView == {s \in Generating(slots) : \E i \in DOMAIN View :
                                        View[i].slot = s /\ View[i].logits}

\* One token per slot of the view: its slot goes on, ends, or cannot sample.
\* A slot out of budget ends; an embedding is the only result of its task.
Outcomes(s) ==
    IF Embeds(slots[s]) THEN {"final"}
    ELSE IF slots[s].n_decoded + 1 >= NPredict THEN {"final", "error"}
    ELSE {"token", "final", "error"}

KeepsSlot(slot, how) == [slot EXCEPT !.n_decoded = @ + 1]  \* mutant: no release
Sampled(slot, how) ==
    IF how = "token" THEN [slot EXCEPT !.n_decoded = @ + 1] ELSE Release(slot)

LoopDecodeOk ==
    /\ loop = "decode" /\ ~stop_internal_decode
    /\ \E how \in [InView -> {"token", "final", "error"}] :
          LET ended == {s \in InView : how[s] # "token"}
          IN  /\ \A s \in InView : how[s] \in Outcomes(s)
              /\ slots' = [s \in Slots |-> IF s \in InView THEN Sampled(slots[s], how[s])
                                                          ELSE slots[s]]
              /\ Respond([i \in 1..Cardinality(ended) |->
                    LET s == InOrder(ended)[i]
                    IN  [id |-> slots[s].id_task, error |-> how[s] = "error"]])
    /\ batch' = RestOfBatch
    /\ loop' = IF RestOfBatch = <<>> THEN "wait" ELSE "decode"
    /\ UNCHANGED <<hand, n_batch, ctx_shift, stop_internal_decode>> /\ QueuesKept

\* The KV cache is full: half the rows are tried, down to one.
CanHalveAlways == n_batch > 0  \* mutant: a batch of no rows is tried
CanHalve == n_batch > 1

LoopDecodeRetry ==
    /\ loop = "decode" /\ CanHalve
    /\ n_batch' = n_batch \div 2
    /\ UNCHANGED <<slots, batch, ctx_shift, stop_internal_decode, loop, hand>>
    /\ QueuesKept /\ Silent

\* Every slot is released, the idle ones too; a failure is told to the
\* last task of each slot, a user's cancel to nobody.
LoopDecodeFail ==
    /\ loop = "decode"
    /\ \/ /\ stop_internal_decode
          /\ dropped' = dropped \cup {slots[s].id_task : s \in Working}
          /\ UNCHANGED <<waiting_task_ids, resultQueues, finals>>
       \/ Respond(ErrorsOf({s \in Slots : slots[s].id_task \in Ids}))
    /\ slots' = [s \in Slots |-> Freed(slots[s])]
    /\ stop_internal_decode' = FALSE
    /\ batch' = <<>> /\ loop' = "wait"
    /\ UNCHANGED <<hand, n_batch, ctx_shift>> /\ QueuesKept

Loop ==
    /\ UNCHANGED clientVars
    /\ \/ LoopBatch \/ LoopPromptEnds \/ LoopPromptAdds
       \/ /\ UNCHANGED cursor
          /\ \/ LoopPop
             \/ HandleDefer \/ HandleLaunch \/ HandleSlotAction \/ HandleAtOnce
             \/ HandleCancel \/ HandleNextResponse
             \/ LoopReleaseSlots
             \/ LoopDecodeOk \/ LoopDecodeRetry \/ LoopDecodeFail

Next == (\E c \in Readers : Reader(c)) \/ (\E c \in LegacyClients : Legacy(c)) \/ Loop

\* The loop thread runs on; HTTP threads finish what they began.  Nobody
\* has to make a request or to close a connection.
Fairness ==
    /\ WF_vars(Loop)
    /\ \A c \in Readers :
          /\ WF_vars(Goto(c, "registered", "waiting") /\ Reader(c))
          /\ WF_vars(NextResult(c) /\ ClientKeeps)
          /\ WF_vars(StopDecode(c))
          /\ WF_vars(Stop(c) /\ ClientKeeps)
    /\ \A c \in LegacyClients : WF_vars(Legacy(c) /\ pc[c] # "idle")

Spec == Init /\ [][Next]_vars /\ Fairness

-----------------------------------------------------------------------------
(* Properties                                                              *)

TypeOK ==
    /\ QueueTypeOK
    /\ slots \in [Slots -> Slot]
    /\ batch \in Seq([slot : Slots, logits : BOOLEAN])
    /\ n_batch \in 1..NBatch
    /\ ctx_shift \in BOOLEAN /\ stop_internal_decode \in BOOLEAN
    /\ pc \in [Clients -> {"idle", "posted", "registered", "waiting", "aborting",
                           "stopping", "left", "answered"}]
    /\ \A c \in Clients : received[c] \subseteq TasksOf[c]
    /\ cursor \in 0..NSlots
    /\ loop \in {"wait", "pop", "handle", "batch", "prompt", "decode"} /\ hand \in Task
    /\ finals \in [Ids -> Nat] /\ dropped \subseteq Ids

\* Where a task can be: the queue, the deferred queue, the loop thread's
\* hand, a slot that works on it.
Places(id) ==
    ({"queue"} \X {i \in DOMAIN queue_tasks : queue_tasks[i].id = id})
    \cup ({"deferred"} \X {i \in DOMAIN queue_tasks_deferred :
                               queue_tasks_deferred[i].id = id})
    \cup ({"hand"} \X {i \in {0} : hand.id = id})
    \cup ({"slot"} \X {s \in Working : slots[s].id_task = id})

Queued(id) == \E p \in Places(id) : p[1] # "slot"
OnASlot(id) == \E p \in Places(id) : p[1] = "slot"

\* Moving tasks between the two queues, the loop thread and the slots never
\* copies one: server_queue::defer, notify_slot_changed and the cancels of
\* post, however they interleave.
OnePlace == \A id \in Ids : Cardinality(Places(id)) <= 1

\* What a waiting reader has not got yet is on its way: the task is
\* somewhere, its result is in queue_results, or its slot was taken by a
\* cancelled decode or a new system prompt, which the code does silently.
NeverForgotten ==
    \A c \in Readers : pc[c] \in {"waiting", "aborting"} =>
        \A id \in TasksOf[c] \ (received[c] \cup dropped) :
            \/ Places(id) # {}
            \/ HasResult(queue_results, {id})

\* start_loop sleeps only when every slot is idle, and then no deferred task
\* could run: what is left in the deferred queue names a slot that does not
\* exist.
SleepsOnlyIdle ==
    loop = "wait" /\ queue_tasks = <<>> =>
        /\ SlotsIdle
        /\ \A i \in DOMAIN queue_tasks_deferred :
               queue_tasks_deferred[i].id_slot \notin Slots \cup {AnySlot}

\* A batch never mixes embeddings with completions, and each slot that
\* generates has one row with logits in it.
BatchWellFormed ==
    loop = "decode" =>
        /\ \A i, j \in DOMAIN batch :
               Embeds(slots[batch[i].slot]) = Embeds(slots[batch[j].slot])
        /\ \A i, j \in DOMAIN batch :
               batch[i].slot = batch[j].slot /\ batch[i].logits /\ batch[j].logits => i = j

\* A reader whose tasks name slots that exist gets a result or an error,
\* unless one of its tasks was dropped.
Servable(c) == \A id \in TasksOf[c] : IdSlots[id] \subseteq Slots \cup {AnySlot}
ReaderServed ==
    \A c \in Readers :
        (Servable(c) /\ pc[c] = "waiting")
            ~> (pc[c] # "waiting" \/ TasksOf[c] \cap dropped # {})

\* The life of a task as a client sees it, for TaskService.
Posted(id) ==
    \E c \in Clients : id \in TasksOf[c] /\ pc[c] \notin {"idle", "registered"}
Life == [id \in Ids |->
            IF Queued(id) THEN "queued" ELSE IF OnASlot(id) THEN "running"
            ELSE IF Posted(id) THEN "over" ELSE "new"]

Service == INSTANCE TaskService WITH life <- Life, final <- finals
\* Server implements TaskService: a task is started once, never comes back
\* after it has ended, and its final result is sent by the step that ends it.
IsTaskService == Service!Spec

-----------------------------------------------------------------------------
(* What a comment says and the code does not                               *)

\* server-queue.h:118 on recv: "blocks the thread until there is a response
\* for this id_task".
RecvReturns ==
    \A c \in LegacyClients :
        (\E id \in TasksOf[c] : Life[id] = "over") ~> pc[c] = "answered"
=============================================================================
