---------------------------- MODULE ServerSlots ----------------------------
(***************************************************************************)
(* The slots of server_context and one pass of update_slots over them:     *)
(* release, context shift, the batch (sampled tokens first, prompts after) *)
(* and its decoding in views of n_batch rows.  A prompt is the number of   *)
(* its tokens; which token is sampled and whether it ends the generation   *)
(* is left open.  Server delivers the results.                             *)
(***************************************************************************)
EXTENDS ServerQueue, Integers

CONSTANTS
    NSlots,        \* params.n_parallel
    NCtx,          \* slot.n_ctx
    NBatch,        \* llama_n_batch
    NUbatch,       \* llama_n_ubatch
    NPredict,      \* tokens a request may generate
    ContBatching,  \* params_base.cont_batching
    Request        \* id -> [embedding, prompts]: the lengths its prompt may have

ASSUME SlotsAssumption ==
    /\ NSlots \in Nat \ {0} /\ NCtx \in Nat \ {0} /\ NPredict \in Nat \ {0}
    /\ NUbatch \in Nat \ {0} /\ NBatch \in Nat /\ NUbatch <= NBatch
    /\ ContBatching \in BOOLEAN
    /\ Request \in [Ids -> [embedding : BOOLEAN, prompts : (SUBSET Nat) \ {{}}]]

VARIABLES
    slots,
    batch,                \* rows not yet decoded: logits marks the i_batch of
                          \* their slot, the row its result is read from
    n_batch,              \* rows of a view, halved on a full KV cache
    ctx_shift,            \* params_base.ctx_shift
    stop_internal_decode  \* the process-wide flag of llama_decode_stop

slotVars == <<slots, batch, n_batch, ctx_shift, stop_internal_decode>>
Slots == 1..NSlots

Slot ==
    [state : {"IDLE", "PROCESSING"}, command : {"NONE", "LOAD_PROMPT", "RELEASE"},
     id_task : Ids \cup {NoId}, tokenized : BOOLEAN, n_prompt : Nat,
     n_past : Nat, n_decoded : Nat]

UnusedSlot ==
    [state |-> "IDLE", command |-> "NONE", id_task |-> NoId, tokenized |-> FALSE,
     n_prompt |-> 0, n_past |-> 0, n_decoded |-> 0]

Available(slot) == slot.state = "IDLE" /\ slot.command = "NONE"
Loading(slot) == slot.state = "IDLE" /\ slot.command = "LOAD_PROMPT"
IsProcessing(slot) == Loading(slot) \/ slot.state = "PROCESSING"
SlotsIdle == \A s \in Slots : Available(slots[s])
Embeds(slot) == Request[slot.id_task].embedding
OnSlot(ids) == \E s \in Slots : IsProcessing(slots[s]) /\ slots[s].id_task \in ids

\* server_slot::release: a slot that does not generate is left as it is.
\* A released slot remembers its task's id; the rest is not read again
\* before reset().  llama_decode_reset is in the actions.
Freed(slot) == [UnusedSlot EXCEPT !.id_task = slot.id_task, !.command = "RELEASE"]
Release(slot) == IF slot.state = "PROCESSING" THEN Freed(slot) ELSE slot

\* Slot reset, then launch_slot_with_task; bad parameters leave the slot idle.
Launched(id, n, ok) ==
    [UnusedSlot EXCEPT !.id_task = id, !.n_prompt = n,
                       !.command = IF ok THEN "LOAD_PROMPT" ELSE "NONE"]

SlotsInit ==
    /\ slots = [s \in Slots |-> UnusedSlot]
    /\ batch = <<>> /\ n_batch = NBatch
    /\ ctx_shift \in BOOLEAN
    /\ stop_internal_decode = FALSE

-----------------------------------------------------------------------------
(* release_slots and context_shift                                         *)

Released == {s \in Slots : slots[s].command = "RELEASE"}
ReleaseSlots ==
    [s \in Slots |-> IF s \in Released THEN [slots[s] EXCEPT !.command = "NONE"]
                                       ELSE slots[s]]

\* n_past reached the end of the context before the next token.
AtContextEnd(slot) == IsProcessing(slot) /\ slot.n_past >= NCtx - 1

Shifted(slot) ==
    IF ~AtContextEnd(slot) THEN slot
    ELSE IF ctx_shift THEN [slot EXCEPT !.n_past = @ - (@ \div 2)]
    ELSE Release(slot)

AtEnd == {s \in Slots : AtContextEnd(slots[s])}
InOrder(S) == [k \in 1..Cardinality(S) |-> Nth(S, k)]
SilentEnds(S) == <<>>  \* mutant: the slot is released without send_error
ErrorsOf(S) == [i \in 1..Cardinality(S) |-> Failure(slots[InOrder(S)[i]].id_task)]

-----------------------------------------------------------------------------
(* add_sampled_tokens and batch_pending_prompt                             *)

Generating(sl) == {s \in Slots : sl[s].state = "PROCESSING"}

\* One row for the last token of each slot that generates.
AddSampledTokens(sl) ==
    /\ slots' = [s \in Slots |-> IF s \in Generating(sl)
                                 THEN [sl[s] EXCEPT !.n_past = @ + 1] ELSE sl[s]]
    /\ batch' = [i \in 1..Cardinality(Generating(sl)) |->
                    [slot |-> InOrder(Generating(sl))[i], logits |-> TRUE]]

\* A prompt seen for the first time: answered when empty, refused when too
\* large, otherwise cut to fit the context.
NewPrompt(slot) == Loading(slot) /\ ~slot.tokenized
EmptyPrompt(slot) == NewPrompt(slot) /\ slot.n_prompt = 0
TooLarge(slot) ==
    IF Embeds(slot) THEN slot.n_prompt > NUbatch
                    ELSE slot.n_prompt >= NCtx /\ ~ctx_shift
Refused(slot) == NewPrompt(slot) /\ TooLarge(slot)
\* A completion is refused in LOAD_PROMPT, where release() does nothing.
AfterRefusal(slot) ==
    IF Embeds(slot) THEN Freed(slot) ELSE Release([slot EXCEPT !.tokenized = TRUE])
Seen(slot) ==
    IF NewPrompt(slot)
    THEN [slot EXCEPT !.tokenized = TRUE, !.n_past = 0,
                      !.n_prompt = IF Embeds(slot) THEN @ ELSE Min({@, NCtx - 1})]
    ELSE slot

AnyType(slot) == TRUE  \* mutant: the type of the batch is not compared
RightType(slot) ==
    batch = <<>> \/ Embeds(slots[Head(batch).slot]) = Embeds(slot)
Fits(slot) == RightType(slot) /\ (Embeds(slot) => Len(batch) + slot.n_prompt <= NBatch)

\* The rows of slot s that still fit; the last row of the prompt is its
\* i_batch and makes the slot generate.
Fill(s, slot) ==
    LET k    == Min({slot.n_prompt - slot.n_past, Max({0, NBatch - Len(batch)})})
        done == slot.n_past + k = slot.n_prompt
        past == [slot EXCEPT !.n_past = @ + k]
    IN  /\ slots' = [slots EXCEPT ![s] =
                        IF done THEN [past EXCEPT !.state = "PROCESSING", !.command = "NONE"]
                        ELSE past]
        /\ batch' = batch \o [i \in 1..k |-> [slot |-> s, logits |-> done /\ i = k]]

\* Slots after s with a prompt; a full batch ends the loop at the first slot
\* that has none.
PendingAfter(s, sl, b) ==
    {t \in Slots : t > s /\ Loading(sl[t]) /\ (Len(b) >= NBatch => t = s + 1)}
=============================================================================
