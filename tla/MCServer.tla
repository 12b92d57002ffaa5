------------------------------ MODULE MCServer ------------------------------
(***************************************************************************)
(* Server for TLC, with one of these populations in a behaviour: a reader *)
(* whose request has two tasks, one of which sets the system prompt; two   *)
(* readers, one with an embedding, one with a completion that sets the     *)
(* system prompt; that second reader and a legacy client, which may ask    *)
(* for a slot action or for something the loop answers at once.            *)
(***************************************************************************)
EXTENDS Server

CONSTANT Populations  \* sets of clients
VARIABLE active       \* the clients of this behaviour

Completion(S) == [embedding |-> FALSE, prompts |-> S]
Embedding(S) == [embedding |-> TRUE, prompts |-> S]

\* Ids 1 and 2 belong to reader "a", 3 to "b", 4 to legacy client "l", 5 to
\* reader "c".
MCTasksOf ==
    [c \in Clients |-> CASE c = "a" -> {1, 2} [] c = "b" -> {3}
                         [] c = "c" -> {5} [] c = "l" -> {4}]
MCLegacyAlone == {{"l"}}
MCPopulations == {{"a"}, {"b", "c"}, {"c", "l"}}

\* A prompt of NCtx tokens, or an embedding of more than NUbatch, is too large.
MCRequest ==
    [id \in Ids |-> CASE id = 1 -> Completion({NCtx - 1, NCtx})
                      [] id = 2 -> Completion({0, 1})
                      [] id = 3 -> Embedding({1, NUbatch + 1})
                      [] id = 5 -> Completion({NCtx - 1})
                      [] OTHER -> Completion({0})]
MCKinds ==
    [id \in Ids |-> IF id = 4 THEN {"slot_task", "at_once"} ELSE {"slot_task"}]
\* Task 2 asks for slot 1 or for one that does not exist, and so do the
\* slot actions.
MCIdSlots ==
    [id \in Ids |-> IF id \in {1, 3, 5} THEN {AnySlot} ELSE {1, NSlots + 1}]

MCInit == Init /\ active \in Populations
MCNext == Next /\ UNCHANGED active /\ \A c \in Clients \ active : pc'[c] = "idle"
MCSpec == MCInit /\ [][MCNext]_<<vars, active>> /\ Fairness
=============================================================================
