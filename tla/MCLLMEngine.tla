---------------------------- MODULE MCLLMEngine -----------------------------
(* Workloads for the engine: prompts that share a first block, completions *)
(* that outgrow the cache, and transfers.                                  *)
EXTENDS LLMEngine

R2 == {"r1", "r2"}
R3 == {"r1", "r2", "r3"}

MCPrompt == [r \in Reqs |-> CASE r = "r1" -> <<1, 1, 1>>
                              [] r = "r2" -> <<1, 1>>
                              [] r = "r3" -> <<1>>]

(* Three blocks, so that a hit remains after the last one is given back. *)
MCLongPrompt == [r \in Reqs |-> IF r = "r1" THEN <<1, 1, 1, 1, 1>> ELSE <<1, 1, 1, 1, 1, 2>>]

MCMaxTokens == [r \in Reqs |-> CASE r = "r1" -> 5 [] r = "r2" -> 3 [] r = "r3" -> 2]

(* Long enough for two speculative steps in a row. *)
MCLongMaxTokens == [r \in Reqs |-> 5]

MCPriority == [r \in Reqs |-> IF r = "r1" THEN 1 ELSE 0]

MCRequestId == [r \in Reqs |-> IF r = "r3" THEN "r2" ELSE r]

MCDistinctIds == [r \in Reqs |-> r]

MCNoTransfer == [r \in Reqs |-> NoTransfer]

(* r1 and r3 name blocks of a prefill instance, but the list r3 brings     *)
(* does not have the length of its prompt; r2 is to be decoded elsewhere.  *)
MCTransfer == [r \in Reqs |->
    [do_remote_prefill |-> r # "r2", do_remote_decode |-> r = "r2"]]

MCMatch == [r \in Reqs |-> r # "r3"]
=============================================================================
