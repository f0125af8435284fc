----------------------------- MODULE KVTransfer -----------------------------
(***************************************************************************)
(* What two engines may rely on when one hands its KV blocks to the other: *)
(* the abstract specification of the connector's worker halves and their   *)
(* aggregation. LLMEngine's Reports are its steps as one engine sees them, *)
(* and LLMEngineLive's TransferFairness its liveness.                      *)
(***************************************************************************)
CONSTANT Reqs

VARIABLES
    send,   \* the blocks at the producer: "none", "queued", "held", "freed"
    recv    \* the load at the consumer: "none", "queued", "loading", "loaded", "failed"

vars == <<send, recv>>

Init == send = [r \in Reqs |-> "none"] /\ recv = [r \in Reqs |-> "none"]

(* Each request is offered once, and loaded only after it was offered. *)
Offer(r) == send[r] = "none" /\ send' = [send EXCEPT ![r] = "queued"] /\ UNCHANGED recv
Load(r) ==
    /\ recv[r] = "none" /\ send[r] # "none"
    /\ recv' = [recv EXCEPT ![r] = "queued"]
    /\ UNCHANGED send

(* A step of an engine hands over what is queued, and hears of transfers   *)
(* that ended: of each once, never before it began.                        *)
Producer ==
    /\ \E freed \in SUBSET {r \in Reqs : send[r] \in {"queued", "held"}} :
          send' = [r \in Reqs |-> IF r \in freed THEN "freed"
                                  ELSE IF send[r] = "queued" THEN "held" ELSE send[r]]
    /\ UNCHANGED recv

Consumer ==
    /\ \E over \in SUBSET {r \in Reqs : recv[r] = "loading"} : \E failed \in SUBSET over :
          recv' = [r \in Reqs |-> IF r \in failed THEN "failed"
                                  ELSE IF r \in over THEN "loaded"
                                  ELSE IF recv[r] = "queued" THEN "loading" ELSE recv[r]]
    /\ UNCHANGED send

Next == (\E r \in Reqs : Offer(r) \/ Load(r)) \/ Producer \/ Consumer

(* Every hand-over and every load ends. *)
Ends ==
    \A r \in Reqs : /\ (send[r] = "queued") ~> (send[r] = "freed")
                    /\ (recv[r] = "queued") ~> (recv[r] \in {"loaded", "failed"})

Spec == Init /\ [][Next]_vars /\ Ends
=============================================================================
