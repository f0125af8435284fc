--------------------------- MODULE LLMEngineLive ----------------------------
(***************************************************************************)
(* engine/core.py's loop around the engine: EngineCore.run calls step()    *)
(* again and again while the engine is not finished, whether or not the    *)
(* step finds anything to do, and handles queued adds and aborts before    *)
(* each. tick flips with every call of step(), so that a step that changes *)
(* nothing is still a step, and a loop that spins without progress is a    *)
(* behaviour of the specification.                                         *)
(***************************************************************************)
EXTENDS LLMEngine

VARIABLE tick

liveVars == <<vars, tick>>

LiveInit == Init /\ tick = 0

(* _handle: an add or an abort message, between two steps. *)
HandleInput ==
    /\ \/ \E r \in Reqs : AddRequest(r)
       \/ \E r \in Reqs : \E reason \in {"abort", "stop"} : AbortRequest(r, reason)
    /\ UNCHANGED tick

CallStep == (StepAsync \/ StepSync) /\ tick' = 1 - tick

LiveNext == HandleInput \/ CallStep

(* The loop calls step() forever unless the engine is finished. Clients    *)
(* owe nothing. Of the transfers: a load's reads end, done or in error,    *)
(* and a held send is read or times out, and every rank says so.           *)
StepFairness == []<>EngineIsFinished \/ []<><<tick' # tick>>_tick

TransferFairness ==
    \A r \in Reqs : []<>(r \notin sched.recving) /\ []<>(r \notin sched.sending)

LiveSpec == LiveInit /\ [][LiveNext]_liveVars /\ StepFairness /\ TransferFairness

-----------------------------------------------------------------------------
(* Every request finishes, is dropped or is aborted in the end: no         *)
(* starvation by preemption, no sequence deferred forever.                 *)
EveryRequestEnds ==
    \A r \in Reqs : (r \in sched.live) ~> (r \notin sched.live)

(* The cache is empty again in the end, and the loop goes idle. *)
EngineDrains == (sched.bm.used # {}) ~> (sched.bm.used = {} /\ EngineIsFinished)
=============================================================================
