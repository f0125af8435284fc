------------------------------ MODULE Serving -------------------------------
(***************************************************************************)
(* The serving front end around one engine core process. The API server    *)
(* has one handler per request; AsyncLLM keeps a stream per request in its *)
(* OutputProcessor; AsyncMPClient exchanges messages with EngineCore over  *)
(* two FIFO sockets. Everything but the core runs on one event loop, so an *)
(* action is what happens between two awaits.                              *)
(*                                                                         *)
(* Requests have distinct ids, as the server's uuids are. Of the engine    *)
(* only what it owes its clients is kept: every live request gets outputs, *)
(* one of which is its last.                                               *)
(***************************************************************************)
EXTENDS Naturals, Sequences

CONSTANTS
    Reqs,        \* completion requests
    Streaming,   \* those answered by server-sent events
    Scrape,      \* one call of /metrics
    Workloads,   \* sets of calls made together
    MaxOutputs   \* bound: outputs of each request

ASSUME ServingAssumption ==
    /\ Streaming \subseteq Reqs /\ Scrape \notin Reqs
    /\ Workloads \subseteq SUBSET (Reqs \cup {Scrape})
    /\ MaxOutputs \in [Reqs -> Nat \ {0}]

VARIABLES
    handler,    \* where each handler is, and how far it has read its stream
    llm,        \* AsyncLLM: request_states, streams and flags
    client,     \* AsyncMPClient: futures, queued output batches, error,
                \* and whether its reader and its exit watch still run
    to_core,    \* messages on the input socket
    from_core,  \* messages on the output socket
    core        \* the engine process: up, its live requests, outputs made

vars == <<handler, llm, client, to_core, from_core, core>>

Calls == Reqs \cup {Scrape}
Ends == {"final", "abort", "error"}
Item(n, end) == [n |-> n, end |-> end]

Dead == <<"dead">>

TypeOK ==
    /\ handler \in [Calls -> [pc : {"idle", "waiting", "reading", "closing", "done"},
                              read : Nat]]
    /\ llm.states \subseteq {r \in Reqs : handler[r].pc \in {"waiting", "reading", "closing"}}
    /\ \A r \in Reqs : \A i \in DOMAIN llm.stream[r] :
          llm.stream[r][i] \in [n : Nat, end : Ends \cup {"more"}]
    /\ llm.dead \in BOOLEAN /\ llm.stopped \in BOOLEAN /\ client.error \in BOOLEAN
    /\ client.reader \in BOOLEAN
    /\ client.futures \in [Calls -> {"none", "waiting", "ok", "refused", "failed"}]
    /\ core.up \in BOOLEAN /\ core.live \subseteq Reqs /\ core.made \in [Reqs -> Nat]

Init ==
    /\ \E calls \in Workloads :
          handler = [c \in Calls |-> [pc |-> IF c \in calls THEN "idle" ELSE "done",
                                     read |-> 0]]
    /\ llm = [states |-> {}, stream |-> [r \in Reqs |-> << >>], dead |-> FALSE, stopped |-> FALSE]
    /\ client = [futures |-> [c \in Calls |-> "none"], outputs |-> << >>,
                 error |-> FALSE, sentinel |-> TRUE, reader |-> TRUE]
    /\ to_core = << >> /\ from_core = << >>
    /\ core = [up |-> TRUE, live |-> {}, made |-> [r \in Reqs |-> 0]]

-----------------------------------------------------------------------------
(* OutputProcessor.abort_request: a live stream gets a final output. *)
PopState(l, r) ==
    IF r \notin l.states THEN l
    ELSE [l EXCEPT !.states = @ \ {r}, !.stream[r] = Append(@, Item(0, "abort"))]

(* Fault: an output that finishes its request leaves the request tracked. *)
ProcessOutputsKeeping(l, outs) ==
    [l EXCEPT !.stream = [r \in Reqs |->
        IF r \in l.states \cap DOMAIN outs THEN Append(@[r], outs[r]) ELSE @[r]]]

(* OutputProcessor.process_outputs: outputs of requests no longer tracked  *)
(* were aborted since the step.                                            *)
ProcessOutputs(l, outs) ==
    [l EXCEPT !.states = {r \in @ : r \in DOMAIN outs => outs[r].end = "more"},
              !.stream = [r \in Reqs |->
                 IF r \in l.states \cap DOMAIN outs THEN Append(@[r], outs[r]) ELSE @[r]]]

FailAll(l) ==
    [l EXCEPT !.states = {},
              !.stream = [r \in Reqs |->
                 IF r \in l.states THEN Append(@[r], Item(0, "error")) ELSE @[r]]]

(* AsyncMPClient._fail_pending. *)
FailPending(futures) ==
    [c \in Calls |-> IF futures[c] = "waiting" THEN "failed" ELSE futures[c]]

(* Fault: calls waiting for an answer are not failed. *)
DieQuietly(c) ==
    IF c.error THEN c ELSE [c EXCEPT !.error = TRUE, !.outputs = Append(@, Dead)]

(* AsyncMPClient._die: only the first cause counts; the output handler     *)
(* hears of it behind the outputs already read.                            *)
Die(c) ==
    IF c.error THEN c
    ELSE [c EXCEPT !.error = TRUE, !.futures = FailPending(@), !.outputs = Append(@, Dead)]

(* AsyncMPClient._send. Once the core is gone the socket may or may not    *)
(* know it: the message is queued for nobody, or the client dies.          *)
Send(c, m) ==
    \/ core.up /\ to_core' = Append(to_core, m) /\ client' = c
    \/ ~core.up /\ client' \in {c, Die(c)} /\ UNCHANGED to_core

(* AsyncLLM.abort: not sent on to an engine that is gone. *)
EngineAbort(r) ==
    /\ llm' = PopState(llm, r)
    /\ IF llm.dead \/ llm.stopped \/ client.error THEN UNCHANGED <<client, to_core>>
       ELSE Send(client, <<"abort", r>>)

Goto(c, pc) == handler' = [handler EXCEPT ![c].pc = pc]

-----------------------------------------------------------------------------
(* _serve up to the await of the core's answer. The stream is ready before *)
(* the add is sent.                                                        *)
Serve(r) ==
    /\ handler[r].pc = "idle"
    /\ IF llm.dead \/ llm.stopped \/ client.error
       THEN Goto(r, "done") /\ UNCHANGED <<llm, client, to_core>>
       ELSE /\ Goto(r, "waiting")
            /\ llm' = [llm EXCEPT !.states = @ \cup {r}]
            /\ Send([client EXCEPT !.futures[r] = "waiting"], <<"add", r>>)
    /\ UNCHANGED <<from_core, core>>

(* Fault: a refused request stays tracked. *)
AddReturnsTracked(r) ==
    /\ handler[r].pc = "waiting"
    /\ \/ client.futures[r] = "ok" /\ Goto(r, "reading")
       \/ client.futures[r] = "refused" /\ Goto(r, "done")
       \/ client.futures[r] = "failed" /\ Goto(r, "done")
    /\ UNCHANGED <<llm, client, to_core, from_core, core>>

(* add_request resumes: the request was admitted, refused, or the engine   *)
(* is gone.                                                                *)
AddReturns(r) ==
    /\ handler[r].pc = "waiting"
    /\ \/ client.futures[r] = "ok" /\ Goto(r, "reading") /\ UNCHANGED llm
       \/ /\ client.futures[r] = "refused"
          /\ Goto(r, "done") /\ llm' = PopState(llm, r)
       \/ /\ client.futures[r] = "failed"
          /\ Goto(r, "done") /\ llm' = PopState(llm, r)
    /\ UNCHANGED <<client, to_core, from_core, core>>

(* Fault: a cancelled admission only forgets its stream. *)
CancelAddQuietly(r) ==
    /\ handler[r].pc = "waiting"
    /\ Goto(r, "done") /\ llm' = PopState(llm, r)
    /\ UNCHANGED <<client, to_core, from_core, core>>

(* The handler is cancelled while it waits for admission, answered or not: *)
(* the core may have taken the request already.                            *)
CancelAdd(r) ==
    /\ handler[r].pc = "waiting"
    /\ Goto(r, "done")
    /\ EngineAbort(r)
    /\ UNCHANGED <<from_core, core>>

(* One turn of _deltas: the next output of the stream, a stop string in    *)
(* it, its last output, a drop, or the engine's death.                     *)
Read(r) ==
    /\ handler[r].pc = "reading" /\ handler[r].read < Len(llm.stream[r])
    /\ LET item == llm.stream[r][handler[r].read + 1]
           last == IF r \in Streaming THEN "closing" ELSE "done"
       IN  \/ /\ item.end = "more"
              /\ handler' = [handler EXCEPT ![r].read = @ + 1]
              /\ UNCHANGED <<llm, client, to_core>>
           \/ item.end \in {"more", "final"} /\ Goto(r, last) /\ EngineAbort(r)
           \/ /\ item.end \in Ends
              /\ Goto(r, last)
              /\ UNCHANGED <<llm, client, to_core>>
    /\ UNCHANGED <<from_core, core>>

(* The client leaves: what ends the generators is their own finally, if    *)
(* they had been started.                                                  *)
Disconnect(r) ==
    /\ handler[r].pc = "reading"
    /\ Goto(r, "closing")
    /\ \/ r \in llm.states /\ EngineAbort(r)
       \/ UNCHANGED <<llm, client, to_core>>
    /\ UNCHANGED <<from_core, core>>

(* The abort after a stream, however it ended, or after a disconnect. *)
Close(r) ==
    /\ handler[r].pc = "closing"
    /\ Goto(r, "done")
    /\ EngineAbort(r)
    /\ UNCHANGED <<from_core, core>>

(* /metrics: asked of the core, and answered or failed with it. *)
RenderMetrics ==
    /\ handler[Scrape].pc = "idle"
    /\ IF llm.dead \/ llm.stopped \/ client.error
       THEN Goto(Scrape, "done") /\ UNCHANGED <<client, to_core>>
       ELSE /\ Goto(Scrape, "waiting")
            /\ Send([client EXCEPT !.futures[Scrape] = "waiting"], <<"metrics", Scrape>>)
    /\ UNCHANGED <<llm, from_core, core>>

MetricsReturn ==
    /\ handler[Scrape].pc = "waiting" /\ client.futures[Scrape] \in {"ok", "failed"}
    /\ Goto(Scrape, "done")
    /\ UNCHANGED <<llm, client, to_core, from_core, core>>

-----------------------------------------------------------------------------
(* EngineCore._handle, one message. The engine takes a request or refuses  *)
(* it; either way it answers.                                              *)
CoreHandle ==
    /\ core.up /\ to_core # << >>
    /\ to_core' = Tail(to_core)
    /\ LET kind == Head(to_core)[1]
           r == Head(to_core)[2]
       IN  \/ /\ kind = "add"
              /\ \/ /\ core' = [core EXCEPT !.live = @ \cup {r}]
                    /\ from_core' = Append(from_core, <<"added", r, "ok">>)
                 \/ /\ from_core' = Append(from_core, <<"added", r, "refused">>)
                    /\ UNCHANGED core
           \/ /\ kind = "abort"
              /\ core' = [core EXCEPT !.live = @ \ {r}]
              /\ UNCHANGED from_core
           \/ /\ kind = "metrics"
              /\ from_core' = Append(from_core, <<"metrics", r>>)
              /\ UNCHANGED core
    /\ UNCHANGED <<handler, llm, client>>

(* A step of the engine: some of the live requests get an output. A        *)
(* request dropped for capacity gets a last output too.                    *)
CoreStep ==
    /\ core.up
    /\ \E S \in (SUBSET core.live) \ {{}} : \E end \in [S -> {"more", "final"}] :
          /\ \A r \in S : end[r] = "more" => core.made[r] + 1 < MaxOutputs[r]
          /\ core' = [core EXCEPT !.live = {r \in @ : r \in S => end[r] = "more"},
                                  !.made = [r \in Reqs |-> IF r \in S THEN @[r] + 1 ELSE @[r]]]
          /\ from_core' = Append(from_core,
                <<"outputs", [r \in S |-> Item(core.made[r] + 1, end[r])]>>)
    /\ UNCHANGED <<handler, llm, client, to_core>>

CoreGone == [up |-> FALSE, live |-> {}, made |-> [r \in Reqs |-> 0]]

(* A step raises: the core says so, then exits. *)
CoreDies ==
    /\ core.up /\ core' = CoreGone
    /\ from_core' = Append(from_core, Dead)
    /\ to_core' = << >>
    /\ UNCHANGED <<handler, llm, client>>

(* The process is killed: what its socket had not sent yet is lost. *)
CoreKilled ==
    /\ core.up /\ core' = CoreGone
    /\ \E n \in 0..Len(from_core) : from_core' = SubSeq(from_core, 1, n)
    /\ to_core' = << >>
    /\ UNCHANGED <<handler, llm, client>>

-----------------------------------------------------------------------------
(* AsyncMPClient._read_outputs and _handle, one message. The notice of a   *)
(* death is the last that is read.                                         *)
ReadMessage ==
    /\ client.reader /\ from_core # << >>
    /\ from_core' = Tail(from_core)
    /\ LET m == Head(from_core)
       IN  client' = CASE m[1] = "outputs" -> [client EXCEPT !.outputs = Append(@, m)]
                       [] m[1] = "added" -> [client EXCEPT !.futures[m[2]] =
                                                IF @ = "waiting" THEN m[3] ELSE @]
                       [] m[1] = "metrics" -> [client EXCEPT !.futures[m[2]] =
                                                IF @ = "waiting" THEN "ok" ELSE @]
                       [] m[1] = "dead" -> Die([client EXCEPT !.reader = FALSE])
    /\ UNCHANGED <<handler, llm, to_core, core>>

(* Receiving or unpickling a message raises: the reader ends, and the      *)
(* client takes the core for dead, whether it is or not.                   *)
ReadFails ==
    /\ client.reader /\ from_core # << >>
    /\ from_core' = Tail(from_core)
    /\ client' = Die([client EXCEPT !.reader = FALSE])
    /\ UNCHANGED <<handler, llm, to_core, core>>

(* _on_process_exit: the process's sentinel, watched once. *)
ProcessExit ==
    /\ ~core.up /\ client.sentinel
    /\ client' = Die([client EXCEPT !.sentinel = FALSE])
    /\ UNCHANGED <<handler, llm, to_core, from_core, core>>

(* AsyncLLM._handle_outputs and _die. *)
HandleOutputs ==
    /\ ~llm.dead /\ ~llm.stopped /\ client.outputs # << >>
    /\ client' = [client EXCEPT !.outputs = Tail(@)]
    /\ llm' = IF Head(client.outputs) = Dead THEN FailAll([llm EXCEPT !.dead = TRUE])
              ELSE ProcessOutputs(llm, Head(client.outputs)[2])
    /\ UNCHANGED <<handler, to_core, from_core, core>>

(* AsyncLLM.stop, on the event loop: the core exits or is killed, the      *)
(* sockets close with what they hold, and everybody waiting is told.       *)
Stop ==
    /\ ~llm.stopped
    /\ llm' = FailAll([llm EXCEPT !.stopped = TRUE])
    /\ client' = [client EXCEPT !.futures = FailPending(@), !.sentinel = FALSE,
                                !.reader = FALSE]
    /\ core' = CoreGone
    /\ to_core' = << >> /\ from_core' = << >>
    /\ UNCHANGED handler

Next ==
    \/ \E r \in Reqs : \/ Serve(r) \/ AddReturns(r) \/ CancelAdd(r)
                       \/ Read(r) \/ Disconnect(r) \/ Close(r)
    \/ RenderMetrics \/ MetricsReturn
    \/ CoreHandle \/ CoreStep \/ CoreDies \/ CoreKilled
    \/ ReadMessage \/ ReadFails \/ ProcessExit \/ HandleOutputs \/ Stop

(* The event loop runs every callback that is ready, and the core's loop   *)
(* handles its inputs and steps while it has requests. Nothing is owed by  *)
(* clients, and nothing has to fail.                                       *)
Fairness ==
    /\ \A r \in Reqs : WF_vars(AddReturns(r)) /\ WF_vars(Read(r)) /\ WF_vars(Close(r))
    /\ WF_vars(MetricsReturn)
    /\ WF_vars(CoreHandle) /\ WF_vars(CoreStep)
    /\ WF_vars(ReadMessage) /\ WF_vars(ProcessExit) /\ WF_vars(HandleOutputs)

Spec == Init /\ [][Next]_vars /\ Fairness

-----------------------------------------------------------------------------
(* A stream is what the core produced, in order and without a gap, and     *)
(* ends at most once, whether by its last output, an abort or an error.    *)
StreamFaithful ==
    \A r \in Reqs : \A i \in DOMAIN llm.stream[r] :
        /\ llm.stream[r][i].end \in Ends => i = Len(llm.stream[r])
        /\ llm.stream[r][i].end \in {"more", "final"} => llm.stream[r][i].n = i

(* A request that occupies the engine has a stream to feed, or its abort   *)
(* is on the way: a client that left cannot leave its blocks behind. Only  *)
(* a core given up for dead after a failed read hears of no abort, and     *)
(* keeps what it has until it is done or the server stops.                 *)
NoOrphan ==
    client.reader => \A r \in core.live :
        r \in llm.states \/ \E i \in DOMAIN to_core : to_core[i] = <<"abort", r>>

(* Whatever fails and whenever, every handler that started gets to its end. *)
EveryCallReturns == \A c \in Calls : (handler[c].pc # "idle") ~> (handler[c].pc = "done")
=============================================================================
