----------------------------- MODULE LLMEngine ------------------------------
(***************************************************************************)
(* engine/llm_engine.py on top of the scheduler: requests are added and    *)
(* aborted between steps; a step launches one batch and reconciles the one *)
(* before it, in the order async_scheduling says. With it, the scheduler   *)
(* works one step ahead of the tokens.                                     *)
(*                                                                         *)
(* The device is modelled by what it does to the cache memory (kv) and by  *)
(* the tokens it samples, chosen when the step is launched and seen by the *)
(* host only when the step is reconciled. clients records what the engine  *)
(* has delivered.                                                          *)
(***************************************************************************)
EXTENDS Scheduler

CONSTANTS
    AsyncScheduling,    \* async_scheduling
    Vocab               \* tokens the model may sample

ASSUME EngineAssumption ==
    /\ AsyncScheduling \in BOOLEAN
    /\ IsFiniteSet(Reqs) /\ IsFiniteSet(Vocab)
    /\ Prompt \in [Reqs -> Seq(Vocab)]

VARIABLES
    sched,      \* the Scheduler object
    in_flight,  \* the launched step, or NoStep
    kv,         \* the KV-cache memory
    clients     \* what each request has been delivered

vars == <<sched, in_flight, kv, clients>>

(* rows are the LaunchedRows with the tokens the device sampled for them;  *)
(* batch is what the runner was given for every scheduled sequence.        *)
NoStep == [launched |-> FALSE, rows |-> << >>, batch |-> << >>]

Init ==
    /\ sched = InitScheduler
    /\ in_flight = NoStep
    /\ kv = InitMemory
    /\ clients = [r \in Reqs |-> [tokens |-> << >>, finals |-> 0,
                                  handover |-> FALSE, aborted |-> FALSE]]

EngineIsFinished == ~in_flight.launched /\ SchedulerIsFinished(sched)

-----------------------------------------------------------------------------
(* add_request: a duplicate id is refused and changes nothing. *)
AddRequest(r) ==
    /\ r \notin DOMAIN sched.seq
    /\ ~IdTaken(sched, RequestId[r])
    /\ sched' = AddSequence(sched, r)
    /\ UNCHANGED <<in_flight, kv, clients>>

(* abort_request, on a disconnect or, once text was delivered, on a stop   *)
(* string. The client gets no output.                                      *)
AbortRequest(r, reason) ==
    /\ r \in sched.live
    /\ reason = "stop" => clients[r].tokens # << >>
    /\ sched' = Abort(sched, r, reason)
    /\ clients' = [clients EXCEPT ![r].aborted = TRUE]
    /\ UNCHANGED <<in_flight, kv>>

-----------------------------------------------------------------------------
(* The previous step's row of r, with its tokens, if r has pending tokens. *)
PrevRows(s, r, rows) ==
    IF s.num_pending_tokens = 0 THEN {}
    ELSE {i \in 1..Len(rows) : rows[i].req = r}

NumRejected(row) == row.num_draft_tokens - (Len(row.tokens) - 1)

(* Fault: the row is not moved back. *)
DeviceStartStays(s, r, rows) == s.num_cached_tokens

(* Where the device places r's rows, and the tokens it has for r: a        *)
(* pending row is moved back over the drafts the previous step rejected,   *)
(* and starts from the token that step sampled.                            *)
DeviceStart(s, r, rows) ==
    LET prev == PrevRows(s, r, rows)
    IN  IF prev = {} THEN s.num_cached_tokens
        ELSE s.num_cached_tokens - NumRejected(rows[Max(prev)])

DeviceTokens(s, r, rows) ==
    LET prev == PrevRows(s, r, rows)
    IN  IF prev = {} THEN s.token_ids ELSE s.token_ids \o rows[Max(prev)].tokens

(* What a decode row computes: its last token, then the drafts. Those the  *)
(* sampler keeps are the tokens it returns before the last.                *)
RowTokens(s, r, rows, sampled) ==
    LET device == DeviceTokens(s, r, rows)
    IN  IF s.is_prefill THEN s.token_ids
        ELSE IF DeviceStart(s, r, rows) + 1 # Len(device) THEN << >>
        ELSE device \o Front(sampled)

(* ModelRunner.run: every scheduled row writes its slots. *)
RunModel(mem, st, scheduled, rows, sampled) ==
    LET WriteRow(acc, i) ==
            LET r == scheduled[i]
                s == st.seq[r]
                start == DeviceStart(s, r, rows)
            IN  WriteSlots(acc, s.block_table, RowTokens(s, r, rows, sampled[r]),
                           start + 1, start + s.num_scheduled_tokens)
    IN  Repeat(WriteRow, mem, Len(scheduled))

(* What a row may sample: some of its drafts are kept, then one token more. *)
SampleLists(num_drafts) == UNION {[1..(k + 1) -> Vocab] : k \in 0..num_drafts}

Samples(st, scheduled) ==
    LET RowDrafts(r) == IF st.seq[r].is_prefill THEN 0 ELSE st.seq[r].num_scheduled_tokens - 1
        all == UNION {SampleLists(RowDrafts(r)) : r \in ToSet(scheduled)}
    IN  {f \in [ToSet(scheduled) -> all] :
            \A r \in ToSet(scheduled) : f[r] \in SampleLists(RowDrafts(r))}

(* What the connector's workers may report: any of the held sends (read,   *)
(* or timed out) and any of the loads, ended well or not.                  *)
Reports(st) ==
    IF ~HasConnector THEN {[sent |-> << >>, ended |-> << >>, loaded |-> {}]}
    ELSE UNION {UNION {{[sent |-> p, ended |-> q, loaded |-> L] : L \in SUBSET E} :
                       p \in SetToSeqs(S), q \in SetToSeqs(E)} :
                S \in SUBSET st.sending, E \in SUBSET st.recving}

(* The reads of a load write the blocks it was started with, whoever has   *)
(* them by now; a failed one leaves them undefined.                        *)
LoadMemory(mem, st, report) ==
    LET Load(acc, i) ==
            LET r == report.ended[i]
                load == st.loads[r]
            IN  WriteSlots(acc, load.blocks, IF r \in report.loaded THEN Prompt[r] ELSE << >>,
                           load.first, Len(load.blocks) * BlockSize)
    IN  Repeat(Load, mem, Len(report.ended))

(* _max_num_blocks: the width of the block tables the graphs were captured *)
(* with. validate_request lets nobody past max_model_len tokens.           *)
MaxNumBlocks ==
    LET max_model_len == Max({Len(Prompt[r]) + MaxTokens[r] : r \in Reqs})
    IN  (max_model_len + NumSpeculativeTokens + BlockSize - 1) \div BlockSize

(* What the runner was given for r. *)
Query(s) ==
    [num_tokens  |-> s.num_scheduled_tokens,
     is_prefill  |-> s.is_prefill,
     ends_prompt |-> s.num_cached_tokens + s.num_scheduled_tokens >= NumTokens(s)]

(* The step in flight: the rows advance() returned, with their tokens. *)
Flight(st, scheduled, rows, sampled) ==
    IF scheduled = << >> THEN NoStep
    ELSE [launched |-> TRUE,
          rows  |-> [i \in DOMAIN rows |->
                        [req |-> rows[i].req, num_preemptions |-> rows[i].num_preemptions,
                         num_draft_tokens |-> rows[i].num_draft_tokens,
                         tokens |-> sampled[rows[i].req]]],
          batch |-> [i \in DOMAIN scheduled |-> Query(st.seq[scheduled[i]])]]

(* _launch, once scheduled: exchange transfers, run, advance. *)
RunAndAdvance(st, out, rows, sampled, mem) ==
    LET adv == Advance(st, out.scheduled)
    IN  [st      |-> adv.st,
         dropped |-> out.dropped,
         flight  |-> Flight(st, out.scheduled, adv.rows, sampled),
         kv      |-> RunModel(mem, st, out.scheduled, rows, sampled)]

LaunchScheduled(sc, rows) ==
    {RunAndAdvance(UpdateFromKVConnectorOutput(sc.st, report), sc.out, rows, sampled,
                   LoadMemory(kv, sc.st, report)) :
        report \in Reports(sc.st), sampled \in Samples(sc.st, sc.out.scheduled)}

(* _launch *)
Launches(st, rows) == LaunchScheduled(Schedule(st), rows)

(* The outputs of one step(): the new tokens of each reconciled request,   *)
(* its state as it is at the end of the step, and a last output for each   *)
(* dropped one that was not reconciled.                                    *)
Deliver(st, stepped, dropped) ==
    LET Output(r) ==
            LET s == st.seq[r]
                n == NumTokens(s)
            IN  [clients[r] EXCEPT
                   !.tokens = @ \o SubSeq(s.token_ids, n - s.num_new_tokens + 1, n),
                   !.finals = IF IsFinished(s) THEN @ + 1 ELSE @,
                   !.handover = @ \/ (IsFinished(s) /\ HandsOver(s))]
        Dropped(r) == [clients[r] EXCEPT !.finals = @ + 1]
    IN  [r \in Reqs |->
            IF r \in ToSet(stepped) THEN Output(r)
            ELSE IF r \in ToSet(dropped) THEN Dropped(r) ELSE clients[r]]

(* step() with async_scheduling: launch, then reconcile the step before. *)
StepAsync ==
    /\ AsyncScheduling
    /\ ~EngineIsFinished
    /\ \E l \in Launches(sched, in_flight.rows) :
       \E rec \in {Reconcile(l.st, in_flight.rows)} :
        /\ sched' = rec.st
        /\ in_flight' = l.flight
        /\ kv' = l.kv
        /\ clients' = Deliver(rec.st, rec.stepped, l.dropped)

(* step() without it: reconcile, then launch from what is now known. *)
StepSync ==
    /\ ~AsyncScheduling
    /\ ~EngineIsFinished
    /\ \E rec \in {Reconcile(sched, in_flight.rows)} :
       \E l \in Launches(rec.st, << >>) :
        /\ sched' = l.st
        /\ in_flight' = l.flight
        /\ kv' = l.kv
        /\ clients' = Deliver(l.st, rec.stepped, l.dropped)

Next ==
    \/ \E r \in Reqs : AddRequest(r)
    \/ \E r \in Reqs : \E reason \in {"abort", "stop"} : AbortRequest(r, reason)
    \/ StepAsync
    \/ StepSync

Spec == Init /\ [][Next]_vars

-----------------------------------------------------------------------------
Arrived == DOMAIN sched.seq

Running == ToSet(sched.running)

(* The requests that own blocks. *)
Owners == Running \cup sched.recving \cup sched.sending

FlightRow(r) == {i \in 1..Len(in_flight.rows) :
                    /\ in_flight.rows[i].req = r
                    /\ ~RowIsVoid(sched, in_flight.rows[i])}

TypeOK ==
    /\ ToSet(sched.waiting) \cup Running \cup sched.recving \cup sched.sending \subseteq Arrived
    /\ sched.live \subseteq Arrived
    /\ \A r \in Arrived :
        /\ sched.seq[r].status \in Status
        /\ sched.seq[r].num_pending_tokens \in Nat
        /\ sched.seq[r].num_cached_tokens \in Nat
        /\ sched.seq[r].num_scheduled_tokens = 0
    /\ in_flight.launched \in BOOLEAN

(* A live request is in exactly one of waiting, running and recving, as    *)
(* its status says; a finished one only where it may still own blocks. No  *)
(* two requests of one id are tracked at once, so that none of the dicts   *)
(* keyed by id loses an entry, although ids come back after a finish.      *)
OneQueue ==
    /\ \A r, q \in sched.live \cup sched.recving \cup sched.sending :
        RequestId[r] = RequestId[q] => r = q
    /\ IsInjective(sched.waiting) /\ IsInjective(sched.running)
    /\ \A r \in Arrived :
        LET status == sched.seq[r].status
        IN  /\ r \in ToSet(sched.waiting) <=> status = "WAITING"
            /\ r \in Running <=> status = "RUNNING"
            /\ r \in sched.recving /\ r \in sched.live <=> status = "WAITING_FOR_REMOTE_KVS"
            /\ r \in sched.live <=> status # "FINISHED"

(* Blocks are owned by running, loading or held sequences and by nobody    *)
(* else: none leaks on preemption, abort, drop or failure, none is freed   *)
(* twice, and no assertion of the block manager has failed on the way.     *)
NoBlockLeak ==
    LET Table(r) == ToSet(sched.seq[r].block_table)
    IN  /\ sched.bm.asserts
        /\ sched.bm.used = UNION {Table(r) : r \in Owners}
        /\ ToSet(sched.bm.free) = Blocks \ sched.bm.used
        /\ \A r \in Arrived \ Owners : sched.seq[r].block_table = << >>
        /\ \A b \in Blocks :
            sched.bm.ref_count[b] = Cardinality({r \in Owners : b \in Table(r)})

(* Reservations are those of the row in flight, and a decoding sequence is *)
(* computed up to its last planned token.                                  *)
PendingMatchesFlight ==
    \A r \in Running :
        LET s == sched.seq[r]
            rows == FlightRow(r)
        IN  /\ s.num_pending_tokens =
                 IF rows = {} THEN 0 ELSE 1 + in_flight.rows[Max(rows)].num_draft_tokens
            /\ ~s.is_prefill => s.num_cached_tokens = NumPlannedTokens(s) - 1
            /\ s.is_prefill => s.num_cached_tokens < NumTokens(s)

(* Every computed position has a slot, and so have those that the drafter  *)
(* writes: one for each draft after the first. The blocks fit the graphs'  *)
(* tables, although a row may still hold some for rejected drafts.         *)
SlotsCovered ==
    \A r \in Running :
        LET s == sched.seq[r]
            lookahead == IF FlightRow(r) = {} THEN 0 ELSE Max({NumSpeculativeTokens - 1, 0})
        IN  /\ HasSlot(s.block_table, s.num_cached_tokens + lookahead)
            /\ Len(s.block_table) <= MaxNumBlocks

(* The KV every running sequence attends to next is that of its own        *)
(* tokens, whatever was preempted, aborted, rejected, shared, loaded or    *)
(* still in flight before.                                                 *)
ReadsOwnPrefix ==
    \A r \in Running :
        LET s == sched.seq[r]
            tokens == DeviceTokens(s, r, in_flight.rows)
        IN  \A p \in 1..DeviceStart(s, r, in_flight.rows) :
                kv[SlotBlock(s.block_table, p)][SlotIndex(p)] = SubSeq(tokens, 1, p)

(* A cache entry leads to a block that holds, slot for slot, its prefix,   *)
(* even when the step that computes it is still in flight.                 *)
CacheHoldsPrefix ==
    \A h \in DOMAIN sched.bm.hash_to_block_id : \A i \in 1..BlockSize :
        kv[sched.bm.hash_to_block_id[h]][i] = SubSeq(h, 1, Len(h) - BlockSize + i)

(* Blocks handed over in a delivered output hold the prompt's KV until the *)
(* send ends.                                                              *)
HandoverIntact ==
    \A r \in sched.sending : clients[r].handover =>
        \A p \in 1..Len(Prompt[r]) :
            /\ HasSlot(sched.sends[r], p)
            /\ kv[SlotBlock(sched.sends[r], p)][SlotIndex(p)] = SubSeq(Prompt[r], 1, p)

(* The client has been delivered exactly the committed tokens, each once   *)
(* and in order, never more than it asked for.                             *)
DeliveredIsCommitted ==
    \A r \in Arrived :
        LET s == sched.seq[r]
        IN  /\ s.token_ids = Prompt[r] \o clients[r].tokens
            /\ Len(clients[r].tokens) <= MaxTokens[r]

(* A request the client did not abort gets one last output, when it        *)
(* finishes; an aborted one gets none.                                     *)
OneFinalOutput ==
    \A r \in Reqs :
        clients[r].finals =
            IF r \in Arrived /\ IsFinished(sched.seq[r]) /\ ~clients[r].aborted THEN 1 ELSE 0

(* A finished completion ended for the reason it gives. *)
ReasonIsTrue ==
    \A r \in Arrived :
        LET s == sched.seq[r]
        IN  /\ s.finish_reason = "length" => Len(clients[r].tokens) = MaxTokens[r]
            /\ (s.finish_reason = "stop" /\ ~clients[r].aborted) =>
                    Last(clients[r].tokens) = Eos

TotalTokens(batch) ==
    LET Round(acc, i) == acc + batch[i].num_tokens IN Repeat(Round, 0, Len(batch))

(* A batch fits the token budget and the row limit, and each of its rows   *)
(* computes something.                                                     *)
BatchWithinLimits ==
    LET batch == in_flight.batch
    IN  /\ Len(batch) <= MaxNumSeqs
        /\ TotalTokens(batch) <= MaxNumBatchedTokens
        /\ \A i \in DOMAIN batch : batch[i].num_tokens > 0

(* scheduler.py, of enable_chunked_prefill off: "whole prompts only, and   *)
(* never mixed with decode"; docs/online-serving.md: "Off runs whole       *)
(* prompts, never mixed with decode".                                      *)
WholePromptsOnly ==
    LET batch == in_flight.batch
    IN  (~EnableChunkedPrefill /\ \E i \in DOMAIN batch : batch[i].is_prefill) =>
            \A i \in DOMAIN batch : batch[i].is_prefill /\ batch[i].ends_prompt

(* api_server.py, of an abort on a stop string: "frees the blocks";        *)
(* nixl_connector.py: "an abort ends there". An aborted request keeps no   *)
(* blocks, unless a load is still writing them.                            *)
AbortFreesBlocks ==
    \A r \in Arrived :
        clients[r].aborted => \/ r \in sched.recving
                              \/ sched.seq[r].block_table = << >> /\ r \notin sched.sending

(* scheduler.py: "Alone in the cache and still short of a block: it can    *)
(* never fit"; docs/online-serving.md: "A sequence that cannot fit even on *)
(* its own is dropped". A request dropped for capacity needs, by the       *)
(* code's own measure (_never_fits), more than the whole cache.            *)
DroppedNeverFits ==
    \A r \in Arrived :
        sched.seq[r].finish_reason = "capacity" => NeverFits(sched.seq[r])

(* docs/online-serving.md: "When the KV cache runs out, a sequence is      *)
(* preempted: its blocks are freed, and it is recomputed later from the    *)
(* head of the queue." A preempted request that the cache can hold is not  *)
(* dropped.                                                                *)
PreemptedIsRecomputed ==
    \A r \in Arrived :
        LET s == sched.seq[r]
        IN  (s.num_preemptions > 0 /\ s.finish_reason = "capacity") => NeverFits(s)

-----------------------------------------------------------------------------
(* A request's tokens only grow and a finished one's are final; with       *)
(* async_scheduling, what a preempted sequence had in flight is discarded, *)
(* to be recomputed.                                                       *)
TokensOnlyGrow ==
    [][\A r \in Arrived :
         LET s == sched.seq[r]
             t == sched'.seq[r]
         IN  /\ IsPrefix(s.token_ids, t.token_ids)
             /\ (\/ IsFinished(s)
                 \/ AsyncScheduling /\ s.num_preemptions # t.num_preemptions)
                    => t.token_ids = s.token_ids]_vars
=============================================================================
