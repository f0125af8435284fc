----------------------------- MODULE Scheduler ------------------------------
(***************************************************************************)
(* engine/scheduler.py, engine/policy.py and the scheduler half of         *)
(* kv_transfer/nixl_connector.py: which sequences run in a step, and what  *)
(* becomes of them. The Scheduler object's state is one record st; each    *)
(* method is an operator from st (and the step's output) to the new ones.  *)
(*   waiting   the policy's queue, next request first                      *)
(*   running   the deque                                                   *)
(*   recving, sending, live    the dicts recving, sending and seqs, as     *)
(*             sets of requests (OneQueue: no two share an id)             *)
(*   seq       the Sequence of every request that has arrived              *)
(*   bm        the block manager                                           *)
(*   loads     blocks each remote load writes, from update_state_after_alloc*)
(*   sends     blocks handed over, from request_finished                   *)
(***************************************************************************)
EXTENDS BlockManager

CONSTANTS
    Reqs,                       \* the requests
    RequestId,                  \* RequestId[r]: the id its client gave it
    Prompt,                     \* Prompt[r]
    MaxTokens,                  \* MaxTokens[r]
    Priority,                   \* Priority[r]
    Transfer,                   \* Transfer[r]: its kv_transfer_params' flags
    RemoteBlocksMatch,          \* RemoteBlocksMatch[r]: as many remote blocks as its prompt has
    Eos,                        \* the token that ends a completion
    MaxNumSeqs,                 \* max_num_seqs
    MaxNumBatchedTokens,        \* max_num_batched_tokens
    EnableChunkedPrefill,       \* enable_chunked_prefill
    LongPrefillTokenThreshold,  \* long_prefill_token_threshold
    NumSpeculativeTokens,       \* num_speculative_tokens, 0 without a drafter
    HasConnector,               \* kv_transfer is configured
    SchedulingPolicy            \* "fcfs" or "priority"

ASSUME SchedulerAssumption ==
    /\ MaxNumSeqs \in Nat \ {0}
    /\ MaxNumBatchedTokens \in Nat \ {0}
    /\ NumSpeculativeTokens \in Nat
    /\ LongPrefillTokenThreshold \in Nat
    /\ SchedulingPolicy \in {"fcfs", "priority"}
    /\ RecomputeLastHit = (NumSpeculativeTokens > 0)
    /\ ~(HasConnector /\ NumSpeculativeTokens > 0)
    /\ Priority \in [Reqs -> Int]
    /\ Transfer \in [Reqs -> [do_remote_prefill : BOOLEAN, do_remote_decode : BOOLEAN]]
    /\ MaxTokens \in [Reqs -> Nat \ {0}]
    /\ \A r \in Reqs : Len(Prompt[r]) > 0

(* Fault: the drafter's slots are forgotten. *)
NoLookaheadTokens == 0

(* Slots past the planned tokens that a drafter writes. *)
NumLookaheadTokens == Max({NumSpeculativeTokens - 1, 0})

InitScheduler ==
    [waiting |-> << >>, running |-> << >>, recving |-> {}, sending |-> {},
     live |-> {}, seq |-> << >>, bm |-> InitBlockManager,
     loads |-> << >>, sends |-> << >>]

NewOutput == [scheduled |-> << >>, preempted |-> << >>, dropped |-> << >>,
              budget |-> MaxNumBatchedTokens]

SchedulerIsFinished(st) ==
    /\ st.waiting = << >> /\ st.running = << >>
    /\ st.recving = {} /\ st.sending = {}

(* n rounds of a loop: Body(state, i) is round i. A round past the end of  *)
(* the loop changes nothing.                                               *)
Repeat(Body(_, _), start, n) ==
    LET after[i \in 0..n] == IF i = 0 THEN start ELSE Body(after[i - 1], i)
    IN  after[n]

(* A queue without one of its members. *)
Without(queue, r) == Keep(queue, ToSet(queue) \ {r})

-----------------------------------------------------------------------------
(* policy.py. Lower priority values first, then arrival. *)
MoreUrgent(seq, a, b) ==
    \/ Priority[a] < Priority[b]
    \/ Priority[a] = Priority[b] /\ seq[a].arrival < seq[b].arrival

PolicyPush(st, r) ==
    LET before == {i \in 1..Len(st.waiting) : MoreUrgent(st.seq, st.waiting[i], r)}
    IN  [st EXCEPT !.waiting = InsertAt(@, Cardinality(before) + 1, r)]

PolicyAdd(st, r) ==
    IF SchedulingPolicy = "fcfs" THEN [st EXCEPT !.waiting = Append(@, r)]
                                 ELSE PolicyPush(st, r)

PolicyRequeue(st, r) ==
    IF SchedulingPolicy = "fcfs" THEN [st EXCEPT !.waiting = <<r>> \o @]
                                 ELSE PolicyPush(st, r)

PolicyPop(st) == [st EXCEPT !.waiting = Tail(@)]

Victim(st) ==
    IF SchedulingPolicy = "fcfs" THEN Last(st.running)
    ELSE CHOOSE r \in ToSet(st.running) :
            \A q \in ToSet(st.running) : q = r \/ MoreUrgent(st.seq, q, r)

ByUrgency(st) ==
    LET running == ToSet(st.running)
        NumBefore(r) == Cardinality({q \in running : MoreUrgent(st.seq, q, r)})
    IN  IF SchedulingPolicy = "fcfs" THEN st
        ELSE [st EXCEPT !.running =
                [i \in 1..Len(@) |-> CHOOSE r \in running : NumBefore(r) = i - 1]]

-----------------------------------------------------------------------------
WithBlocks(st, r, result) ==
    [st EXCEPT !.bm = result.bm, !.seq[r] = result.seq]

ReleaseBlocks(st, r) == WithBlocks(st, r, Deallocate(st.bm, st.seq[r]))

(* Fault: an aborted load or a held send does not count. *)
IdTakenByLive(st, id) == \E q \in st.live : RequestId[q] = id

(* add: refused while a request of the same id is live, or still owns      *)
(* blocks through an aborted load or a held send.                          *)
IdTaken(st, id) ==
    \E q \in st.live \cup st.recving \cup st.sending : RequestId[q] = id

AddSequence(st, r) ==
    LET new == NewSequence(Prompt[r], Cardinality(DOMAIN st.seq) + 1, Transfer[r])
    IN  PolicyAdd([st EXCEPT !.seq = [q \in DOMAIN @ \cup {r} |-> IF q = r THEN new ELSE @[q]],
                             !.live = @ \cup {r}], r)

Finish(st, r, reason) ==
    [st EXCEPT !.seq[r].status = "FINISHED", !.seq[r].finish_reason = reason]

(* _drop, without the output list: finish, drop the reservations, forget.  *)
Drop(st, r, reason) ==
    LET f == Finish(st, r, reason)
    IN  [f EXCEPT !.seq[r] = DropPending(@), !.live = @ \ {r}]

(* The connector's request_finished holds the prompt's blocks of a prefill *)
(* that is to be decoded elsewhere; otherwise they are released.           *)
HandsOver(s) ==
    HasConnector /\ s.do_remote_decode /\ s.finish_reason \in {"length", "stop"}

(* Fault: blocks are handed over and released at once. *)
FreeWhileSending(st, r) ==
    LET s == st.seq[r]
        held == [st EXCEPT !.sending = @ \cup {r}, !.sends = (r :> s.block_table) @@ @]
    IN  ReleaseBlocks(IF HandsOver(s) THEN held ELSE st, r)

Free(st, r) ==
    LET s == st.seq[r]
        num_prompt_blocks == Min({CeilDiv(s.num_prompt_tokens, BlockSize),
                                  Len(s.block_table)})
    IN  IF HandsOver(s)
        THEN [st EXCEPT !.sending = @ \cup {r},
                        !.sends = (r :> SubSeq(s.block_table, 1, num_prompt_blocks)) @@ @]
        ELSE ReleaseBlocks(st, r)

(* Fault: the blocks of a request that is loading are freed at once. *)
AbortFreesLoading(st, r, reason) ==
    LET gone == [st EXCEPT !.live = @ \ {r}, !.waiting = Without(@, r), !.running = Without(@, r)]
    IN  Free(Finish([gone EXCEPT !.seq[r] = DropPending(@)], r, reason), r)

(* abort, for a live request. The blocks of one that is loading are freed  *)
(* when the load ends.                                                     *)
Abort(st, r, reason) ==
    LET gone == [st EXCEPT !.live = @ \ {r}]
        dequeued == IF st.seq[r].status = "WAITING"
                    THEN [gone EXCEPT !.waiting = Without(@, r)]
                    ELSE [gone EXCEPT !.running = Without(@, r)]
        ended == Finish([dequeued EXCEPT !.seq[r] = DropPending(@)], r, reason)
    IN  IF st.seq[r].status = "WAITING_FOR_REMOTE_KVS"
        THEN Finish(gone, r, reason)
        ELSE Free(ended, r)

-----------------------------------------------------------------------------
Preempt(st, out, r) ==
    LET s == [DropPending(st.seq[r]) EXCEPT
                !.status = "WAITING", !.is_prefill = TRUE,
                !.num_preemptions = @ + 1, !.num_spec_tokens = 0]
        freed == ReleaseBlocks([st EXCEPT !.seq[r] = s], r)
    IN  [st |-> PolicyRequeue(freed, r), out |-> [out EXCEPT !.preempted = Append(@, r)]]

(* Faults: the pending token is not waited for; nothing is ever given up. *)
DefersForTransfers(st, s) == st.recving \cup st.sending # {}
DefersForever(st, s) == TRUE

(* A lone sequence that is short of a block waits for its own pending      *)
(* token, which may finish it, and for transfers, which hold blocks.       *)
Defers(st, s) == s.num_pending_tokens > 0 \/ st.recving \cup st.sending # {}

(* A round of _make_room's loop: the least urgent of those not yet served  *)
(* is preempted, unless r fits.                                            *)
PreemptVictim(p, r, num_lookahead) ==
    LET v == Victim(p.st)
    IN  IF CanAppend(p.st.bm, p.st.seq[r], num_lookahead) \/ p.st.running = << >> THEN p
        ELSE Preempt([p.st EXCEPT !.running = Without(@, v)], p.out, v)

PreemptVictims(p, r, num_lookahead) ==
    LET Round(q, i) == PreemptVictim(q, r, num_lookahead)
    IN  Repeat(Round, p, Len(p.st.running))

(* _make_room: preempt those not yet served until r fits. r itself gives   *)
(* way to those already served; alone, it waits or is dropped. The         *)
(* result's ok is the method's; still is still_running.                    *)
MakeRoom(st, out, still, r, num_lookahead) ==
    LET room == PreemptVictims([st |-> st, out |-> out], r, num_lookahead)
        s == room.st.seq[r]
        gaveWay(p, q) == [st |-> p.st, out |-> p.out, still |-> q, ok |-> FALSE]
    IN  IF CanAppend(room.st.bm, s, num_lookahead)
        THEN [st |-> room.st, out |-> room.out, still |-> still, ok |-> TRUE]
        ELSE IF still # << >> \/ room.out.scheduled # << >>
        THEN gaveWay(Preempt(room.st, room.out, r), still)
        ELSE IF Defers(room.st, s) THEN gaveWay(room, Append(still, r))
        ELSE gaveWay([st  |-> Drop(ReleaseBlocks(room.st, r), r, "capacity"),
                      out |-> [room.out EXCEPT !.dropped = Append(@, r)]], still)

(* _schedule: a prefill chunk, or the last token and the drafts to verify. *)
ScheduleRow(st, out, r) ==
    LET s == st.seq[r]
        chunk == Min({NumTokens(s) - s.num_cached_tokens, out.budget})
        capped == IF EnableChunkedPrefill /\ LongPrefillTokenThreshold > 0
                  THEN Min({chunk, LongPrefillTokenThreshold}) ELSE chunk
        num_tokens == IF s.is_prefill THEN capped ELSE 1 + s.num_spec_tokens
    IN  [st  |-> [st EXCEPT !.seq[r].num_scheduled_tokens = num_tokens],
         out |-> [out EXCEPT !.scheduled = Append(@, r), !.budget = @ - num_tokens]]

(* The drafts past what the budget and max_tokens leave are deleted. *)
TrimDrafts(s, r, budget) ==
    LET num_left == MaxTokens[r] - (NumPlannedTokens(s) - s.num_prompt_tokens)
        keep == Max({Min({budget, num_left}) - 1, 0})
    IN  [s EXCEPT !.num_spec_tokens = Min({@, keep})]

ReachesLimit(s, r) == NumPlannedTokens(s) - s.num_prompt_tokens >= MaxTokens[r]

(* Fault: the row limit is left to admission. *)
BudgetIsSpent(out) == out.budget <= 0

StepIsFull(out) == out.budget <= 0 \/ Len(out.scheduled) >= MaxNumSeqs

(* A row of the step, for a sequence that stays running. *)
ServeRow(st, out, still, r) ==
    LET row == ScheduleRow(st, out, r)
    IN  [st |-> row.st, out |-> row.out, still |-> Append(still, r)]

(* A decoding sequence, once MakeRoom has tried. *)
ServeDecode(room, r, num_lookahead) ==
    LET grown == MayAppend(room.st.bm, room.st.seq[r], num_lookahead)
    IN  IF room.ok THEN ServeRow(WithBlocks(room.st, r, grown), room.out, room.still, r)
                   ELSE room

(* One sequence of the loop of schedule() over the running: left untouched *)
(* this step, or given a prefill chunk, or, decoding, room to grow.        *)
Serve(st, out, still, r) ==
    LET s == st.seq[r]
        trimmed == TrimDrafts(s, r, out.budget)
        num_lookahead == trimmed.num_spec_tokens + NumLookaheadTokens
    IN  IF StepIsFull(out) \/ ReachesLimit(s, r)
        THEN [st |-> st, out |-> out, still |-> Append(still, r)]
        ELSE IF s.is_prefill THEN ServeRow(st, out, still, r)
        ELSE ServeDecode(MakeRoom([st EXCEPT !.seq[r] = trimmed], out, still, r, num_lookahead),
                         r, num_lookahead)

ServeNext(p) ==
    IF p.st.running = << >> THEN p
    ELSE Serve([p.st EXCEPT !.running = Tail(@)], p.out, p.still, Head(p.st.running))

ServeAll(p) == LET Round(q, i) == ServeNext(q) IN Repeat(Round, p, Len(p.st.running))

ServeRunning(p) ==
    LET served == ServeAll(p)
    IN  [st |-> [served.st EXCEPT !.running = served.still], out |-> served.out]

-----------------------------------------------------------------------------
NeverFits(s) == NumBlocksFor(s, NumLookaheadTokens) > NumBlocks

LoadsRemotely(s) == HasConnector /\ s.do_remote_prefill

(* The connector's get_num_new_matched_tokens: the rest of the prompt is   *)
(* loaded, unless the producer's block list does not fit the prompt.       *)
NumExternalTokens(s, r) ==
    IF LoadsRemotely(s) /\ RemoteBlocksMatch[r]
    THEN s.num_prompt_tokens - s.num_cached_tokens ELSE 0

(* _admit, once r has its blocks: run the first chunk, or start the load.  *)
(* Either way the transfer flag is spent: a preempted request recomputes.  *)
Admitted(st, out, r) ==
    LET s == st.seq[r]
        flagged == IF LoadsRemotely(s) THEN [st EXCEPT !.seq[r].do_remote_prefill = FALSE] ELSE st
        load == [first  |-> s.num_cached_tokens + 1,
                 blocks |-> s.block_table]
    IN  IF NumExternalTokens(s, r) > 0
        THEN [st  |-> [flagged EXCEPT !.seq[r].status = "WAITING_FOR_REMOTE_KVS",
                                      !.recving = @ \cup {r},
                                      !.loads = (r :> load) @@ @],
              out |-> out]
        ELSE ScheduleRow([flagged EXCEPT !.seq[r].status = "RUNNING",
                                         !.running = Append(@, r)], out, r)

Admit(st, out, r, num_cached_blocks) ==
    Admitted(WithBlocks(PolicyPop(st), r,
                        Allocate(st.bm, st.seq[r], num_cached_blocks, NumLookaheadTokens)),
             out, r)

DropWaiting(st, out, r) ==
    [st  |-> Drop(PolicyPop(st), r, "capacity"),
     out |-> [out EXCEPT !.dropped = Append(@, r)]]

(* The admission loop of schedule(), with chunked prefill. *)
AdmitNext(p) ==
    LET r == Head(p.st.waiting)
        s == p.st.seq[r]
        n == CanAllocate(p.st.bm, s, NumLookaheadTokens)
    IN  IF p.st.waiting = << >> \/ StepIsFull(p.out) THEN p
        ELSE IF NeverFits(s) THEN DropWaiting(p.st, p.out, r)
        ELSE IF n = -1 THEN p
        ELSE Admit(p.st, p.out, r, n)

AdmitChunked(p) ==
    LET Round(q, i) == AdmitNext(q) IN Repeat(Round, p, Len(p.st.waiting))

(* _schedule_whole_prompts: a prompt that exceeds a step's budget is       *)
(* dropped, one that exceeds what is left of it waits.                     *)
AdmitNextWhole(p) ==
    LET r == Head(p.st.waiting)
        s == p.st.seq[r]
        n == CanAllocate(p.st.bm, s, NumLookaheadTokens)
        num_tokens == IF LoadsRemotely(s) THEN 0 ELSE NumTokens(s) - n * BlockSize
    IN  IF p.st.waiting = << >> \/ Len(p.out.scheduled) >= MaxNumSeqs THEN p
        ELSE IF NeverFits(s) THEN DropWaiting(p.st, p.out, r)
        ELSE IF n = -1 THEN p
        ELSE IF num_tokens > MaxNumBatchedTokens THEN DropWaiting(p.st, p.out, r)
        ELSE IF num_tokens > p.out.budget THEN p
        ELSE Admit(p.st, p.out, r, n)

AdmitWholePrompts(p) ==
    LET Round(q, i) == AdmitNextWhole(q) IN Repeat(Round, p, Len(p.st.waiting))

(* The rest of schedule(), after whole prompts were tried if chunking is   *)
(* off: a step with whole prompts has nothing else in it.                  *)
Serving(whole) ==
    ServeRunning([st    |-> ByUrgency(whole.st),
                  out   |-> [NewOutput EXCEPT !.dropped = whole.out.dropped],
                  still |-> << >>])

Admitting(served) ==
    IF EnableChunkedPrefill /\ served.out.preempted = << >> THEN AdmitChunked(served)
                                                            ELSE served

(* Fault: decodes are added to a step of whole prompts. *)
AfterWholePromptsMixed(whole) ==
    LET admitted == ToSet(whole.out.scheduled)
        decoding == SelectSeq(whole.st.running, LAMBDA r : r \notin admitted)
        Rejoin(p) == [p EXCEPT !.st.running = @ \o whole.out.scheduled]
    IN  Rejoin(ServeRunning([st |-> [whole.st EXCEPT !.running = decoding],
                             out |-> whole.out, still |-> << >>]))

AfterWholePrompts(whole) ==
    IF whole.out.scheduled # << >> THEN whole ELSE Admitting(Serving(whole))

Schedule(st) ==
    LET start == [st |-> st, out |-> NewOutput]
    IN  AfterWholePrompts(IF EnableChunkedPrefill THEN start ELSE AdmitWholePrompts(start))

-----------------------------------------------------------------------------
(* advance(), for one sequence of the step: rows is the list of            *)
(* LaunchedRows so far.                                                    *)
AdvanceRow(acc, r) ==
    LET s == acc.st.seq[r]
        moved == [s EXCEPT !.num_cached_tokens = @ + s.num_scheduled_tokens,
                           !.num_scheduled_tokens = 0, !.num_spec_tokens = 0]
        hashed == HashBlocks(acc.st.bm, moved, moved.num_cached_tokens)
        samples == hashed.seq.num_cached_tokens >= NumPlannedTokens(hashed.seq)
        sampling == [ReserveToken(hashed.seq, 1 + s.num_spec_tokens) EXCEPT
                       !.is_prefill = FALSE, !.num_spec_tokens = NumSpeculativeTokens]
        row == [req |-> r, num_preemptions |-> s.num_preemptions,
                num_draft_tokens |-> s.num_spec_tokens]
    IN  IF samples
        THEN [st   |-> WithBlocks(acc.st, r, [bm |-> hashed.bm, seq |-> sampling]),
              rows |-> Append(acc.rows, row)]
        ELSE [st |-> WithBlocks(acc.st, r, hashed), rows |-> acc.rows]

Advance(st, scheduled) ==
    LET Round(acc, i) == AdvanceRow(acc, scheduled[i])
    IN  Repeat(Round, [st |-> st, rows |-> << >>], Len(scheduled))

(* The tokens of one row, committed until one stops the request. *)
StopReason(s, r, token) ==
    IF token = Eos THEN "stop"
    ELSE IF NumCompletionTokens(s) = MaxTokens[r] THEN "length" ELSE NoReason

(* A token of the row: nothing is committed after a stop. *)
CommitNext(acc, r, token) ==
    LET c == [CommitToken(acc.s, token) EXCEPT !.num_new_tokens = @ + 1]
    IN  IF acc.reason # NoReason THEN acc
        ELSE [s |-> c, reason |-> StopReason(c, r, token)]

(* Faults: num_new_tokens is not reset; the tokens after a stop are kept. *)
CommitRowAccumulates(s, r, tokens) ==
    LET Round(acc, i) == CommitNext(acc, r, tokens[i])
    IN  Repeat(Round, [s |-> s, reason |-> NoReason], Len(tokens))
CommitRowPastStop(s, r, tokens) ==
    LET Round(acc, i) ==
            LET c == [CommitToken(acc.s, tokens[i]) EXCEPT !.num_new_tokens = @ + 1]
            IN  [s |-> c, reason |-> IF acc.reason # NoReason THEN acc.reason
                                     ELSE StopReason(c, r, tokens[i])]
    IN  Repeat(Round, [s |-> [s EXCEPT !.num_new_tokens = 0], reason |-> NoReason], Len(tokens))

CommitRow(s, r, tokens) ==
    LET Round(acc, i) == CommitNext(acc, r, tokens[i])
    IN  Repeat(Round, [s |-> [s EXCEPT !.num_new_tokens = 0], reason |-> NoReason], Len(tokens))

(* Faults: the row of a preempted, or of a finished, request counts. *)
RowIsVoidIfFinished(st, row) == IsFinished(st.seq[row.req])
RowIsVoidIfPreempted(st, row) == st.seq[row.req].num_preemptions # row.num_preemptions

(* Aborted, finished or requeued since the launch: the tokens are void. *)
RowIsVoid(st, row) ==
    \/ IsFinished(st.seq[row.req])
    \/ st.seq[row.req].num_preemptions # row.num_preemptions

(* Faults: only the slots, or only the reservations, are given back. *)
GiveBackSlots(s, rejected) == [s EXCEPT !.num_cached_tokens = @ - rejected]
GiveBackTokens(s, rejected) == [s EXCEPT !.num_pending_tokens = @ - rejected]

(* The slots and the reservations of rejected drafts. *)
GiveBack(s, rejected) ==
    [s EXCEPT !.num_cached_tokens = @ - rejected, !.num_pending_tokens = @ - rejected]

(* reconcile(), for one row and its sampled tokens. *)
ReconcileRow(acc, row) ==
    LET st == acc.st
        r  == row.req
        rejected == row.num_draft_tokens - (Len(row.tokens) - 1)
        c == CommitRow(GiveBack(st.seq[r], rejected), r, row.tokens)
        drafted == IF NumSpeculativeTokens > 0 /\ c.s.num_pending_tokens = 0
                   THEN [c.s EXCEPT !.num_spec_tokens = NumSpeculativeTokens] ELSE c.s
        stopped == [st EXCEPT !.seq[r] = DropPending(c.s), !.running = Without(@, r)]
    IN  IF RowIsVoid(st, row) THEN acc
        ELSE IF c.reason = NoReason
        THEN [st |-> [st EXCEPT !.seq[r] = drafted], stepped |-> Append(acc.stepped, r)]
        ELSE [st |-> Free(Drop(stopped, r, c.reason), r), stepped |-> Append(acc.stepped, r)]

Reconcile(st, rows) ==
    LET Round(acc, i) == ReconcileRow(acc, rows[i])
    IN  Repeat(Round, [st |-> st, stepped |-> << >>], Len(rows))

-----------------------------------------------------------------------------
(* update_from_kv_connector_output: released sends, then ended loads in    *)
(* some order of the set. report.sent, report.loaded and report.failed are *)
(* what every rank has reported.                                           *)
(* Faults: the blocks of a send, or of an aborted load, are not released. *)
EndSendKeepsBlocks(st, r) == [st EXCEPT !.sending = @ \ {r}]

EndSend(st, r) == ReleaseBlocks([st EXCEPT !.sending = @ \ {r}], r)

EndLoadKeepsBlocks(st, r, loaded) ==
    LET gone == [st EXCEPT !.recving = @ \ {r}]
    IN  IF IsFinished(st.seq[r]) THEN gone
        ELSE [gone EXCEPT !.seq[r].status = "RUNNING", !.running = Append(@, r)]

EndLoad(st, r, loaded) ==
    LET gone == [st EXCEPT !.recving = @ \ {r}]
        s == st.seq[r]
        computed == s.num_prompt_tokens - 1     \* the last one is recomputed here
        filled == [s EXCEPT !.num_cached_tokens = computed]
        resumed == IF loaded THEN WithBlocks(gone, r, HashBlocks(st.bm, filled, computed))
                             ELSE gone
    IN  IF IsFinished(s) THEN ReleaseBlocks(gone, r)
        ELSE [resumed EXCEPT !.seq[r].status = "RUNNING", !.running = Append(@, r)]

EndSends(st, sent) ==
    LET Round(acc, i) == EndSend(acc, sent[i]) IN Repeat(Round, st, Len(sent))

EndLoads(st, ended, loaded) ==
    LET Round(acc, i) == EndLoad(acc, ended[i], ended[i] \in loaded)
    IN  Repeat(Round, st, Len(ended))

UpdateFromKVConnectorOutput(st, report) ==
    EndLoads(EndSends(st, report.sent), report.ended, report.loaded)
=============================================================================
