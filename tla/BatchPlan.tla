------------------------------ MODULE BatchPlan -----------------------------
(***************************************************************************)
(* How the model runner lays a step out: the order of its rows, the tokens *)
(* and cache slots of each, the rows it samples, and the keys every query  *)
(* attends. Token p of the i-th sequence of the step is <<i, p>>, wherever *)
(* it comes from.                                                          *)
(*                                                                         *)
(* A step has seqs, in scheduler order, each with its scheduled tokens     *)
(* (len, from position start), its planned tokens, and, when pending, the  *)
(* sampling row (prev) of the step in flight that makes its last token and *)
(* the drafts that step rejected. k is num_speculative_tokens, latents     *)
(* decodes_latents, budget the keys a chunk may expand.                    *)
(***************************************************************************)
EXTENDS Integers, Sequences, SequencesExt, FiniteSetsExt

Sum(f, S) == MapThenSumSet(LAMBDA i : f[i], S)
Ascending(S) == SetToSortSeq(S, LAMBDA a, b : a < b)

NumDrafts(s) == IF s.is_prefill THEN 0 ELSE s.len - 1

(* decode_query_len: the most common of the short lengths, the shorter on  *)
(* ties.                                                                   *)
DecodeQueryLen(lens, k) ==
    LET Count(n) == Cardinality({i \in DOMAIN lens : lens[i] = n})
        short == {n \in 1..(1 + k) : Count(n) > 0}
    IN  IF short = {} THEN 1
        ELSE CHOOSE n \in short : \A m \in short : Count(m) < Count(n) \/ (Count(m) = Count(n) /\ n <= m)

(* The batch: its row order and what decides the attention path. *)
Batch(b) ==
    LET lens == [i \in DOMAIN b.seqs |-> b.seqs[i].len]
        query_len == DecodeQueryLen(lens, b.k)
        order == Ascending({i \in DOMAIN lens : lens[i] = query_len})
                    \o Ascending({i \in DOMAIN lens : lens[i] # query_len})
        has_prompt == \E i \in DOMAIN b.seqs : b.seqs[i].is_prefill
        uniform == ~has_prompt /\ b.latents /\ \A i \in DOMAIN lens : lens[i] = query_len
    IN  [order |-> order, query_len |-> query_len,
         lens |-> [row \in DOMAIN order |-> lens[order[row]]],
         moved |-> {row \in DOMAIN order : b.k > 0 /\ b.seqs[order[row]].pending},
         is_prefill |-> has_prompt \/ ((\E i \in DOMAIN b.seqs : NumDrafts(b.seqs[i]) > 0) /\ ~uniform)]

(* Fault: key lengths on the host stay upper bounds. *)
NeedsExactLengthsNever(b, batch) == FALSE

(* Latent expansion needs exact key lengths on the host. *)
NeedsExactLengths(b, batch) ==
    /\ batch.moved # {}
    /\ \/ ~b.latents
       \/ batch.is_prefill /\ \E row \in batch.moved : batch.lens[row] # batch.query_len

CuSeqlens(lens, row) == Sum(lens, 1..(row - 1))

(* _prev_row, and the previous step's tokens and drafts as it left them on *)
(* the device: one row of each per sequence it sampled for.                *)
PrevToken(b, src) ==
    LET owner == {i \in DOMAIN b.seqs : b.seqs[i].pending /\ b.seqs[i].prev = src}
    IN  IF owner = {} THEN "gone"
        ELSE LET i == CHOOSE i \in owner : TRUE IN <<i, b.seqs[i].start - b.seqs[i].rejected>>
PrevDraft(b, index) ==
    LET token == PrevToken(b, index \div b.k)
    IN  IF token = "gone" THEN token ELSE <<token[1], token[2] + 1 + (index % b.k)>>

(* input_ids: host tokens, then pending tokens and their drafts from the   *)
(* device, where the host's may be stale.                                  *)
InputIds(b, batch, starts) ==
    LET rows == DOMAIN batch.order
        SeqAt(row) == b.seqs[batch.order[row]]
        pending == Ascending({row \in rows : SeqAt(row).pending})
        dst == [t \in DOMAIN pending |-> CuSeqlens(batch.lens, pending[t])]
        src == [t \in DOMAIN pending |-> SeqAt(pending[t]).prev]
        range == [t \in DOMAIN pending |-> t - 1]
        host == FlattenSeq([row \in rows |-> [c \in 1..batch.lens[row] |->
                    IF SeqAt(row).pending THEN "stale" ELSE <<batch.order[row], starts[row] + c - 1>>]])
        filled == IF dst = range /\ src = range
                  THEN [j \in DOMAIN host |-> IF j <= Len(pending) THEN PrevToken(b, j - 1) ELSE host[j]]
                  ELSE [j \in DOMAIN host |->
                           IF j - 1 \in Range(dst)
                           THEN PrevToken(b, src[CHOOSE t \in DOMAIN dst : dst[t] = j - 1]) ELSE host[j]]
        DraftOf(j) == {t \in DOMAIN dst : j - 1 \in (dst[t] + 1)..(dst[t] + SeqAt(pending[t]).len - 1)}
    IN  [j \in DOMAIN host |->
            IF DraftOf(j) = {} THEN filled[j]
            ELSE LET t == CHOOSE t \in DraftOf(j) : TRUE
                 IN  PrevDraft(b, src[t] * b.k + (j - 2 - dst[t]))]

(* _move_back: how far each row goes back on the device. *)
Rejected(b, batch, row) == IF row \in batch.moved THEN b.seqs[batch.order[row]].rejected ELSE 0

(* Block n of the i-th sequence's table is <<i, n>>. *)
Slot(b, i, position) == <<<<i, position \div b.block_size>>, position % b.block_size>>

(* Fault: logits are gathered in batch order. *)
LogitsIndicesInBatch(b, batch, row_of, sampling) ==
    LET last == [row \in DOMAIN batch.order |-> CuSeqlens(batch.lens, row + 1)]
    IN  FlattenSeq([t \in DOMAIN sampling |->
            LET drafts == NumDrafts(b.seqs[sampling[t]])
            IN  [c \in 1..(drafts + 1) |-> last[t] - drafts + c - 1]])

(* logits_indices: each sampling row's last token and the drafts before it. *)
LogitsIndices(b, batch, row_of, sampling) ==
    LET last == [row \in DOMAIN batch.order |-> CuSeqlens(batch.lens, row + 1)]
    IN  FlattenSeq([t \in DOMAIN sampling |->
            LET drafts == NumDrafts(b.seqs[sampling[t]])
            IN  [c \in 1..(drafts + 1) |-> last[row_of[sampling[t]]] - drafts + c - 1]])

(* Fault: a draft is taken where its logits are, not behind them. *)
DraftTokensBefore(b, sampling, indices, input_ids) ==
    LET is_draft == FlattenSeq([t \in DOMAIN sampling |->
                        LET drafts == NumDrafts(b.seqs[sampling[t]])
                        IN  [c \in 1..(drafts + 1) |-> c <= drafts]])
        chosen == Ascending({j \in DOMAIN indices : is_draft[j]})
    IN  [d \in DOMAIN chosen |-> input_ids[indices[chosen[d]]]]

(* draft_token_ids: each draft follows the token whose logits verify it. *)
DraftTokens(b, sampling, indices, input_ids) ==
    LET is_draft == FlattenSeq([t \in DOMAIN sampling |->
                        LET drafts == NumDrafts(b.seqs[sampling[t]])
                        IN  [c \in 1..(drafts + 1) |-> c <= drafts]])
        chosen == Ascending({j \in DOMAIN indices : is_draft[j]})
    IN  [d \in DOMAIN chosen |-> input_ids[indices[chosen[d]] + 1]]

(* prepare_batch, with _move_back done. Every token row of a pure decode   *)
(* batch gets logits.                                                      *)
PrepareBatch(b) ==
    LET batch == Batch(b)
        rows == DOMAIN batch.order
        row_of == [i \in DOMAIN b.seqs |-> CHOOSE row \in rows : batch.order[row] = i]
        exact == NeedsExactLengths(b, batch)
        back == [row \in rows |-> Rejected(b, batch, row)]
        starts == [row \in rows |->
                      b.seqs[batch.order[row]].start - (IF exact THEN back[row] ELSE 0)]
        sampling == Ascending({i \in DOMAIN b.seqs :
                                  b.seqs[i].start + b.seqs[i].len >= b.seqs[i].planned})
        token_rows == FlattenSeq([row \in rows |-> [c \in 1..batch.lens[row] |-> row]])
        moved == [row \in rows |-> IF exact THEN 0 ELSE back[row]]
        positions == [j \in DOMAIN token_rows |->
                         starts[token_rows[j]] + j - 1 - CuSeqlens(batch.lens, token_rows[j])
                             - moved[token_rows[j]]]
        input_ids == InputIds(b, batch, starts)
        indices == LogitsIndices(b, batch, row_of, sampling)
    IN  [batch |-> batch, sampling |-> sampling, row_of |-> row_of,
         token_rows |-> token_rows, positions |-> positions,
         input_ids |-> input_ids,
         slots |-> [j \in DOMAIN token_rows |->
                       Slot(b, batch.order[token_rows[j]], positions[j])],
         host_ends |-> [row \in rows |-> starts[row] + batch.lens[row]],
         context_lens |-> [row \in rows |-> starts[row] + batch.lens[row] - moved[row]],
         logits |-> IF batch.is_prefill THEN indices ELSE [j \in DOMAIN token_rows |-> j],
         draft_ids |-> DraftTokens(b, sampling, indices, input_ids)]

-----------------------------------------------------------------------------
(* plan_context_chunks, the inner loop: rows' cached keys up to a budget. *)
RECURSIVE TakeKeys(_, _, _, _)
TakeKeys(lens, row, start, left) ==
    IF row > Len(lens) \/ left = 0 THEN [row |-> row, start |-> start, pieces |-> << >>]
    ELSE IF lens[row] = 0 THEN [row |-> row, start |-> start, pieces |-> << >>]
    ELSE LET take == Min({lens[row] - start, left})
             done == start + take = lens[row]
             rest == TakeKeys(lens, IF done THEN row + 1 ELSE row,
                              IF done THEN 0 ELSE start + take, left - take)
         IN  [rest EXCEPT !.pieces = <<[row |-> row, start |-> start, len |-> take]>> \o @]

(* plan_context_chunks: each chunk as its rows' pieces. *)
RECURSIVE PlanFrom(_, _, _, _)
PlanFrom(lens, budget, row, start) ==
    IF row > Len(lens) THEN << >>
    ELSE IF lens[row] = 0 THEN PlanFrom(lens, budget, row + 1, start)
    ELSE LET chunk == TakeKeys(lens, row, start, budget)
         IN  <<chunk.pieces>> \o PlanFrom(lens, budget, chunk.row, chunk.start)

PlanContextChunks(lens, budget) == PlanFrom(lens, budget, 1, 0)

(* split_decodes_and_prefills: how many leading rows decode. *)
SplitDecodes(plan) ==
    LET lens == plan.batch.lens
    IN  Min({row - 1 : row \in {row \in DOMAIN lens : lens[row] # plan.batch.query_len}}
                \cup {Len(lens)})

(* MLAAttention.attend: rows that decode cached latents, and the rest.     *)
NumDecodeRows(b, plan) ==
    IF ~b.latents THEN 0
    ELSE IF ~plan.batch.is_prefill THEN Len(plan.batch.order)
    ELSE SplitDecodes(plan)

(* The cached keys the chunks bring to each row past the decode rows. *)
ContextKeys(b, plan, decodes) ==
    LET lens == [r \in 1..(Len(plan.batch.order) - decodes) |->
                    plan.host_ends[decodes + r] - plan.batch.lens[decodes + r]]
        pieces == FlattenSeq(PlanContextChunks(lens, b.budget))
    IN  [row \in DOMAIN plan.batch.order |->
            FlattenSeq([t \in DOMAIN pieces |->
                IF decodes + pieces[t].row # row THEN << >>
                ELSE [c \in 1..pieces[t].len |-> pieces[t].start + c - 1]])]

(* The positions each token row attends, in the order they are merged:     *)
(* a decode row the cache up to itself, any other the new tokens before it *)
(* and the chunks of its cached keys.                                      *)
AttendedKeys(b, plan) ==
    LET decodes == NumDecodeRows(b, plan)
        cached == ContextKeys(b, plan, decodes)
        Offset(j) == j - CuSeqlens(plan.batch.lens, plan.token_rows[j])
    IN  [j \in DOMAIN plan.token_rows |->
            LET row == plan.token_rows[j]
            IN  IF row <= decodes
                THEN [n \in 1..(plan.context_lens[row] - plan.batch.lens[row] + Offset(j)) |-> n - 1]
                ELSE [n \in 1..Offset(j) |-> plan.positions[j - Offset(j) + n]] \o cached[row]]
=============================================================================
