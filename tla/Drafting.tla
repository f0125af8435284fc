------------------------------ MODULE Drafting ------------------------------
(***************************************************************************)
(* Speculative decoding around a step's batch: drafts verified against the *)
(* target's tokens, and the drafter's passes that make the next ones.      *)
(*                                                                         *)
(* A sampling row has drafts, the target's token at each of its positions  *)
(* (one more than drafts: the argmax, or what a sampled row draws with the *)
(* draft excluded), and for a sampled row the coins that accept its drafts. *)
(***************************************************************************)
EXTENDS BatchPlan

Placeholder == -1
JustSampled == -1   \* the position of the token a step samples, whatever it will be

(* Where a row's logits begin, 0-based. *)
FirstLogits(rows, i) == Sum([r \in DOMAIN rows |-> Len(rows[r].drafts) + 1], 1..(i - 1))

(* RejectionSampler.forward, on the drafts and logits of all rows in one   *)
(* sequence each.                                                          *)
RejectionSample(rows, max_num_drafts) ==
    LET target == FlattenSeq([i \in DOMAIN rows |-> rows[i].target])
        drafts == FlattenSeq([i \in DOMAIN rows |-> rows[i].drafts])
        coins == FlattenSeq([i \in DOMAIN rows |-> rows[i].coins])
        draft_rows == FlattenSeq([i \in DOMAIN rows |-> [c \in DOMAIN rows[i].drafts |-> i]])
        Col(d) == d - Sum([r \in DOMAIN rows |-> Len(rows[r].drafts)], 1..(draft_rows[d] - 1))
        Index(d) == FirstLogits(rows, draft_rows[d]) + Col(d)
        accepted == [d \in DOMAIN drafts |->
                        IF rows[draft_rows[d]].greedy
                        THEN IF Index(d) \in DOMAIN target THEN target[Index(d)] = drafts[d] ELSE FALSE
                        ELSE coins[d]]
        keep == [i \in DOMAIN rows |-> [c \in 1..(max_num_drafts + 1) |->
                    \E d \in DOMAIN drafts : draft_rows[d] = i /\ Col(d) = c /\ accepted[d]]]
        num_accepted == [i \in DOMAIN rows |->
                            Cardinality({c \in DOMAIN keep[i] : \A e \in 1..c : keep[i][e]})]
    IN  [i \in DOMAIN rows |-> [c \in 1..(max_num_drafts + 1) |->
            CASE c <= num_accepted[i] -> drafts[CHOOSE d \in DOMAIN drafts : draft_rows[d] = i /\ Col(d) = c]
              [] c = num_accepted[i] + 1 -> target[FirstLogits(rows, i) + num_accepted[i] + 1]
              [] OTHER -> Placeholder]]

(* run: how many drafts a verified row kept. *)
NumAccepted(verified) == Cardinality({c \in DOMAIN verified : verified[c] >= 0}) - 1

-----------------------------------------------------------------------------
LastIndex(plan, row) == CuSeqlens(plan.batch.lens, row + 1)

(* Fault: the first draft comes from the last token, kept or not. *)
SampleIndexLast(b, plan, accepted, t) == LastIndex(plan, plan.row_of[plan.sampling[t]])

(* propose: each sampling row's last kept token among the step's tokens. *)
SampleIndex(b, plan, accepted, t) ==
    LET i == plan.sampling[t]
    IN  LastIndex(plan, plan.row_of[i]) - NumDrafts(b.seqs[i]) + accepted[t]

(* propose, first pass: each token beside the one after it, which for a    *)
(* row's last token is the prompt's next one or the one just sampled.      *)
FirstPassInputs(b, plan, accepted) ==
    LET n == Len(plan.input_ids)
        rolled == [j \in 1..n |-> plan.input_ids[(j % n) + 1]]
        fixed == {row \in DOMAIN plan.batch.order : plan.batch.order[row] \notin Range(plan.sampling)}
        sampled == [t \in DOMAIN plan.sampling |-> SampleIndex(b, plan, accepted, t)]
    IN  [j \in 1..n |->
            IF j \in Range(sampled) THEN <<plan.sampling[CHOOSE t \in DOMAIN sampled : sampled[t] = j], JustSampled>>
            ELSE IF \E row \in fixed : LastIndex(plan, row) = j
                 THEN <<plan.batch.order[plan.token_rows[j]], plan.host_ends[plan.token_rows[j]]>>
                 ELSE rolled[j]]

(* _step_context: one token per sampling row, step positions past its last *)
(* kept one, and the longest a row's keys may be, by the host's bound.     *)
StepContext(b, plan, accepted, step) ==
    LET rows == DOMAIN plan.sampling
        position == [t \in rows |-> Min({plan.positions[SampleIndex(b, plan, accepted, t)] + step,
                                         b.max_model_len - 1})]
        max_position == Max({plan.host_ends[plan.row_of[plan.sampling[t]]] - 1 : t \in rows} \cup {0})
    IN  [positions |-> position,
         slots |-> [t \in rows |-> Slot(b, plan.sampling[t], position[t])],
         context_lens |-> [t \in rows |-> position[t] + 1],
         max_seqlen_k |-> Min({max_position + step, b.max_model_len - 1}) + 1]
=============================================================================
