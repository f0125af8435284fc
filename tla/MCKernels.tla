----------------------------- MODULE MCKernels ------------------------------
EXTENDS Kernels

(* Four rows, so that three are padded to a graph of four; a budget below  *)
(* twice the rows, and one above.                                          *)
MCSetups ==
    {[max_num_seqs |-> 4, budget |-> IF k = 0 THEN 6 ELSE 12, k |-> k, mode |-> mode, capturable |-> c,
      chunks |-> {2, IF k = 0 THEN 5 ELSE 11}]
        : k \in {0, 2}, c \in BOOLEAN, mode \in {"none", "piecewise"} \cup FULL_MODES}

(* Rows of a step: prompt chunks that end a prompt, or do not; decodes the *)
(* host knows, and decodes of the step in flight, with and without drafts. *)
Chunk(start, len, planned) ==
    [is_prefill |-> TRUE, start |-> start, len |-> len, planned |-> planned,
     pending |-> FALSE, prev |-> 0, rejected |-> 0]
Decode(len, pending, rejected) ==
    [is_prefill |-> FALSE, start |-> 4, len |-> len, planned |-> 5,
     pending |-> pending, prev |-> 0, rejected |-> rejected]
Rows(k) ==
    {Chunk(0, 2, 2), Chunk(0, 1, 3), Chunk(2, 2, 4)}
        \cup {Decode(len, FALSE, 0) : len \in {1, 1 + k}}
        \cup {Decode(len, TRUE, rejected) : len \in {1, 1 + k}, rejected \in {0, k}}

(* The rows of the step in flight are in the same order, or turned round. *)
PrevRows(seqs, turned) ==
    [i \in DOMAIN seqs |-> [seqs[i] EXCEPT !.prev = IF turned THEN Len(seqs) - i ELSE i - 1]]

MCStepBatches ==
    UNION {{[seqs |-> PrevRows(seqs, turned), k |-> k, latents |-> latents, budget |-> budget,
             block_size |-> 2, max_model_len |-> 6]
               : seqs \in UNION {[1..n -> Rows(k)] : n \in 1..3},
                 latents \in BOOLEAN, budget \in {1, 3}, turned \in BOOLEAN} : k \in {0, 2}}

(* Tokens 1 and 2; up to two rows of up to two drafts, greedy or sampled.  *)
VerifiedRows ==
    {[drafts |-> drafts, target |-> target, greedy |-> greedy, coins |-> coins]
        : drafts \in {<< >>, <<1>>, <<1, 2>>}, target \in [1..3 -> {1, 2}],
          greedy \in BOOLEAN, coins \in [1..2 -> BOOLEAN]}
WellFormed(row) ==
    [row EXCEPT !.target = SubSeq(@, 1, Len(row.drafts) + 1),
                !.coins = [c \in DOMAIN row.drafts |-> ~row.greedy /\ row.coins[c]]]
(* A sampled row draws its replacements with the draft excluded. *)
Possible(row) == row.greedy \/ \A c \in DOMAIN row.drafts : row.target[c] # row.drafts[c]
MCVerifications ==
    {[rows |-> rows, k |-> 2]
        : rows \in UNION {[1..n -> {row \in {WellFormed(row) : row \in VerifiedRows} : Possible(row)}]
                             : n \in 1..2}}

(* Three experts in one group, or six in three of which two are eligible.  *)
Router(num_experts, num_groups, scores, bias) ==
    [num_experts |-> num_experts, experts_pow2 |-> IF num_experts = 3 THEN 4 ELSE 8,
     num_groups |-> num_groups, groups_pow2 |-> IF num_groups = 1 THEN 1 ELSE 4,
     topk_group |-> IF num_groups = 1 THEN 1 ELSE 2, top_k |-> 2,
     scores |-> scores, has_bias |-> bias # 0, bias |-> [e \in DOMAIN scores |-> IF e % 2 = 0 THEN bias ELSE -2]]
MCRoutings ==
    {Router(3, 1, scores, bias) : scores \in [0..2 -> 0..2], bias \in {0, -1}}
        \cup {Router(6, 3, scores, bias) : scores \in [0..5 -> 0..1], bias \in {0, -1}}

(* Two or three tokens of two experts each, out of three on one or two     *)
(* ranks: two tokens have more tiles of blocks than of pairs, and three    *)
(* more programs than one round of the scan takes.                         *)
MCMixtures ==
    {[ids |-> ids, top_k |-> 2, num_experts |-> 3, experts_pow2 |-> 4, ep_size |-> ep_size,
      block_m |-> 2, tile |-> 2, up_n |-> 2, down_n |-> 1, group |-> group]
        : ids \in UNION {{ids \in [0..(2 * n - 1) -> 0..2] : \A t \in 0..(n - 1) : ids[2 * t] # ids[2 * t + 1]}
                            : n \in {2, 3}},
          ep_size \in {1, 2}, group \in {2, 8}}

MCStopSets == {{}, {<<"a", "b">>}, {<<"a", "a", "b">>, <<"b", "a">>}, {<<"b">>, << >>}}
MCTexts == {<<"a">>, <<"b">>, <<"a", "b">>, <<"b", "a", "a">>}
=============================================================================
