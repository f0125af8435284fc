------------------------------ MODULE Experts -------------------------------
(***************************************************************************)
(* Mixture-of-experts layers: which experts a token is routed to, how the  *)
(* token-expert pairs are sorted into blocks of one expert each, by        *)
(* reference code and by three kernels, and which rank computes them.      *)
(* Experts, pairs, rows and blocks count from 0, as in the code. Scores    *)
(* are integers: only their order and their sum with a bias matter.        *)
(***************************************************************************)
EXTENDS Integers, Sequences, SequencesExt, FiniteSetsExt

CeilDiv(a, b) == (a + b - 1) \div b
SumOver(S, F(_)) == MapThenSumSet(F, S)
Upto(n) == 0..(n - 1)
NegInf == -1000
Unwritten == -1   \* memory no program wrote: torch.empty's
Unscaled == -1    \* a product that no routing weight scales

-----------------------------------------------------------------------------
Choice(m, e) == m.scores[e] + (IF m.has_bias THEN m.bias[e] ELSE 0)
GroupOf(m, e) == e \div (m.num_experts \div m.num_groups)

(* The k best of a family: which of equals torch.topk takes is open. *)
TopSets(f, S, k) ==
    {T \in kSubset(k, S) : \A c \in T : \A d \in S \ T : f[d] <= f[c]}

(* torch_select_experts: the sets of experts it may pick for a token. *)
TorchSelectExperts(m) ==
    LET experts == Upto(m.num_experts)
        groups == Upto(m.num_groups)
        choice == [e \in experts |-> Choice(m, e)]
        Members(g) == {e \in experts : GroupOf(m, e) = g}
        score == [g \in groups |->
                     LET two == CHOOSE T \in TopSets(choice, Members(g), IF m.has_bias THEN 2 ELSE 1) : TRUE
                     IN  SumOver(two, LAMBDA e : choice[e])]
    IN  IF m.num_groups = 1 THEN TopSets(choice, experts, m.top_k)
        ELSE UNION {TopSets(choice, {e \in experts : GroupOf(m, e) \in G}, m.top_k)
                       : G \in TopSets(score, groups, m.topk_group)}

Argmax(f) == Min({c \in DOMAIN f : \A d \in DOMAIN f : f[d] <= f[c]})

(* Repeated argmax, the lower of equals first. *)
RECURSIVE Picks(_, _)
Picks(f, k) ==
    IF k = 0 THEN << >>
    ELSE <<Argmax(f)>> \o Picks([f EXCEPT ![Argmax(f)] = NegInf], k - 1)

(* The kernel's columns are a power of two: padding is never picked. *)
PaddedChoice(m, col) == IF col < m.num_experts THEN Choice(m, col) ELSE NegInf

(* topk_softmax_kernel: a token's experts, in the order of pick. *)
TopkSoftmax(m) ==
    LET choice == [col \in Upto(m.experts_pow2) |-> PaddedChoice(m, col)]
        InGroup(g) == [col \in DOMAIN choice |-> IF GroupOf(m, col) = g THEN choice[col] ELSE NegInf]
        Best(f, k) == SumOver(Range(Picks(f, k)), LAMBDA col : f[col])
        score == [g \in Upto(m.groups_pow2) |->
                     IF g >= m.num_groups THEN NegInf ELSE Best(InGroup(g), IF m.has_bias THEN 2 ELSE 1)]
        eligible == Range(Picks(score, m.topk_group))
    IN  Picks(IF m.num_groups = 1 THEN choice
              ELSE [col \in DOMAIN choice |->
                       IF GroupOf(m, col) \in eligible THEN choice[col] ELSE NegInf], m.top_k)

-----------------------------------------------------------------------------
(* determine_expert_map: a rank's experts are a run, numbered from 0. With *)
(* one rank there is no map, which is the identity.                        *)
DetermineExpertMap(ep_size, rank, num_experts) ==
    LET base == num_experts \div ep_size
        rest == num_experts % ep_size
        start == rank * base + Min({rank, rest})
    IN  [e \in Upto(num_experts) |->
            IF e \in start..(start + base - (IF rank < rest THEN 0 ELSE 1)) THEN e - start ELSE -1]

(* FusedMoE.weight_loader: the expert whose weights a rank's slot holds. *)
Loaded(expert_map, slot) == CHOOSE e \in DOMAIN expert_map : expert_map[e] = slot

-----------------------------------------------------------------------------
Count(ids, e) == Cardinality({p \in DOMAIN ids : ids[p] = e})

(* Where an expert's run begins when every run is padded to whole blocks.  *)
PaddedStart(ids, e, block_m) == SumOver(Upto(e), LAMBDA f : CeilDiv(Count(ids, f), block_m) * block_m)

(* An upper bound: every expert wastes under one whole block. *)
NumBlocks(num_pairs, num_experts, block_m) == CeilDiv(num_pairs, block_m) + num_experts

(* align_blocks: a stable sort by expert, each run moved to its padded     *)
(* start; a block is of the last expert starting at or before it.          *)
AlignBlocks(ids, num_experts, block_m) ==
    LET n == Cardinality(DOMAIN ids)
        Rank(p) == Cardinality({q \in DOMAIN ids : ids[q] = ids[p] /\ q < p})
        At(p) == PaddedStart(ids, ids[p], block_m) + Rank(p)
    IN  [sorted_pairs |-> [s \in Upto(NumBlocks(n, num_experts, block_m) * block_m) |->
                             Min({p \in DOMAIN ids : At(p) = s} \cup {n})],
         block_experts |-> [k \in Upto(NumBlocks(n, num_experts, block_m)) |->
                             Max({e \in Upto(num_experts) :
                                     PaddedStart(ids, e, block_m) \div block_m <= k})],
         num_rows |-> PaddedStart(ids, num_experts, block_m)]

(* count_experts_kernel: each program counts its tile of pairs. *)
CountExperts(ids, tile, program, e) ==
    Cardinality({p \in DOMAIN ids : p \div tile = program /\ ids[p] = e})

(* scan_experts_kernel's loop: the programs' counts of one expert become   *)
(* offsets, some rows of them at a time, with the total carried along.     *)
RECURSIVE ScanFrom(_, _, _, _)
ScanFrom(counts, rows, start, total) ==
    LET group == {q \in DOMAIN counts : q \in start..(start + rows - 1)}
        Before(q) == SumOver({p \in group : p < q}, LAMBDA p : counts[p])
        rest == ScanFrom(counts, rows, start + rows, total + SumOver(group, LAMBDA q : counts[q]))
    IN  IF group = {} THEN [offsets |-> << >>, total |-> total]
        ELSE [rest EXCEPT !.offsets = [q \in group |-> total + Before(q)] @@ @]

(* scan_experts_kernel: each program's offset within an expert's run, and  *)
(* the length of the run.                                                  *)
ScanExperts(ids, tile, e) ==
    ScanFrom([q \in Upto(CeilDiv(Cardinality(DOMAIN ids), tile)) |-> CountExperts(ids, tile, q, e)],
             tile, 0, 0)

(* scan_experts_kernel: padded starts, from the totals. *)
ExpertStart(scan, e, block_m) ==
    SumOver(Upto(e), LAMBDA f : CeilDiv(scan[f].total, block_m) * block_m)

(* Enough programs for the pairs and for the blocks. *)
ScatterPrograms(num_pairs, num_blocks, tile) ==
    Max({CeilDiv(num_pairs, tile), CeilDiv(num_blocks, tile)})

(* align_blocks_triton: pairs scattered to their slots, a sentinel in each *)
(* run's overhang, and each block's expert as this rank numbers it.        *)
AlignBlocksTriton(m, expert_map) ==
    LET ids == m.ids
        n == Cardinality(DOMAIN ids)
        num_blocks == NumBlocks(n, m.num_experts, m.block_m)
        scan == [e \in Upto(m.experts_pow2) |-> ScanExperts(ids, m.tile, e)]
        starts == [e \in 0..m.experts_pow2 |-> ExpertStart(scan, e, m.block_m)]
        Rank(p) == Cardinality({q \in DOMAIN ids :
                       q \div m.tile = p \div m.tile /\ ids[q] = ids[p] /\ q <= p}) - 1
        At(p) == starts[ids[p]] + scan[ids[p]].offsets[p \div m.tile] + Rank(p)
        overhangs == UNION {(starts[e] + scan[e].total)..(starts[e + 1] - 1) : e \in Upto(m.experts_pow2)}
        Owners(k) == Cardinality({e \in Upto(m.num_experts) : starts[e] \div m.block_m <= k})
    IN  [sorted_pairs |-> [s \in Upto(num_blocks * m.block_m) |->
                             LET here == {p \in DOMAIN ids : At(p) = s}
                             IN  IF here # {} THEN Max(here)
                                 ELSE IF s \in overhangs THEN n ELSE Unwritten],
         block_experts |-> [k \in Upto(num_blocks) |->
                             IF k \div m.tile < ScatterPrograms(n, num_blocks, m.tile)
                             THEN expert_map[Owners(k) - 1] ELSE Unwritten],
         num_rows |-> starts[m.experts_pow2]]

(* Fault: the last group of row blocks is taken to be a whole one. *)
PidTileWhole(pid, num_blocks, num_n, group) ==
    LET first == (pid \div (group * num_n)) * group
        at == pid % (group * num_n)
    IN  [m |-> first + (at % group), n |-> at \div group]

(* fused_moe_kernel: a program's row block and column block; row blocks go *)
(* in groups that take each column in turn.                                *)
PidTile(pid, num_blocks, num_n, group) ==
    LET first == (pid \div (group * num_n)) * group
        size == Min({num_blocks - first, group})
        at == pid % (group * num_n)
    IN  [m |-> first + (at % size), n |-> at \div size]

(* fused_moe_kernel over gemm's grid: the program, pair and column of each *)
(* product stored, the expert's weights in it (-1: a zero is stored), the  *)
(* row of the input it reads and, if asked for, whose routing weight.      *)
Gemm(m, aligned, num_n, pairs_per_row, mul_routed_weight) ==
    LET n == Cardinality(DOMAIN m.ids)
        num_blocks == Cardinality(DOMAIN aligned.block_experts)
        TileOf(pid) == PidTile(pid, num_blocks, num_n, m.group)
        live == {pid \in Upto(num_blocks * num_n) :
                    TileOf(pid).m * m.block_m < aligned.num_rows}
        PairAt(pid, i) == aligned.sorted_pairs[TileOf(pid).m * m.block_m + i]
        Product(pid, pair) ==
            [pid |-> pid, pair |-> pair, n |-> TileOf(pid).n,
             weights |-> aligned.block_experts[TileOf(pid).m], row |-> pair \div pairs_per_row,
             routed |-> IF mul_routed_weight THEN pair ELSE Unscaled]
    IN  {Product(w[1], PairAt(w[1], w[2]))
            : w \in {w \in live \X Upto(m.block_m) : PairAt(w[1], w[2]) < n}}

(* fused_experts: a GEMM from the tokens' rows to one row per pair, one    *)
(* from those rows, scaled, and a sum over each token's pairs. Of every    *)
(* product of the second GEMM: the products of the first that it reads,    *)
(* and the token it is added to.                                           *)
FusedExperts(m, expert_map) ==
    LET aligned == AlignBlocksTriton(m, expert_map)
        up == Gemm(m, aligned, m.up_n, m.top_k, FALSE)
        down == Gemm(m, aligned, m.down_n, 1, TRUE)
    IN  {[product |-> w, inputs |-> {u \in up : u.pair = w.row}, token |-> w.pair \div m.top_k]
            : w \in down}

(* torch_experts: the token each pair reads and adds to, its routing       *)
(* weight, and its expert's weights on a rank, -1 where it adds zero: the  *)
(* groups of sorted pairs end where a local expert's run does.             *)
TorchExperts(m, expert_map) ==
    LET slots == {expert_map[e] : e \in DOMAIN expert_map} \ {-1}
        num_local == Cardinality(slots)
        local == [p \in DOMAIN m.ids |->
                     IF expert_map[m.ids[p]] < 0 THEN num_local ELSE expert_map[m.ids[p]]]
        order == SortSeq(SetToSeq(DOMAIN m.ids), LAMBDA p, q : local[p] < local[q])
        offsets == [s \in slots |-> Cardinality({p \in DOMAIN local : local[p] <= s})]
        Group(at) == {s \in slots : at <= offsets[s] /\ \A t \in Upto(s) : offsets[t] < at}
    IN  [p \in DOMAIN m.ids |->
            LET at == CHOOSE at \in DOMAIN order : order[at] = p
            IN  [token |-> order[at] \div m.top_k, routed |-> order[at],
                 weights |-> IF local[p] = num_local THEN -1 ELSE CHOOSE s \in Group(at) : TRUE]]
=============================================================================
