------------------------------ MODULE Kernels -------------------------------
(***************************************************************************)
(* The model runner's steps on the device, text streamed past stop         *)
(* strings, and the computations a step goes through, each on every input  *)
(* of a small set: a batch laid out and drafted for, drafts verified,      *)
(* tokens routed to experts, experts computed. What a computation must     *)
(* give is stated without its layout: by sequence, position or pair.       *)
(***************************************************************************)
EXTENDS DeviceStream, Drafting, Experts, StopChecker

CONSTANTS
    StepBatches,   \* batches, as BatchPlan has them
    Verifications, \* sampling rows' drafts, what the target says of them, and k
    Routings,      \* a router's scores for one token
    Mixtures       \* token-expert pairs and how they are laid out

VARIABLES
    job,   \* what is computed, or the stream
    out    \* what was computed, << >> before

vars == <<streamVars, stopVars, job, out>>

(* A component that the job does not use stays in one initial state. *)
AnyRunner == Runner(CHOOSE c \in Setups : TRUE)

Init ==
    /\ out = << >>
    /\ StreamInit /\ StopInit
    /\ \/ job = [kind |-> "stream"] /\ checker = NewChecker({})
       \/ job = [kind |-> "text"] /\ setup = AnyRunner
       \/ /\ setup = AnyRunner /\ checker = NewChecker({})
          /\ \/ \E b \in StepBatches : job = [kind |-> "batch", b |-> b]
             \/ \E v \in Verifications : job = [kind |-> "verify", v |-> v]
             \/ \E m \in Routings : job = [kind |-> "route", m |-> m]
             \/ \E m \in Mixtures : job = [kind |-> "experts", m |-> m]

(* An operation on a job not yet done. *)
Computes(kind) == job.kind = kind /\ out = << >> /\ UNCHANGED <<streamVars, stopVars, job>>

Plan ==
    /\ Computes("batch")
    /\ LET plan == PrepareBatch(job.b)
       IN  out' = <<[plan |-> plan, keys |-> AttendedKeys(job.b, plan)]>>

(* The drafter after the step, whatever the target kept of its drafts. *)
Draft ==
    /\ job.kind = "batch" /\ Len(out) = 1 /\ job.b.k > 0
    /\ LET plan == out[1].plan
           drafts == [t \in DOMAIN plan.sampling |-> NumDrafts(job.b.seqs[plan.sampling[t]])]
       IN  \E accepted \in [DOMAIN drafts -> 0..job.b.k] :
              /\ \A t \in DOMAIN drafts : accepted[t] <= drafts[t]
              /\ out' = Append(out, [accepted |-> accepted,
                                     first |-> FirstPassInputs(job.b, plan, accepted),
                                     steps |-> [step \in 1..(job.b.k - 1) |->
                                                   StepContext(job.b, plan, accepted, step)]])
    /\ UNCHANGED <<streamVars, stopVars, job>>

(* _verify: the output is as wide as the most drafts a row may have. *)
Verify == Computes("verify") /\ out' = <<RejectionSample(job.v.rows, job.v.k)>>

Route == Computes("route") /\ out' = <<TopkSoftmax(job.m)>>

ExpertMap(m, rank) == DetermineExpertMap(m.ep_size, rank, m.num_experts)

Compute ==
    /\ Computes("experts")
    /\ out' = <<[rank \in Upto(job.m.ep_size) |->
                    [writes |-> FusedExperts(job.m, ExpertMap(job.m, rank)),
                     portable |-> TorchExperts(job.m, ExpertMap(job.m, rank)),
                     aligned |-> AlignBlocksTriton(job.m, ExpertMap(job.m, rank))]]>>

Next ==
    \/ job.kind = "stream" /\ StreamNext /\ UNCHANGED <<stopVars, job, out>>
    \/ job.kind = "text" /\ StopNext /\ UNCHANGED <<streamVars, job, out>>
    \/ Plan \/ Draft
    \/ Verify
    \/ Route \/ Compute

Spec == Init /\ [][Next]_vars

-----------------------------------------------------------------------------
Planned == job.kind = "batch" /\ out # << >>
Drafted == job.kind = "batch" /\ Len(out) = 2

(* Where a sequence's scheduled tokens really begin: past the drafts the   *)
(* step in flight keeps, not past all it was given.                        *)
TrueStart(i) == LET s == job.b.seqs[i] IN s.start - (IF s.pending THEN s.rejected ELSE 0)

(* In whatever order rows run, each sequence gets its own next tokens at   *)
(* their own positions, whether the host has them or the step in flight is *)
(* still making them; each row's keys end after its tokens; and logits are *)
(* taken in the order the scheduler expects, of each sampling sequence's   *)
(* last token and the drafts before it.                                    *)
RowsLineUp ==
    Planned =>
        LET b == job.b
            plan == out[1].plan
            order == plan.batch.order
            Tokens(i, n) == [c \in 1..n |-> <<i, TrueStart(i) + b.seqs[i].len - n + c - 1>>]
            Sampled_(t) == Tokens(plan.sampling[t], NumDrafts(b.seqs[plan.sampling[t]]) + 1)
        IN  /\ ToSet(order) = DOMAIN b.seqs /\ Len(order) = Len(b.seqs)
            /\ plan.input_ids = FlattenSeq([row \in DOMAIN order |-> Tokens(order[row], b.seqs[order[row]].len)])
            /\ \A j \in DOMAIN plan.input_ids : plan.positions[j] = plan.input_ids[j][2]
            /\ \A row \in DOMAIN order :
                  plan.context_lens[row] = TrueStart(order[row]) + b.seqs[order[row]].len
            /\ [t \in DOMAIN plan.logits |-> plan.input_ids[plan.logits[t]]]
                  = FlattenSeq([t \in DOMAIN plan.sampling |-> Sampled_(t)])

(* Whatever path a row's attention takes, over cached latents or over keys *)
(* expanded a chunk at a time, each of its tokens attends every position   *)
(* up to its own exactly once, and none after it.                          *)
KeysOnce ==
    Planned =>
        \A j \in DOMAIN out[1].keys :
            LET keys == out[1].keys[j]
            IN  /\ ToSet(keys) = 0..out[1].plan.positions[j]
                /\ Len(keys) = out[1].plan.positions[j] + 1

(* The drafts to verify are each sampling row's own, in scheduler order.   *)
(* Verification keeps, of each row's drafts, those before the first one    *)
(* the target rejects, then the target's own token. The drafter then reads *)
(* every kept token beside the one after it, the last beside the one just  *)
(* sampled, and drafts on from the next position, in that position's own   *)
(* slot, within the length the host planned for.                           *)
DraftsFollow ==
    /\ job.kind = "verify" /\ out # << >> =>
          \A i \in DOMAIN job.v.rows :
              LET row == job.v.rows[i]
                  Right(c) == IF row.greedy THEN row.drafts[c] = row.target[c] ELSE row.coins[c]
                  kept == Max({n \in 0..Len(row.drafts) : \A c \in 1..n : Right(c)})
              IN  /\ SubSeq(out[1][i], 1, kept + 1) = SubSeq(row.drafts, 1, kept) \o <<row.target[kept + 1]>>
                  /\ NumAccepted(out[1][i]) = kept
    /\ Planned =>
          out[1].plan.draft_ids = FlattenSeq([t \in DOMAIN out[1].plan.sampling |->
              LET i == out[1].plan.sampling[t]
                  drafts == NumDrafts(job.b.seqs[i])
              IN  [c \in 1..drafts |-> <<i, TrueStart(i) + job.b.seqs[i].len - drafts + c - 1>>]])
    /\ Drafted =>
          LET b == job.b
              plan == out[1].plan
              End(i) == TrueStart(i) + b.seqs[i].len
              KeptEnd(t) == LET i == plan.sampling[t]
                            IN  End(i) - NumDrafts(b.seqs[i]) + out[2].accepted[t]
              Beside(i, p) ==
                  IF \E t \in DOMAIN plan.sampling : plan.sampling[t] = i /\ p + 1 = KeptEnd(t)
                  THEN <<i, JustSampled>> ELSE <<i, p + 1>>
              Kept(i, p) == \A t \in DOMAIN plan.sampling : plan.sampling[t] = i => p < KeptEnd(t)
          IN  /\ \A j \in DOMAIN plan.input_ids :
                    LET token == plan.input_ids[j]
                    IN  Kept(token[1], token[2]) => out[2].first[j] = Beside(token[1], token[2])
              /\ \A step \in DOMAIN out[2].steps : \A t \in DOMAIN plan.sampling :
                    LET ctx == out[2].steps[step]
                        p == Min({KeptEnd(t) - 1 + step, b.max_model_len - 1})
                    IN  /\ ctx.positions[t] = p
                        /\ ctx.slots[t] = Slot(b, plan.sampling[t], p)
                        /\ ctx.context_lens[t] <= ctx.max_seqlen_k

(* The kernels do what the portable code does. Routing picks experts it    *)
(* may pick, each once. Of the ranks exactly one adds a pair's product, of *)
(* its own expert's weights; every rank writes every pair's every column   *)
(* once in both products, zero where the expert is another's, and nothing  *)
(* else. A product that is not zero comes from the row of the pair's token *)
(* through one expert, is scaled by the pair's routing weight and added to *)
(* that token.                                                             *)
ExpertsAgree ==
    /\ job.kind = "route" /\ out # << >> =>
          ToSet(out[1]) \in TorchSelectExperts(job.m) /\ Len(out[1]) = Cardinality(ToSet(out[1]))
    /\ job.kind = "experts" /\ out # << >> =>
          LET m == job.m
              ranks == DOMAIN out[1]
              reference == AlignBlocks(m.ids, m.num_experts, m.block_m)
              Once(writes, Pairs, num_n) ==
                  /\ Cardinality(writes) = Cardinality(Pairs) * num_n
                  /\ {<<w.pair, w.n>> : w \in writes} = Pairs \X Upto(num_n)
          IN  /\ \A rank \in ranks :
                    /\ Once({w.product : w \in out[1][rank].writes}, DOMAIN m.ids, m.down_n)
                    /\ \A w \in out[1][rank].writes :
                          LET pair == w.product.pair
                              portable == out[1][rank].portable[pair]
                          IN  /\ w.product.weights = portable.weights
                              /\ Once(w.inputs, {pair}, m.up_n)
                              /\ w.token = portable.token
                              /\ portable.weights # -1 =>
                                    /\ w.product.routed = portable.routed
                                    /\ \A u \in w.inputs :
                                          u.weights = portable.weights /\ u.row = portable.token
                    /\ out[1][rank].aligned.num_rows = reference.num_rows
                    /\ \A s \in Upto(reference.num_rows) :
                          out[1][rank].aligned.sorted_pairs[s] = reference.sorted_pairs[s]
              /\ \A p \in DOMAIN m.ids :
                    LET own == {rank \in ranks : out[1][rank].portable[p].weights # -1}
                    IN  /\ Cardinality(own) = 1
                        /\ \A rank \in own : Loaded(ExpertMap(m, rank), out[1][rank].portable[p].weights) = m.ids[p]
=============================================================================
