---------------------------- MODULE DeviceStream ----------------------------
(***************************************************************************)
(* How a step's batch reaches the device and its tokens come back. The     *)
(* host stages inputs in pinned buffers, enqueues copies and passes on one *)
(* compute stream, and goes on; the device runs them later, from captured  *)
(* graphs over fixed buffers where a batch fits one. Results come back on  *)
(* a copy stream.                                                          *)
(*                                                                         *)
(* A value is <<s, j>>: token j of step s, its id, position and slot; the  *)
(* key length and block table of a row go by the row's first token.        *)
(***************************************************************************)
EXTENDS Integers, Sequences, SequencesExt, FiniteSetsExt

CONSTANTS
    Setups,       \* [max_num_seqs, budget, k, mode, capturable, chunks]: a runner's
                  \* configuration, and the sizes of the mixed batches it is given
    MaxSteps,     \* bound: steps a behaviour takes
    MinCapacity   \* MIN_CAPACITY, small so that buffers grow

ASSUME StreamAssumption ==
    /\ MaxSteps \in Nat /\ MinCapacity \in Nat \ {0}
    /\ \A c \in Setups : /\ c.max_num_seqs \in Nat \ {0} /\ c.budget \in Nat \ {0}
                         /\ c.k \in Nat /\ c.chunks \subseteq Nat \ {0}

VARIABLES
    setup,      \* the runner: its configuration and the sizes it captured
    host,       \* steps launched and read back, and whether a draft is due
    pinned,     \* InputBuffers: host values by owner, the target or the drafter
    stream,     \* the compute stream: operations not yet run
    copying,    \* the copy stream: steps whose tokens are to come back
    device,     \* staged inputs, graph buffers, sampled tokens
    ran,        \* the last pass, its batch and what it wrote and attended
    read        \* the tokens read back, by step

streamVars == <<setup, host, pinned, stream, copying, device, ran, read>>

Owners == {"target", "drafter"}
Cleared == <<0, 0>>   \* what a buffer is made with
None == <<-1, 0>>     \* no slot: -1; no keys: length 0

-----------------------------------------------------------------------------
FULL_MODES == {"full", "full_and_piecewise"}
PIECEWISE_MODES == {"piecewise", "full_and_piecewise"}

(* cudagraph_capture_sizes *)
CaptureSizes(max_num_seqs, budget) ==
    LET top == Min({max_num_seqs * 2, 512, budget})
    IN  {size \in {1, 2, 4} : size <= top}
        \cup {size \in 8..Min({top, 255}) : size % 8 = 0}
        \cup {size \in 256..top : size % 16 = 0}
        \cup (IF budget <= top THEN {budget} ELSE {})

(* _cudagraph_mode: what every attention layer supports. *)
CudagraphMode(mode, capturable) ==
    IF mode \in FULL_MODES /\ ~capturable
    THEN IF mode \in PIECEWISE_MODES THEN "piecewise" ELSE "none"
    ELSE mode

(* _decode_graph_sizes *)
DecodeGraphSizes(c) == {size \in CaptureSizes(c.max_num_seqs, c.budget) : size <= c.max_num_seqs}

(* capture_cudagraph: the row counts of full decode graphs. *)
GraphSizes(c) == {bs \in DecodeGraphSizes(c) : bs * (1 + c.k) <= c.budget}

(* __init__ and the captures it ends with. *)
Runner(c) ==
    LET mode == CudagraphMode(c.mode, c.capturable)
    IN  [config |-> c, mode |-> mode, graph_query_len |-> 1 + c.k,
         graph_bs |-> IF mode \in FULL_MODES THEN GraphSizes(c) ELSE {},
         piecewise_bs |-> IF mode \in PIECEWISE_MODES THEN CaptureSizes(c.max_num_seqs, c.budget) ELSE {},
         draft_bs |-> IF mode \in FULL_MODES /\ c.k > 1 THEN DecodeGraphSizes(c) ELSE {}]

(* The first of the sizes that holds n, or 0. *)
Fitting(sizes, n) == Min({size \in sizes : size >= n} \cup (IF \A size \in sizes : size < n THEN {0} ELSE {}))

(* _step_kind, with _piecewise_bucket *)
StepKind(runner, b) ==
    CASE runner.mode # "none" /\ ~b.is_prefill /\ runner.graph_bs # {}
             /\ b.query_len = runner.graph_query_len
             /\ b.num_tokens <= Max(runner.graph_bs) * b.query_len -> "graph"
      [] OTHER -> IF /\ Fitting(runner.piecewise_bs, b.num_tokens) # 0
                     /\ b.num_tokens >= Min(runner.piecewise_bs)
                  THEN "piecewise" ELSE "eager"

-----------------------------------------------------------------------------
(* The head of a buffer overwritten: buffer[:n] = values. *)
Overlay(buffer, values) == [j \in DOMAIN buffer |-> IF j \in DOMAIN values THEN values[j] ELSE buffer[j]]
Filled(buffer, value) == [j \in DOMAIN buffer |-> value]
FirstOf(values, q) == [row \in 1..(Len(values) \div q) |-> values[(row - 1) * q + 1]]

(* Graph buffers as captured: cleared, with every row's keys the longest. *)
GraphVars(rows, q) ==
    [ids |-> [j \in 1..(rows * q) |-> Cleared], slots |-> [j \in 1..(rows * q) |-> Cleared],
     lens |-> [row \in 1..rows |-> Cleared], tables |-> [row \in 1..rows |-> Cleared]]

(* A pass over tokens: the cache slots it writes and with what, and each   *)
(* row's key length and table where it has keys.                           *)
Pass(g, tokens, rows) ==
    [writes |-> {<<g.slots[j], g.ids[j]>> : j \in {j \in 1..tokens : g.slots[j] # None}},
     attends |-> {<<row, g.lens[row], g.tables[row]>> : row \in {row \in 1..rows : g.lens[row] # None}}]

(* _replay_full, the proposer's _replay: inputs into the graph's buffers. *)
GraphInputs(g, values, q) ==
    [ids |-> Overlay(g.ids, values), slots |-> Overlay(Filled(g.slots, None), values),
     lens |-> Overlay(Filled(g.lens, None), FirstOf(values, q)),
     tables |-> Overlay(g.tables, FirstOf(values, q))]

(* A pass without a full graph: a piecewise graph pads the ids, attention  *)
(* sees the step's own rows (_actual_rows).                                *)
DirectPass(values, ids, q) ==
    Pass([ids |-> ids, slots |-> values, lens |-> FirstOf(values, q), tables |-> FirstOf(values, q)],
         Len(values), Len(values) \div q)

Ran(op, pass) == [b |-> op.b, q |-> op.q, writes |-> pass.writes, attends |-> pass.attends]

-----------------------------------------------------------------------------
StreamInit ==
    /\ setup \in {Runner(c) : c \in Setups}
    /\ host = [launched |-> 0, read |-> 0, drafts |-> << >>]
    /\ pinned = [o \in Owners |-> << >>]
    /\ stream = << >> /\ copying = << >> /\ read = << >>
    /\ device = [inputs |-> [o \in Owners |-> << >>],
                 graph |-> GraphVars(Max(setup.graph_bs \cup {0}), setup.graph_query_len),
                 draft |-> GraphVars(Max(setup.draft_bs \cup {0}), 1),
                 padded |-> [o \in Owners |-> [j \in 1..Max(setup.piecewise_bs \cup {0}) |-> Cleared]],
                 sampled |-> << >>]
    /\ ran = << >>

(* The batches a scheduler makes, and the rows of each that sample: decodes *)
(* all with their drafts or none with any; or rows of any lengths (prompt  *)
(* chunks, decodes beside them, decodes with unequal drafts), of which some *)
(* sample. The latter reach no full graph: nothing here tells their rows   *)
(* apart, and they stand as one row of n tokens.                           *)
Batches ==
    LET c == setup.config
    IN  {[is_prefill |-> FALSE, query_len |-> q, num_tokens |-> n * q, rows |-> n]
            : q \in {1, 1 + c.k}, n \in 1..c.max_num_seqs}
        \cup {[is_prefill |-> TRUE, query_len |-> n, num_tokens |-> n, rows |-> rows]
                 : n \in c.chunks, rows \in 0..c.max_num_seqs}

(* Fault: inputs are staged while the last step's copies may still read.   *)
BeginAtOnce(owner) == TRUE

(* begin: wait for the copies of the step before. *)
Begin(owner) == ~\E i \in DOMAIN stream : stream[i].op = "copy" /\ stream[i].owner = owner

(* put: into the pinned buffer, which grows by doubling. *)
Put(owner, values) ==
    LET capacity == Max({Len(values), 2 * Len(pinned[owner]), MinCapacity})
        buffer == IF Len(pinned[owner]) >= Len(values) THEN pinned[owner]
                  ELSE [j \in 1..capacity |-> Cleared]
    IN  pinned' = [pinned EXCEPT ![owner] = Overlay(buffer, values)]

(* What a step leaves on the streams once all its passes are: its sampled  *)
(* tokens, copied back once the compute stream has made them.              *)
Launch(ops) ==
    /\ stream' = stream \o ops \o <<[op |-> "sample"]>>
    /\ copying' = Append(copying, host.launched + 1)

(* run, up to sampling: prepare_batch stages the inputs, run_model the     *)
(* pass. The engine runs at most one step ahead of the tokens it has read. *)
PrepareAndRun ==
    LET s == host.launched + 1 IN
    /\ host.drafts = << >> /\ s <= MaxSteps /\ host.launched - host.read < 2
    /\ Begin("target")
    /\ \E b \in Batches :
          LET kind == StepKind(setup, b)
              ops == <<[op |-> "copy", owner |-> "target", n |-> b.num_tokens],
                       [op |-> kind, owner |-> "target", inputs |-> "target", q |-> b.query_len, b |-> <<s, b.num_tokens>>]>>
          IN  /\ b.rows <= b.num_tokens /\ b.num_tokens <= setup.config.budget
              /\ Put("target", [j \in 1..b.num_tokens |-> <<s, j>>])
              /\ IF setup.config.k = 0
                 THEN Launch(ops) /\ host' = [host EXCEPT !.launched = s]
                 ELSE /\ stream' = stream \o ops
                      /\ host' = [host EXCEPT !.drafts = <<b>>]
                      /\ UNCHANGED copying
    /\ UNCHANGED <<setup, device, ran, read>>

(* propose: the first pass over the step's whole batch, padded to a bucket *)
(* with no lower bound, then one token per sampling row, where there is    *)
(* one, for each further draft.                                            *)
Propose ==
    LET s == host.launched + 1
        b == host.drafts[1]
        rows == b.rows
        graph == IF Fitting(setup.draft_bs, rows) # 0 THEN "draft" ELSE "eager"
        first == [op |-> IF Fitting(setup.piecewise_bs, b.num_tokens) # 0 THEN "piecewise" ELSE "eager",
                  owner |-> "drafter", inputs |-> "target", q |-> b.query_len, b |-> <<s, b.num_tokens>>]
        further == [op |-> graph, owner |-> "drafter", inputs |-> "drafter", q |-> 1, b |-> <<s, rows>>]
    IN  /\ host.drafts # << >>
        /\ Begin("drafter")
        /\ Put("drafter", [j \in 1..rows |-> <<s, j>>])
        /\ Launch(<<[op |-> "copy", owner |-> "drafter", n |-> rows], first>>
                    \o [i \in 1..(IF rows = 0 THEN 0 ELSE setup.config.k - 1) |-> further])
        /\ host' = [host EXCEPT !.launched = s, !.drafts = << >>]
        /\ UNCHANGED <<setup, device, ran, read>>

-----------------------------------------------------------------------------
Running(op) == stream # << >> /\ Head(stream).op = op /\ stream' = Tail(stream)
Inputs(op) == SubSeq(device.inputs[op.inputs], 1, op.b[2])

(* A staged input's copy: what the pinned buffer holds when it runs. *)
RunCopy ==
    /\ Running("copy")
    /\ LET op == Head(stream)
           staged == device.inputs[op.owner]
           values == SubSeq(pinned[op.owner], 1, op.n)
       IN  device' = [device EXCEPT !.inputs[op.owner] =
                         IF Len(staged) >= op.n THEN Overlay(staged, values) ELSE values]
    /\ UNCHANGED <<setup, host, pinned, copying, ran, read>>

(* The target's full graph. *)
RunGraph ==
    /\ Running("graph")
    /\ LET op == Head(stream)
           bs == Fitting(setup.graph_bs, op.b[2] \div op.q)
           g == GraphInputs(device.graph, Inputs(op), op.q)
       IN  /\ device' = [device EXCEPT !.graph = g]
           /\ ran' = Ran(op, Pass(g, bs * op.q, bs))
    /\ UNCHANGED <<setup, host, pinned, copying, read>>

(* The drafter's full graph of a single-token pass. *)
RunDraft ==
    /\ Running("draft")
    /\ LET op == Head(stream)
           bs == Fitting(setup.draft_bs, op.b[2])
           g == GraphInputs(device.draft, Inputs(op), 1)
       IN  /\ device' = [device EXCEPT !.draft = g]
           /\ ran' = Ran(op, Pass(g, bs, bs))
    /\ UNCHANGED <<setup, host, pinned, copying, read>>

(* _replay_piecewise, _run_first_pass *)
RunPiecewise ==
    /\ Running("piecewise")
    /\ LET op == Head(stream)
           padded == Overlay(device.padded[op.owner], Inputs(op))
       IN  /\ device' = [device EXCEPT !.padded[op.owner] = padded]
           /\ ran' = Ran(op, DirectPass(Inputs(op), padded, op.q))
    /\ UNCHANGED <<setup, host, pinned, copying, read>>

RunEager ==
    /\ Running("eager")
    /\ LET op == Head(stream) IN ran' = Ran(op, DirectPass(Inputs(op), Inputs(op), op.q))
    /\ UNCHANGED <<setup, host, pinned, copying, device, read>>

(* The step's tokens, in a tensor of their own: here, the step they are of. *)
RunSample ==
    /\ Running("sample")
    /\ device' = [device EXCEPT !.sampled = Append(@, device.inputs["target"][1][1])]
    /\ UNCHANGED <<setup, host, pinned, copying, ran, read>>

(* stream.wait_stream(current): the step's passes are all done. *)
Sampled(s) == Len(device.sampled) >= s

(* The copy back, and tolist, which waits for it. *)
ToList ==
    /\ copying # << >> /\ Sampled(Head(copying))
    /\ read' = Append(read, device.sampled[Head(copying)])
    /\ host' = [host EXCEPT !.read = @ + 1]
    /\ copying' = Tail(copying)
    /\ UNCHANGED <<setup, pinned, stream, device, ran>>

StreamNext ==
    \/ PrepareAndRun \/ Propose
    \/ RunCopy \/ RunGraph \/ RunDraft \/ RunPiecewise \/ RunEager \/ RunSample
    \/ ToList

StreamSpec == StreamInit /\ [][StreamNext]_streamVars

-----------------------------------------------------------------------------
(* A pass, whichever path it takes, writes its own step's tokens to their  *)
(* own slots and nothing else, and attends its own rows with their own     *)
(* lengths and tables: no token of an earlier step or of a later one, no   *)
(* padding row, no slot left in a buffer. And the tokens read back for a   *)
(* step are that step's.                                                   *)
StepsKeepApart ==
    /\ \A s \in DOMAIN read : read[s] = s
    /\ ran # << >> =>
           LET own == [j \in 1..ran.b[2] |-> <<ran.b[1], j>>]
               firsts == FirstOf(own, ran.q)
           IN  /\ ran.writes = {<<own[j], own[j]>> : j \in DOMAIN own}
               /\ ran.attends = {<<row, firsts[row], firsts[row]>> : row \in DOMAIN firsts}
=============================================================================
