------------------------- MODULE PrefixCache_proofs -------------------------
(***************************************************************************)
(* The block manager, for any number of blocks, any block size and any     *)
(* requests: it implements the abstract pool, its assertions hold, and a   *)
(* prefix hit is a block that holds, slot for slot, the prefix's keys and  *)
(* values. Every step is shown to be a step of the pool, so the pool's own *)
(* invariant, proved in KVBlockPool_proofs, can be used here.              *)
(***************************************************************************)
EXTENDS PrefixCache, BlockManager_proofs

PoolProofs == INSTANCE KVBlockPool_proofs WITH
    Seqs      <- Reqs,
    Hashes    <- PoolPrefixes,
    holds     <- [r \in Reqs |-> ToSet(seq[r].block_table)],
    ref_count <- bm.ref_count,
    used      <- bm.used,
    label     <- [b \in Blocks |-> IF bm.hash[b] = NoHash THEN None ELSE bm.hash[b]],
    index     <- [p \in PoolPrefixes |->
                    IF p \in DOMAIN bm.hash_to_block_id
                    THEN bm.hash_to_block_id[p] ELSE None]

SeqRecords ==
    [status : Status, token_ids : Seq(Vocab), num_prompt_tokens : Nat,
     num_cached_tokens : Nat, num_pending_tokens : Nat, num_published_blocks : Nat,
     num_scheduled_tokens : Nat, num_new_tokens : Nat, num_spec_tokens : Nat,
     is_prefill : BOOLEAN, block_table : Seq(Blocks), finish_reason : {NoReason},
     num_preemptions : Nat, arrival : Nat,
     do_remote_prefill : BOOLEAN, do_remote_decode : BOOLEAN]

Types == bm \in Managers(PoolPrefixes) /\ seq \in [Reqs -> SeqRecords]

(* A sequence between two calls: nothing is pending, its table covers its  *)
(* tokens, and all it computed is published as far as it fills blocks.     *)
SettledSeq(r, s) ==
    /\ s.num_pending_tokens = 0
    /\ Len(s.token_ids) \in 1..MaxLen /\ IsPrefix(Prompt[r], s.token_ids)
    /\ s.num_cached_tokens <= Len(s.token_ids)
    /\ Injective(s.block_table)
    /\ s.block_table = << >> => s.num_cached_tokens = 0
    /\ s.block_table # << >> =>
          Len(s.block_table) = CeilDiv(Len(s.token_ids), BlockSize)
    /\ s.num_published_blocks =
          IF EnablePrefixCaching THEN s.num_cached_tokens \div BlockSize ELSE 0

Settled == \A r \in Reqs : SettledSeq(r, seq[r])

(* The published blocks of a sequence carry its prefixes, the others none. *)
LabelledSeq(hash, s) ==
    \A i \in 1..Len(s.block_table) :
        hash[s.block_table[i]] =
            IF i <= s.num_published_blocks THEN BlockHash(s.token_ids, i) ELSE NoHash

Labelled == \A r \in Reqs : LabelledSeq(bm.hash, seq[r])

(* A computed position's slot holds its prefix. *)
ComputedSeq(mem, s) ==
    \A p \in 1..s.num_cached_tokens :
        mem[SlotBlock(s.block_table, p)][SlotIndex(p)] = SubSeq(s.token_ids, 1, p)

Computed == \A r \in Reqs : ComputedSeq(kv, seq[r])

(* A block with a label holds its prefix, whether it is in use or free. *)
HoldsLabel(hash, mem, b) ==
    hash[b] # NoHash => \A i \in 1..BlockSize :
        mem[b][i] = SubSeq(hash[b], 1, Len(hash[b]) - BlockSize + i)

LabelHolds == \A b \in Blocks : HoldsLabel(bm.hash, kv, b)

(* The inductive invariant. What a sequence reads on a hit is what another *)
(* one wrote before it published the block, so the memory, the labels and  *)
(* the index have to be followed together.                                 *)
IInv ==
    /\ Types
    /\ PoolProofs!IInv
    /\ Settled
    /\ QueueIsFree(bm)
    /\ Labelled
    /\ Computed
    /\ LabelHolds
    /\ AssertionsHold

-----------------------------------------------------------------------------
(* The instance of the pool satisfies its assumption. *)
LEMMA PoolConstants == PoolProofs!PoolAssumption
  BY ReqsAssumption, NoneAssumption
     DEF PoolProofs!PoolAssumption, IsFiniteSet, PoolProofs!IsFiniteSet

(* The specification's pool and the proofs' pool are one. *)
LEMMA SamePool ==
    /\ Pool!Init => PoolProofs!Init
    /\ [Pool!Next]_(Pool!vars) => [PoolProofs!Next]_(PoolProofs!vars)
  <1>1. Pool!Init => PoolProofs!Init
    BY DEF Pool!Init, PoolProofs!Init
  <1>2. Pool!vars = PoolProofs!vars /\ (Pool!vars)' = (PoolProofs!vars)'
    BY DEF Pool!vars, PoolProofs!vars
  <1>3. ASSUME NEW s, NEW x, NEW F, Pool!Allocate(s, x, F)
        PROVE  PoolProofs!Allocate(s, x, F)
    BY <1>3 DEF Pool!Allocate, PoolProofs!Allocate, Pool!Reset, PoolProofs!Reset
  <1>4. ASSUME NEW s, NEW F, Pool!MayAppend(s, F)
        PROVE  PoolProofs!MayAppend(s, F)
    BY <1>4 DEF Pool!MayAppend, PoolProofs!MayAppend, Pool!Reset, PoolProofs!Reset
  <1>5. ASSUME NEW s, Pool!Deallocate(s)
        PROVE  PoolProofs!Deallocate(s)
    BY <1>5 DEF Pool!Deallocate, PoolProofs!Deallocate
  <1>6. ASSUME NEW s, NEW B, NEW g, Pool!HashBlocks(s, B, g)
        PROVE  PoolProofs!HashBlocks(s, B, g)
    BY <1>6 DEF Pool!HashBlocks, PoolProofs!HashBlocks
  <1>7. Pool!Next => PoolProofs!Next
    BY <1>3, <1>4, <1>5, <1>6 DEF Pool!Next, PoolProofs!Next
  <1> QED
    BY <1>1, <1>2, <1>7

(* A step of the pool keeps the pool's invariant. *)
LEMMA PoolStep ==
    ASSUME PoolProofs!IInv, [Pool!Next]_(Pool!vars)
    PROVE  PoolProofs!IInv'
  <1>1. [PoolProofs!Next]_(PoolProofs!vars)
    BY SamePool
  <1> QED
    BY <1>1, PoolConstants, PoolProofs!NextIInv

(* The pool's invariant, in terms of the block manager. *)
LEMMA PoolFacts ==
    ASSUME Types, PoolProofs!IInv
    PROVE  /\ \A b \in Blocks : b \in bm.used <=> \E r \in Reqs : b \in ToSet(seq[r].block_table)
           /\ \A b \in Blocks : b \in bm.used <=> bm.ref_count[b] > 0
           /\ \A h \in DOMAIN bm.hash_to_block_id :
                 /\ h \in PoolPrefixes /\ bm.hash_to_block_id[h] \in Blocks
                 /\ bm.hash[bm.hash_to_block_id[h]] = h
           /\ \A b \in Blocks, r, t \in Reqs :
                 r # t /\ b \in ToSet(seq[r].block_table) /\ b \in ToSet(seq[t].block_table)
                 => bm.hash[b] # NoHash
  <1>0. PICK D \in SUBSET PoolPrefixes : bm.hash_to_block_id \in [D -> Blocks]
    BY DEF Types, Managers, Indexes
  <1>1. \A b \in Blocks : /\ b \in bm.used <=> bm.ref_count[b] > 0
                          /\ b \in bm.used <=> \E r \in Reqs : b \in ToSet(seq[r].block_table)
    BY PoolConstants, PoolProofs!UsedIsCounted
  <1>2. ASSUME NEW h \in DOMAIN bm.hash_to_block_id
        PROVE  /\ h \in PoolPrefixes /\ bm.hash_to_block_id[h] \in Blocks
               /\ bm.hash[bm.hash_to_block_id[h]] = h
    <2>1. h \in PoolPrefixes /\ bm.hash_to_block_id[h] \in Blocks
      BY <1>0
    <2>2. PoolProofs!IndexSound
      BY DEF PoolProofs!IInv
    <2> QED
      BY <2>1, <2>2, NoneAssumption DEF PoolProofs!IndexSound
  <1>3. ASSUME NEW b \in Blocks, NEW r \in Reqs, NEW t \in Reqs, r # t,
               b \in ToSet(seq[r].block_table), b \in ToSet(seq[t].block_table)
        PROVE  bm.hash[b] # NoHash
    <2>1. PoolProofs!SharedIsPublished
      BY DEF PoolProofs!IInv
    <2>2. r \in PoolProofs!Holders(b) /\ t \in PoolProofs!Holders(b)
      BY <1>3 DEF PoolProofs!Holders
    <2> QED
      BY <1>3, <2>1, <2>2 DEF PoolProofs!SharedIsPublished
  <1> QED
    BY <1>1, <1>2, <1>3

(* NoHash is the label of no block prefix. *)
LEMMA PrefixNotEmpty ==
    ASSUME NEW p \in PoolPrefixes
    PROVE  p # NoHash
  <1>1. PICK i \in 1..(MaxLen \div BlockSize) : p \in [1..(i * BlockSize) -> Vocab]
    BY DEF PoolPrefixes
  <1>2. i \in Nat /\ i >= 1
    BY <1>1, ReqsAssumption, DivBlockBounds
  <1>3. i * BlockSize \in Nat /\ i * BlockSize >= 1
    BY <1>2, BlockSizeAssumption
  <1>4. 1 \in DOMAIN p
    BY <1>1, <1>3
  <1> QED
    BY <1>4 DEF NoHash

(* The types of the sequence a call works on and of the block manager. *)
LEMMA TypeFacts ==
    ASSUME Types, NEW r \in Reqs
    PROVE  /\ seq[r] \in SeqRecords /\ seq[r].token_ids \in Seq(Vocab)
           /\ seq[r].block_table \in Seq(Blocks)
           /\ seq[r].num_cached_tokens \in Nat /\ seq[r].num_pending_tokens \in Nat
           /\ seq[r].num_published_blocks \in Nat
           /\ bm.ref_count \in [Blocks -> Nat]
           /\ bm.hash \in [Blocks -> PoolPrefixes \cup {NoHash}]
           /\ bm.free \in Seq(Blocks) /\ bm.used \in SUBSET Blocks
           /\ bm.hash_to_block_id \in Indexes(PoolPrefixes) /\ bm.asserts \in BOOLEAN
           /\ seq = [t \in Reqs |-> seq[t]]
  <1>1. seq[r] \in SeqRecords
    BY DEF Types
  <1>2. bm \in Managers(PoolPrefixes)
    BY DEF Types
  <1>3. seq = [t \in Reqs |-> seq[t]]
    BY DEF Types
  <1> QED
    BY <1>1, <1>2, <1>3 DEF SeqRecords, Managers

(* Nothing is held, published or written at the start. *)
LEMMA InitPool == Init => Pool!Init
  <1> SUFFICES ASSUME Init PROVE Pool!Init
    OBVIOUS
  <1>1. /\ bm.ref_count = [b \in Blocks |-> 0] /\ bm.used = {}
        /\ bm.hash = [b \in Blocks |-> NoHash] /\ bm.hash_to_block_id = << >>
    BY DEF Init, InitBlockManager
  <1>2. \A r \in Reqs : seq[r].block_table = << >>
    BY DEF Init, NewSequence
  <1>3. \A r \in Reqs : ToSet(seq[r].block_table) = {}
    BY <1>2 DEF ToSet
  <1>4. DOMAIN bm.hash_to_block_id = {}
    BY <1>1
  <1>5. [r \in Reqs |-> ToSet(seq[r].block_table)] = [r \in Reqs |-> {}]
    BY <1>3
  <1>6. [b \in Blocks |-> IF bm.hash[b] = NoHash THEN None ELSE bm.hash[b]]
        = [b \in Blocks |-> None]
    BY <1>1
  <1>7. [p \in PoolPrefixes |-> IF p \in DOMAIN bm.hash_to_block_id
                                THEN bm.hash_to_block_id[p] ELSE None]
        = [p \in PoolPrefixes |-> None]
    BY <1>4
  <1> QED
    BY <1>1, <1>5, <1>6, <1>7 DEF Pool!Init

(* The invariant holds at the start. *)
LEMMA InitIInv == Init => IInv
  <1> SUFFICES ASSUME Init PROVE IInv
    OBVIOUS
  <1>1. PoolProofs!IInv
    BY InitPool, SamePool, PoolConstants, PoolProofs!InitIInv
  <1>2. ASSUME NEW r \in Reqs
        PROVE  /\ seq[r] \in SeqRecords /\ seq[r].token_ids = Prompt[r]
               /\ seq[r].block_table = << >> /\ seq[r].num_cached_tokens = 0
               /\ seq[r].num_pending_tokens = 0 /\ seq[r].num_published_blocks = 0
    <2>1. seq[r] = NewSequence(Prompt[r], 0, NoTransfer)
      BY DEF Init
    <2>2. Prompt[r] \in Seq(Vocab) /\ Len(Prompt[r]) \in Nat
      BY ReqsAssumption
    <2> QED
      BY <2>1, <2>2 DEF NewSequence, NoTransfer, SeqRecords, Status
  <1>3. Types
    <2>1. seq \in [Reqs -> SeqRecords]
      BY <1>2 DEF Init
    <2>2. << >> \in Indexes(PoolPrefixes)
      <3>1. << >> \in [{} -> Blocks]
        OBVIOUS
      <3> QED
        BY <3>1 DEF Indexes
    <2>3. [i \in 1..NumBlocks |-> i] \in Seq(Blocks)
      BY NumBlocksAssumption DEF Blocks
    <2>4. bm \in Managers(PoolPrefixes)
      BY <2>2, <2>3 DEF Init, InitBlockManager, Managers
    <2> QED
      BY <2>1, <2>4 DEF Types
  <1>4. Settled
    <2> SUFFICES ASSUME NEW r \in Reqs PROVE SettledSeq(r, seq[r])
      BY DEF Settled
    <2>1. Prompt[r] \in Seq(Vocab) /\ Len(Prompt[r]) \in 1..MaxLen /\ Len(Prompt[r]) \in Nat
      BY ReqsAssumption
    <2>2. IsPrefix(Prompt[r], Prompt[r])
      BY <2>1 DEF IsPrefix
    <2>3. 0 \div BlockSize = 0
      BY BlockSizeAssumption
    <2>4. Injective(<< >>)
      BY DEF Injective
    <2> QED
      BY <1>2, <2>1, <2>2, <2>3, <2>4 DEF SettledSeq
  <1>5. QueueIsFree(bm)
    <2>1. bm.free = [i \in 1..NumBlocks |-> i] /\ bm.used = {}
      BY DEF Init, InitBlockManager
    <2>2. Len(bm.free) = NumBlocks /\ DOMAIN bm.free = 1..NumBlocks
      BY <2>1, NumBlocksAssumption
    <2>3. Injective(bm.free)
      BY <2>1, <2>2 DEF Injective
    <2>4. ToSet(bm.free) = 1..NumBlocks
      BY <2>1, <2>2 DEF ToSet
    <2> QED
      BY <2>1, <2>3, <2>4 DEF QueueIsFree, Blocks
  <1>6. Labelled
    BY <1>2 DEF Labelled, LabelledSeq
  <1>7. Computed
    BY <1>2 DEF Computed, ComputedSeq
  <1>8. LabelHolds
    BY DEF LabelHolds, HoldsLabel, Init, InitBlockManager
  <1>9. AssertionsHold
    BY DEF AssertionsHold, Init, InitBlockManager
  <1> QED
    BY <1>1, <1>3, <1>4, <1>5, <1>6, <1>7, <1>8, <1>9 DEF IInv

-----------------------------------------------------------------------------
(* Preemption and the end of a request. *)

(* deallocate, field by field. *)
LEMMA ReleaseEffect ==
    ASSUME IInv, NEW r \in Reqs, Release(r)
    PROVE  /\ bm' \in Managers(PoolPrefixes) /\ seq' \in [Reqs -> SeqRecords]
           /\ bm'.ref_count = [b \in Blocks |->
                 IF b \in ToSet(seq[r].block_table) THEN bm.ref_count[b] - 1
                 ELSE bm.ref_count[b]]
           /\ bm'.used = bm.used \ {b \in ToSet(seq[r].block_table) : bm.ref_count[b] = 1}
           /\ bm'.hash = bm.hash /\ bm'.hash_to_block_id = bm.hash_to_block_id
           /\ bm'.asserts /\ QueueIsFree(bm') /\ kv' = kv
           /\ \A t \in Reqs \ {r} : seq'[t] = seq[t]
           /\ seq'[r].block_table = << >> /\ seq'[r].num_cached_tokens = 0
           /\ seq'[r].num_published_blocks = 0 /\ seq'[r].token_ids = seq[r].token_ids
           /\ seq'[r].num_pending_tokens = seq[r].num_pending_tokens
  <1> DEFINE table == seq[r].block_table
             freed == {b \in ToSet(table) : bm.ref_count[b] = 1}
             back == Keep(Reverse(table), freed)
  <1>1. /\ seq[r] \in SeqRecords /\ table \in Seq(Blocks)
        /\ bm.ref_count \in [Blocks -> Nat] /\ bm.free \in Seq(Blocks)
        /\ bm.used \in SUBSET Blocks /\ bm \in Managers(PoolPrefixes)
        /\ seq \in [Reqs -> SeqRecords]
    BY TypeFacts DEF IInv, Types
  <1>2. /\ Injective(table) /\ QueueIsFree(bm) /\ bm.asserts
    BY DEF IInv, Settled, SettledSeq, AssertionsHold
  <1>3. ToSet(table) \subseteq bm.used /\ \A b \in ToSet(table) : bm.ref_count[b] > 0
    <2>1. ToSet(table) \subseteq Blocks
      BY <1>1 DEF ToSet
    <2> QED
      BY <2>1, PoolFacts DEF IInv
  <1>4. /\ bm' = [bm EXCEPT
                    !.ref_count = [b \in Blocks |->
                                     IF b \in ToSet(table) THEN @[b] - 1 ELSE @[b]],
                    !.used      = @ \ freed,
                    !.free      = @ \o back,
                    !.asserts   = @ /\ freed \subseteq bm.used]
        /\ seq' = [seq EXCEPT ![r] = [seq[r] EXCEPT !.num_cached_tokens = 0,
                             !.num_published_blocks = 0,
                             !.block_table = << >>]]
        /\ kv' = kv
    BY DEF Release, Deallocate
  <1>5. freed \subseteq bm.used /\ freed \subseteq ToSet(table)
    BY <1>3
  <1>6. /\ back \in Seq(Blocks) /\ ToSet(back) = freed /\ Injective(back)
    <2>1. /\ Reverse(table) \in Seq(Blocks) /\ ToSet(Reverse(table)) = ToSet(table)
          /\ Injective(Reverse(table))
      BY <1>1, <1>2, ReverseTable
    <2> HIDE DEF table, freed
    <2>2. /\ back \in Seq(Blocks) /\ ToSet(back) = ToSet(Reverse(table)) \cap freed
          /\ Injective(back)
      BY <2>1, KeepProperties
    <2> QED
      BY <1>5, <2>1, <2>2
  <1> HIDE DEF table, freed, back
  <1>7. /\ bm.free \o back \in Seq(Blocks)
        /\ ToSet(bm.free \o back) = ToSet(bm.free) \cup freed
        /\ Injective(bm.free \o back)
    <2>1. ToSet(bm.free) = Blocks \ bm.used /\ Injective(bm.free)
      BY <1>2 DEF QueueIsFree
    <2>2. ToSet(bm.free) \cap ToSet(back) = {}
      BY <1>5, <1>6, <2>1
    <2> QED
      BY <1>1, <1>6, <2>1, <2>2, JoinTables
  <1>8. /\ bm'.ref_count = [b \in Blocks |->
              IF b \in ToSet(table) THEN bm.ref_count[b] - 1 ELSE bm.ref_count[b]]
        /\ bm'.used = bm.used \ freed /\ bm'.free = bm.free \o back
        /\ bm'.hash = bm.hash /\ bm'.hash_to_block_id = bm.hash_to_block_id
        /\ bm'.asserts = (bm.asserts /\ freed \subseteq bm.used)
    BY <1>1, <1>4 DEF Managers
  <1>9. bm'.ref_count \in [Blocks -> Nat]
    <2>1. \A b \in Blocks : b \in ToSet(table) => bm.ref_count[b] - 1 \in Nat
      BY <1>1, <1>3
    <2> QED
      BY <1>1, <1>8, <2>1
  <1>10. bm'.asserts = TRUE
    BY <1>2, <1>5, <1>8
  <1>11. bm' \in Managers(PoolPrefixes)
    <2>1. bm'.used \in SUBSET Blocks /\ bm'.free \in Seq(Blocks)
      BY <1>1, <1>7, <1>8
    <2> QED
      BY <1>1, <1>4, <1>8, <1>9, <1>10, <2>1 DEF Managers
  <1>12. QueueIsFree(bm')
    <2>1. ToSet(bm.free) \cup freed = Blocks \ (bm.used \ freed)
      BY <1>1, <1>2, <1>5 DEF QueueIsFree
    <2> QED
      BY <1>7, <1>8, <2>1 DEF QueueIsFree
  <1>13. /\ seq'[r].block_table = << >> /\ seq'[r].num_cached_tokens = 0
         /\ seq'[r].num_published_blocks = 0 /\ seq'[r].token_ids = seq[r].token_ids
         /\ seq'[r].num_pending_tokens = seq[r].num_pending_tokens
         /\ seq'[r] \in SeqRecords
    <2> DEFINE s == seq[r]
               new == [s EXCEPT !.num_cached_tokens = 0, !.num_published_blocks = 0,
                                !.block_table = << >>]
    <2>1. seq'[r] = new
      BY <1>1, <1>4
    <2>2. s \in SeqRecords /\ << >> \in Seq(Blocks)
      BY <1>1
    <2> HIDE DEF s
    <2>3. /\ new.block_table = << >> /\ new.num_cached_tokens = 0
          /\ new.num_published_blocks = 0 /\ new.token_ids = s.token_ids
          /\ new.num_pending_tokens = s.num_pending_tokens
      BY <2>2 DEF SeqRecords
    <2>4. new \in SeqRecords
      BY <2>2 DEF SeqRecords
    <2> QED
      BY <2>1, <2>3, <2>4 DEF s
  <1>14. seq' \in [Reqs -> SeqRecords] /\ \A t \in Reqs \ {r} : seq'[t] = seq[t]
    BY <1>1, <1>4, <1>13
  <1> QED
    BY <1>4, <1>8, <1>10, <1>11, <1>12, <1>13, <1>14 DEF table, freed

(* Giving the blocks back is the pool's deallocate. *)
LEMMA ReleaseIsDeallocate ==
    ASSUME IInv, NEW r \in Reqs, Release(r)
    PROVE  Pool!Deallocate(r)
  <1>1. /\ bm'.ref_count = [b \in Blocks |->
              IF b \in ToSet(seq[r].block_table) THEN bm.ref_count[b] - 1
              ELSE bm.ref_count[b]]
        /\ bm'.used = bm.used \ {b \in ToSet(seq[r].block_table) : bm.ref_count[b] = 1}
        /\ bm'.hash = bm.hash /\ bm'.hash_to_block_id = bm.hash_to_block_id
        /\ \A t \in Reqs \ {r} : seq'[t] = seq[t]
        /\ seq'[r].block_table = << >>
    BY ReleaseEffect
  <1>2. ToSet(seq'[r].block_table) = {}
    BY <1>1 DEF ToSet
  <1>3. [t \in Reqs |-> ToSet(seq'[t].block_table)]
        = [[t \in Reqs |-> ToSet(seq[t].block_table)] EXCEPT ![r] = {}]
    BY <1>1, <1>2
  <1> QED
    BY <1>1, <1>3 DEF Pool!Deallocate

(* A release keeps the invariant: labels and memory stay as they are. *)
LEMMA ReleaseIInv ==
    ASSUME IInv, NEW r \in Reqs, Release(r)
    PROVE  [Pool!Next]_(Pool!vars) /\ IInv'
  <1>1. [Pool!Next]_(Pool!vars)
    BY ReleaseIsDeallocate DEF Pool!Next
  <1>2. PoolProofs!IInv'
    BY <1>1, PoolStep DEF IInv
  <1>3. /\ bm' \in Managers(PoolPrefixes) /\ seq' \in [Reqs -> SeqRecords]
        /\ bm'.hash = bm.hash /\ bm'.asserts /\ QueueIsFree(bm') /\ kv' = kv
        /\ \A t \in Reqs \ {r} : seq'[t] = seq[t]
        /\ seq'[r].block_table = << >> /\ seq'[r].num_cached_tokens = 0
        /\ seq'[r].num_published_blocks = 0 /\ seq'[r].token_ids = seq[r].token_ids
        /\ seq'[r].num_pending_tokens = seq[r].num_pending_tokens
    BY ReleaseEffect
  <1>4. Settled'
    <2> SUFFICES ASSUME NEW t \in Reqs PROVE SettledSeq(t, seq'[t])
      BY DEF Settled
    <2>1. SettledSeq(t, seq[t])
      BY DEF IInv, Settled
    <2>2. CASE t # r
      BY <1>3, <2>1, <2>2
    <2>3. CASE t = r
      <3>1. 0 \div BlockSize = 0 /\ Injective(<< >>)
        BY BlockSizeAssumption DEF Injective
      <3>2. Len(seq[r].token_ids) \in Nat
        BY TypeFacts DEF IInv
      <3> QED
        BY <1>3, <2>1, <2>3, <3>1, <3>2 DEF SettledSeq
    <2> QED
      BY <2>2, <2>3
  <1>5. Labelled' /\ Computed' /\ LabelHolds'
    <2>1. ASSUME NEW t \in Reqs PROVE LabelledSeq(bm'.hash, seq'[t]) /\ ComputedSeq(kv', seq'[t])
      <3>1. LabelledSeq(bm.hash, seq[t]) /\ ComputedSeq(kv, seq[t])
        BY DEF IInv, Labelled, Computed
      <3>2. CASE t # r
        BY <1>3, <3>1, <3>2
      <3>3. CASE t = r
        BY <1>3, <3>3 DEF LabelledSeq, ComputedSeq
      <3> QED
        BY <3>2, <3>3
    <2>2. \A b \in Blocks : HoldsLabel(bm'.hash, kv', b)
      BY <1>3 DEF IInv, LabelHolds
    <2> QED
      BY <2>1, <2>2 DEF Labelled, Computed, LabelHolds
  <1> QED
    BY <1>1, <1>2, <1>3, <1>4, <1>5 DEF IInv, Types, AssertionsHold

-----------------------------------------------------------------------------
(* Fresh blocks. *)

(* Handing out the head of the queue resets those blocks, as in the pool. *)
LEMMA FreshIsReset ==
    ASSUME Types, NEW m, m.hash = bm.hash, m.hash_to_block_id = bm.hash_to_block_id,
           NEW n, bm' = AllocateBlocks(m, n),
           NEW F \in SUBSET Blocks, F = ToSet(SubSeq(m.free, 1, n))
    PROVE  Pool!Reset(F)
  <1> DEFINE index == bm.hash_to_block_id
             left == {h \in DOMAIN index : ~(index[h] \in F /\ bm.hash[index[h]] = h)}
  <1>1. PICK D \in SUBSET PoolPrefixes : index \in [D -> Blocks]
    BY DEF Types, Managers, Indexes
  <1>2. /\ bm'.hash = [b \in Blocks |-> IF b \in F THEN NoHash ELSE bm.hash[b]]
        /\ bm'.hash_to_block_id = [h \in left |-> index[h]]
    BY DEF AllocateBlocks, Restrict
  <1> DEFINE label == [b \in Blocks |-> IF bm.hash[b] = NoHash THEN None ELSE bm.hash[b]]
             at == [p \in PoolPrefixes |-> IF p \in DOMAIN index THEN index[p] ELSE None]
             newAt == [p \in PoolPrefixes |-> IF p \in DOMAIN bm'.hash_to_block_id
                                              THEN bm'.hash_to_block_id[p] ELSE None]
             newLabel == [b \in Blocks |-> IF bm'.hash[b] = NoHash THEN None ELSE bm'.hash[b]]
  <1>3. newLabel = [b \in Blocks |-> IF b \in F THEN None ELSE label[b]]
    BY <1>2
  <1>4. \A p \in PoolPrefixes : p \in left <=>
            p \in DOMAIN index /\ ~(index[p] \in F /\ bm.hash[index[p]] = p)
    OBVIOUS
  <1>5. DOMAIN bm'.hash_to_block_id = left /\ \A p \in left : bm'.hash_to_block_id[p] = index[p]
    BY <1>2
  <1>6. ASSUME NEW p \in PoolPrefixes
        PROVE  newAt[p] = IF at[p] \in F /\ label[at[p]] = p THEN None ELSE at[p]
    <2>1. F \subseteq Blocks /\ None \notin Blocks
      BY NoneAssumption
    <2>2. p # NoHash /\ p # None
      BY PrefixNotEmpty, NoneAssumption
    <2> HIDE DEF left
    <2>3. CASE p \in DOMAIN index
      <3>1. at[p] = index[p] /\ index[p] \in Blocks
        BY <1>1, <2>3
      <3>2. label[index[p]] = p <=> bm.hash[index[p]] = p
        BY <2>2, <3>1
      <3> QED
        BY <1>4, <1>5, <2>3, <3>1, <3>2
    <2>4. CASE p \notin DOMAIN index
      <3>1. at[p] = None /\ newAt[p] = None
        BY <1>4, <1>5, <2>4
      <3> QED
        BY <2>1, <3>1
    <2> QED
      BY <2>3, <2>4
  <1>7. newAt = [p \in PoolPrefixes |->
                   IF at[p] \in F /\ label[at[p]] = p THEN None ELSE at[p]]
    BY <1>6
  <1> QED
    BY <1>3, <1>7 DEF Pool!Reset

(* may_append, field by field: n more blocks, as many as the sequence      *)
(* lacks with its new token.                                               *)
LEMMA GrowEffect ==
    ASSUME IInv, NEW r \in Reqs, NEW token \in Vocab, Grow(r, token)
    PROVE  \E n \in 0..NumFree(bm) :
              /\ bm' = AllocateBlocks(bm, n)
              /\ seq' \in [Reqs -> SeqRecords] /\ kv' = kv
              /\ \A t \in Reqs \ {r} : seq'[t] = seq[t]
              /\ seq'[r].block_table = seq[r].block_table \o SubSeq(bm.free, 1, n)
              /\ seq'[r].token_ids = Append(seq[r].token_ids, token)
              /\ seq'[r].num_pending_tokens = 0
              /\ seq'[r].num_cached_tokens = seq[r].num_cached_tokens
              /\ seq'[r].num_published_blocks = seq[r].num_published_blocks
              /\ Len(seq[r].block_table) + n = CeilDiv(Len(seq[r].token_ids) + 1, BlockSize)
  <1> DEFINE old == seq[r]
             s == CommitToken(ReserveToken(old, 1), token)
             k == Len(old.token_ids)
             n == CeilDiv(k + 1, BlockSize) - Len(old.block_table)
             new == [s EXCEPT !.block_table = @ \o SubSeq(bm.free, 1, n)]
  <1>1. /\ old \in SeqRecords /\ old.token_ids \in Seq(Vocab) /\ k \in Nat /\ k >= 1
        /\ old.block_table \in Seq(Blocks) /\ Len(old.block_table) \in Nat
        /\ old.num_pending_tokens = 0 /\ bm.free \in Seq(Blocks)
        /\ seq \in [Reqs -> SeqRecords]
    <2>1. SettledSeq(r, old)
      BY DEF IInv, Settled
    <2>2. k \in 1..MaxLen /\ old.num_pending_tokens = 0
      BY <2>1 DEF SettledSeq
    <2>3. /\ old \in SeqRecords /\ old.token_ids \in Seq(Vocab)
          /\ old.block_table \in Seq(Blocks) /\ bm.free \in Seq(Blocks)
          /\ seq \in [Reqs -> SeqRecords]
      BY TypeFacts DEF IInv, Types
    <2> QED
      BY <2>2, <2>3
  <1>2. Len(old.block_table) = CeilDiv(k, BlockSize)
    <2>1. SettledSeq(r, old) /\ old.block_table # << >>
      BY DEF IInv, Settled, Grow, Holding
    <2> QED
      BY <2>1 DEF SettledSeq
  <1>3. n \in Nat
    <2> DEFINE c == CeilDiv(k, BlockSize)
               d == CeilDiv(k + 1, BlockSize)
    <2>1. c \in Nat /\ c >= 1 /\ (c - 1) * BlockSize < k
      BY <1>1, CeilDivBlock, SMTT(30)
    <2>2. d \in Nat /\ d >= 1 /\ k + 1 <= d * BlockSize
      <3>1. k + 1 \in Nat /\ k + 1 >= 1
        BY <1>1
      <3> QED
        BY <3>1, CeilDivBlock
    <2> HIDE DEF c, d
    <2>3. c - 1 \in Nat
      BY <2>1
    <2>4. (c - 1) * BlockSize \in Nat /\ d * BlockSize \in Nat
      BY <2>2, <2>3, Multiples
    <2>5. (c - 1) * BlockSize < d * BlockSize
      BY <1>1, <2>1, <2>2, <2>4
    <2>6. c - 1 < d
      BY <2>2, <2>3, <2>5, Multiples
    <2>7. d - c \in Nat
      BY <2>1, <2>2, <2>6
    <2> QED
      BY <1>2, <2>7 DEF c, d
  <1>4. /\ s \in SeqRecords /\ s.token_ids = Append(old.token_ids, token)
        /\ s.num_pending_tokens = 0 /\ s.block_table = old.block_table
        /\ s.num_cached_tokens = old.num_cached_tokens
        /\ s.num_published_blocks = old.num_published_blocks
    <2> DEFINE u == ReserveToken(old, 1)
    <2>1. /\ u \in SeqRecords /\ u.token_ids = old.token_ids /\ u.num_pending_tokens = 1
          /\ u.block_table = old.block_table
          /\ u.num_cached_tokens = old.num_cached_tokens
          /\ u.num_published_blocks = old.num_published_blocks
      <3> HIDE DEF old
      <3>1. u = [old EXCEPT !.num_pending_tokens = 1]
        BY <1>1 DEF ReserveToken
      <3> HIDE DEF u
      <3> QED
        BY <1>1, <3>1 DEF SeqRecords
    <2>2. Append(u.token_ids, token) \in Seq(Vocab)
      BY <1>1, <2>1
    <2> HIDE DEF old, u
    <2>3. s = [u EXCEPT !.token_ids = Append(u.token_ids, token), !.num_pending_tokens = 0]
      <3>1. s = [u EXCEPT !.token_ids = Append(@, token), !.num_pending_tokens = @ - 1]
        BY DEF CommitToken, u
      <3>2. u.num_pending_tokens - 1 = 0
        BY <2>1
      <3> QED
        BY <2>1, <3>1, <3>2
    <2> HIDE DEF s
    <2>4. /\ s.token_ids = Append(u.token_ids, token) /\ s.num_pending_tokens = 0
          /\ s.block_table = u.block_table /\ s.num_cached_tokens = u.num_cached_tokens
          /\ s.num_published_blocks = u.num_published_blocks
      BY <2>1, <2>3 DEF SeqRecords
    <2>5. s \in SeqRecords
      BY <2>1, <2>2, <2>3 DEF SeqRecords
    <2> QED
      BY <2>1, <2>4, <2>5 DEF old
  <1>5. NumMissingBlocks(s, 0) = n
    <2>1. Len(s.token_ids) = k + 1
      BY <1>1, <1>4
    <2>2. NumBlocksFor(s, 0) = CeilDiv(k + 1, BlockSize)
      <3>1. Len(s.token_ids) + s.num_pending_tokens + 0 = k + 1
        BY <1>1, <1>4, <2>1
      <3> QED
        BY <3>1 DEF NumBlocksFor, NumPlannedTokens, NumTokens
    <2>3. NumMissingBlocks(s, 0) = Max({n, 0})
      BY <1>4, <2>2 DEF NumMissingBlocks
    <2>4. Max({n, 0}) = n
      <3> HIDE DEF n
      <3> QED
        BY <1>3, OfTwo
    <2> QED
      BY <2>3, <2>4
  <1>6. n \in 0..NumFree(bm) /\ ~(NumFree(bm) < n)
    <2>1. NumFree(bm) >= n
      BY <1>5 DEF Grow, CanAppend
    <2>2. NumFree(bm) \in Nat
      BY <1>1 DEF NumFree
    <2> HIDE DEF n
    <2> QED
      BY <1>3, <2>1, <2>2
  <1>7. /\ bm' = AllocateBlocks(bm, n) /\ kv' = kv
        /\ seq' = [seq EXCEPT ![r] = new]
    <2>1. MayAppend(bm, s, 0) = [bm |-> AllocateBlocks(bm, n), seq |-> new]
      <3> HIDE DEF s, n
      <3> QED
        BY <1>5, <1>6 DEF MayAppend
    <2>2. /\ bm' = MayAppend(bm, s, 0).bm /\ kv' = kv
          /\ seq' = [seq EXCEPT ![r] = MayAppend(bm, s, 0).seq]
      BY DEF Grow
    <2>3. /\ MayAppend(bm, s, 0).bm = AllocateBlocks(bm, n)
          /\ MayAppend(bm, s, 0).seq = new
      <3> HIDE DEF s, n, new
      <3> QED
        BY <2>1
    <2> HIDE DEF s, n, new
    <2> QED
      BY <2>2, <2>3, Zenon
  <1>8. /\ new \in SeqRecords /\ new.token_ids = s.token_ids
        /\ new.block_table = s.block_table \o SubSeq(bm.free, 1, n)
        /\ new.num_pending_tokens = s.num_pending_tokens
        /\ new.num_cached_tokens = s.num_cached_tokens
        /\ new.num_published_blocks = s.num_published_blocks
    <2>1. SubSeq(bm.free, 1, n) \in Seq(Blocks)
      <3> HIDE DEF n
      <3> QED
        BY <1>1, <1>6, CutQueue DEF NumFree
    <2>2. s.block_table \in Seq(Blocks)
      BY <1>1, <1>4
    <2>3. s.block_table \o SubSeq(bm.free, 1, n) \in Seq(Blocks)
      <3> HIDE DEF s, n
      <3> QED
        BY <2>1, <2>2, JoinTables
    <2> HIDE DEF s, n
    <2> QED
      BY <1>4, <2>3 DEF SeqRecords
  <1> HIDE DEF s, new
  <1>9. /\ seq' \in [Reqs -> SeqRecords] /\ seq'[r] = new
        /\ \A t \in Reqs \ {r} : seq'[t] = seq[t]
    BY <1>1, <1>7, <1>8
  <1>10. Len(old.block_table) + n = CeilDiv(k + 1, BlockSize)
    <2>1. CeilDiv(k + 1, BlockSize) \in Nat
      BY <1>1, CeilDivBlock, SMTT(30)
    <2> QED
      BY <1>1, <2>1
  <1> HIDE DEF n
  <1> QED
    BY <1>4, <1>6, <1>7, <1>8, <1>9, <1>10

(* A sequence with a table: its tokens have slots in it, and what it       *)
(* published are blocks that it filled.                                    *)
LEMMA TableFacts ==
    ASSUME IInv, NEW r \in Reqs
    PROVE  /\ seq[r].num_published_blocks * BlockSize <= seq[r].num_cached_tokens
           /\ seq[r].num_published_blocks * BlockSize \in Nat
           /\ EnablePrefixCaching =>
                seq[r].num_cached_tokens < (seq[r].num_published_blocks + 1) * BlockSize
           /\ ToSet(seq[r].block_table) \subseteq bm.used
           /\ seq[r].block_table # << >> =>
                 /\ Len(seq[r].token_ids) <= Len(seq[r].block_table) * BlockSize
                 /\ seq[r].num_published_blocks <= Len(seq[r].block_table)
                 /\ \A p \in 1..Len(seq[r].token_ids) :
                       ((p - 1) \div BlockSize) + 1 \in 1..Len(seq[r].block_table)
  <1> DEFINE s == seq[r]
             c == s.num_cached_tokens
             k == Len(s.token_ids)
             l == Len(s.block_table)
             pub == s.num_published_blocks
  <1>1. /\ s.token_ids \in Seq(Vocab) /\ s.block_table \in Seq(Blocks)
        /\ c \in Nat /\ k \in Nat /\ l \in Nat /\ pub \in Nat
    BY TypeFacts DEF IInv
  <1>2. SettledSeq(r, s)
    BY DEF IInv, Settled
  <1>3. /\ c <= k /\ k >= 1
        /\ pub = IF EnablePrefixCaching THEN c \div BlockSize ELSE 0
        /\ s.block_table # << >> => l = CeilDiv(k, BlockSize)
    BY <1>1, <1>2 DEF SettledSeq
  <1>4. ToSet(s.block_table) \subseteq bm.used
    <2>1. ToSet(s.block_table) \subseteq Blocks
      BY <1>1 DEF ToSet
    <2> QED
      BY <2>1, PoolFacts DEF IInv
  <1> HIDE DEF s, c, k, l, pub
  <1>5. pub * BlockSize <= c /\ pub * BlockSize \in Nat /\ (EnablePrefixCaching => c < (pub + 1) * BlockSize)
    <2>1. CASE EnablePrefixCaching
      BY <1>1, <1>3, <2>1, DivBlockBounds, Multiples
    <2>2. CASE ~EnablePrefixCaching
      <3>1. pub = 0 /\ 0 * BlockSize = 0
        BY <1>3, <2>2, BlockSizeAssumption
      <3> QED
        BY <1>1, <2>2, <3>1
    <2> QED
      BY <2>1, <2>2
  <1>6. ASSUME s.block_table # << >>
        PROVE  /\ k <= l * BlockSize /\ pub <= l
               /\ \A p \in 1..k : ((p - 1) \div BlockSize) + 1 \in 1..l
    <2>1. k <= l * BlockSize
      BY <1>1, <1>3, <1>6, CeilDivBlock
    <2>2. \A p \in 1..k : p \in Nat /\ p >= 1 /\ p <= l * BlockSize
      <3>1. l * BlockSize \in Nat
        BY <1>1, Multiples
      <3> QED
        BY <1>1, <2>1, <3>1
    <2>3. \A p \in 1..k : ((p - 1) \div BlockSize) + 1 \in 1..l
      BY <1>1, <2>2, SlotInTable
    <2>4. pub <= l
      <3>1. l * BlockSize \in Nat
        BY <1>1, Multiples
      <3>2. pub * BlockSize <= l * BlockSize
        BY <1>1, <1>3, <1>5, <2>1, <3>1
      <3>3. ~(l < pub)
        <4>1. l < pub => l * BlockSize + BlockSize <= pub * BlockSize
          BY <1>1, Multiples
        <4> QED
          BY <1>5, <3>1, <3>2, <4>1, BlockSizeAssumption
      <3> QED
        BY <1>1, <3>3
    <2> QED
      BY <2>1, <2>3, <2>4
  <1> QED
    BY <1>4, <1>5, <1>6 DEF s, c, k, l, pub

(* Resetting blocks that nobody holds leaves every other label in place. *)
LEMMA FreshKeepsLabels ==
    ASSUME IInv, NEW F, F \cap bm.used = {}, kv' = kv,
           bm'.hash = [b \in Blocks |-> IF b \in F THEN NoHash ELSE bm.hash[b]]
    PROVE  LabelHolds' /\ \A t \in Reqs : LabelledSeq(bm'.hash, seq[t])
  <1>1. LabelHolds'
    <2> SUFFICES ASSUME NEW b \in Blocks, bm'.hash[b] # NoHash
                 PROVE  HoldsLabel(bm'.hash, kv', b)
      BY DEF LabelHolds, HoldsLabel
    <2>1. bm'.hash[b] = bm.hash[b]
      OBVIOUS
    <2>2. HoldsLabel(bm.hash, kv, b)
      BY DEF IInv, LabelHolds
    <2> QED
      BY <2>1, <2>2 DEF HoldsLabel
  <1>2. ASSUME NEW t \in Reqs PROVE LabelledSeq(bm'.hash, seq[t])
    <2>1. LabelledSeq(bm.hash, seq[t])
      BY DEF IInv, Labelled
    <2>2. ToSet(seq[t].block_table) \subseteq bm.used
      BY TableFacts
    <2>3. seq[t].block_table \in Seq(Blocks)
      BY TypeFacts DEF IInv
    <2>4. \A i \in 1..Len(seq[t].block_table) :
              seq[t].block_table[i] \in Blocks /\ seq[t].block_table[i] \in bm.used
      BY <2>2, <2>3 DEF ToSet
    <2>5. \A i \in 1..Len(seq[t].block_table) :
              bm'.hash[seq[t].block_table[i]] = bm.hash[seq[t].block_table[i]]
      BY <2>4
    <2> QED
      BY <2>1, <2>5 DEF LabelledSeq
  <1> QED
    BY <1>1, <1>2

(* may_append with a new token keeps the invariant. *)
LEMMA GrowIInv ==
    ASSUME IInv, NEW r \in Reqs, NEW token \in Vocab, Grow(r, token)
    PROVE  [Pool!Next]_(Pool!vars) /\ IInv'
  <1>1. PICK n \in 0..NumFree(bm) :
              /\ bm' = AllocateBlocks(bm, n)
              /\ seq' \in [Reqs -> SeqRecords] /\ kv' = kv
              /\ \A t \in Reqs \ {r} : seq'[t] = seq[t]
              /\ seq'[r].block_table = seq[r].block_table \o SubSeq(bm.free, 1, n)
              /\ seq'[r].token_ids = Append(seq[r].token_ids, token)
              /\ seq'[r].num_pending_tokens = 0
              /\ seq'[r].num_cached_tokens = seq[r].num_cached_tokens
              /\ seq'[r].num_published_blocks = seq[r].num_published_blocks
              /\ Len(seq[r].block_table) + n = CeilDiv(Len(seq[r].token_ids) + 1, BlockSize)
    BY GrowEffect
  <1> DEFINE fresh == SubSeq(bm.free, 1, n)
             old == seq[r]
             new == seq'[r]
             k == Len(old.token_ids)
  <1>0. PICK F : F = ToSet(fresh)
    OBVIOUS
  <1>2. \A b \in Blocks \ bm.used : bm.ref_count[b] = 0
    <2>1. \A b \in Blocks : b \in bm.used <=> bm.ref_count[b] > 0
      BY PoolFacts DEF IInv
    <2>2. \A b \in Blocks : bm.ref_count[b] \in Nat
      BY TypeFacts DEF IInv
    <2> QED
      BY <2>1, <2>2
  <1>3. /\ bm' \in Managers(PoolPrefixes) /\ QueueIsFree(bm') /\ bm'.asserts = bm.asserts
        /\ F \subseteq Blocks \ bm.used /\ fresh \in Seq(Blocks) /\ Len(fresh) = n
        /\ Injective(fresh)
    <2>1. bm \in Managers(PoolPrefixes) /\ QueueIsFree(bm)
      BY DEF IInv, Types
    <2> QED
      BY <1>0, <1>1, <1>2, <2>1, AllocateBlocksEffect
  <1>4. /\ bm'.hash = [b \in Blocks |-> IF b \in F THEN NoHash ELSE bm.hash[b]]
        /\ bm'.ref_count = [b \in Blocks |-> IF b \in F THEN 1 ELSE bm.ref_count[b]]
        /\ bm'.used = bm.used \cup F
    BY <1>0, <1>1 DEF AllocateBlocks
  <1>5. /\ old.token_ids \in Seq(Vocab) /\ old.block_table \in Seq(Blocks) /\ k \in Nat
        /\ Len(old.block_table) \in Nat /\ n \in Nat /\ old.num_cached_tokens \in Nat
        /\ old.num_published_blocks \in Nat
    BY <1>3, TypeFacts DEF IInv
  <1>6. SettledSeq(r, old) /\ old.block_table # << >> /\ k < MaxLen
    BY DEF IInv, Settled, Grow, Holding, NumTokens
  <1>7. /\ old.num_published_blocks * BlockSize <= old.num_cached_tokens
        /\ old.num_published_blocks * BlockSize \in Nat
        /\ ToSet(old.block_table) \subseteq bm.used
        /\ k <= Len(old.block_table) * BlockSize
        /\ old.num_published_blocks <= Len(old.block_table)
        /\ \A p \in 1..k : ((p - 1) \div BlockSize) + 1 \in 1..Len(old.block_table)
    BY <1>6, TableFacts
  <1>8. /\ new.block_table \in Seq(Blocks) /\ Len(new.block_table) = Len(old.block_table) + n
        /\ \A i \in 1..Len(old.block_table) : new.block_table[i] = old.block_table[i]
        /\ \A i \in 1..n : new.block_table[Len(old.block_table) + i] = fresh[i]
        /\ ToSet(new.block_table) = ToSet(old.block_table) \cup F
        /\ Injective(new.block_table)
    <2>1. Injective(old.block_table) /\ ToSet(old.block_table) \cap ToSet(fresh) = {}
      BY <1>0, <1>3, <1>6, <1>7 DEF SettledSeq
    <2> HIDE DEF fresh
    <2>2. new.block_table = old.block_table \o fresh
      BY <1>1 DEF fresh
    <2> DEFINE T == old.block_table
    <2>3. T \in Seq(Blocks) /\ fresh \in Seq(Blocks) /\ Injective(T) /\ Injective(fresh)
          /\ ToSet(T) \cap ToSet(fresh) = {}
      BY <1>3, <1>5, <2>1
    <2> HIDE DEF T
    <2>4. /\ T \o fresh \in Seq(Blocks) /\ Len(T \o fresh) = Len(T) + Len(fresh)
          /\ \A i \in 1..Len(T) : (T \o fresh)[i] = T[i]
          /\ \A i \in 1..Len(fresh) : (T \o fresh)[Len(T) + i] = fresh[i]
          /\ ToSet(T \o fresh) = ToSet(T) \cup ToSet(fresh)
          /\ Injective(T \o fresh)
      BY <2>3, JoinTables
    <2>5. new.block_table = T \o fresh
      BY <2>2 DEF T
    <2>6. Len(fresh) = n
      BY <1>3
    <2> QED
      BY <1>0, <2>4, <2>5, <2>6 DEF T
  <1> HIDE DEF fresh
  <1>9. Pool!MayAppend(r, F)
    <2>1. Pool!Reset(F)
      BY <1>0, <1>1, <1>3, FreshIsReset DEF IInv, fresh
    <2>2. [t \in Reqs |-> ToSet(seq'[t].block_table)]
          = [[t \in Reqs |-> ToSet(seq[t].block_table)] EXCEPT ![r] = @ \cup F]
      BY <1>1, <1>8
    <2> QED
      BY <1>3, <1>4, <2>1, <2>2 DEF Pool!MayAppend
  <1>10. [Pool!Next]_(Pool!vars)
    <2>1. F \in SUBSET Blocks
      BY <1>3
    <2>2. Pool!Next
      BY <1>9, <2>1 DEF Pool!Next
    <2> QED
      BY <2>2
  <1>11. PoolProofs!IInv'
    BY <1>10, PoolStep DEF IInv
  <1>12. SettledSeq(r, new)
    <2>1. Len(new.token_ids) = k + 1 /\ new.token_ids \in Seq(Vocab)
      BY <1>1, <1>5
    <2>2. k + 1 \in 1..MaxLen
      BY <1>5, <1>6, ReqsAssumption
    <2>3. IsPrefix(Prompt[r], new.token_ids)
      <3>1. /\ Len(Prompt[r]) <= k /\ Len(Prompt[r]) \in Nat
            /\ SubSeq(Prompt[r], 1, Len(Prompt[r])) = SubSeq(old.token_ids, 1, Len(Prompt[r]))
        BY <1>6, ReqsAssumption DEF SettledSeq, IsPrefix
      <3>2. Len(Prompt[r]) \in 0..k
        BY <1>5, <3>1
      <3>3. SubSeq(Append(old.token_ids, token), 1, Len(Prompt[r]))
            = SubSeq(old.token_ids, 1, Len(Prompt[r]))
        BY <1>5, <3>2, PrefixFacts
      <3> QED
        BY <1>1, <1>5, <2>1, <3>1, <3>3 DEF IsPrefix
    <2>4. new.num_cached_tokens <= Len(new.token_ids)
      BY <1>1, <1>5, <1>6, <2>1 DEF SettledSeq
    <2>5. new.block_table # << >> /\ Len(new.block_table) = CeilDiv(k + 1, BlockSize)
      <3>1. Len(new.block_table) = CeilDiv(k + 1, BlockSize)
        BY <1>1, <1>8
      <3>2. CeilDiv(k + 1, BlockSize) >= 1 /\ CeilDiv(k + 1, BlockSize) \in Nat
        <4>1. k + 1 \in Nat /\ k + 1 >= 1
          BY <1>5
        <4> QED
          BY <4>1, CeilDivBlock
      <3> QED
        BY <1>8, <3>1, <3>2
    <2> QED
      BY <1>1, <1>6, <1>8, <2>1, <2>2, <2>3, <2>4, <2>5 DEF SettledSeq
  <1>13. Settled'
    <2> SUFFICES ASSUME NEW t \in Reqs PROVE SettledSeq(t, seq'[t])
      BY DEF Settled
    <2>1. SettledSeq(t, seq[t])
      BY DEF IInv, Settled
    <2> QED
      BY <1>1, <1>12, <2>1
  <1>14. LabelHolds' /\ \A t \in Reqs : LabelledSeq(bm'.hash, seq[t])
    <2>1. F \cap bm.used = {}
      BY <1>3
    <2> QED
      BY <1>1, <1>4, <2>1, FreshKeepsLabels
  <1>15. LabelledSeq(bm'.hash, new)
    <2> SUFFICES ASSUME NEW i \in 1..Len(new.block_table)
                 PROVE  bm'.hash[new.block_table[i]] =
                          IF i <= new.num_published_blocks
                          THEN BlockHash(new.token_ids, i) ELSE NoHash
      BY DEF LabelledSeq
    <2>1. CASE i \in 1..Len(old.block_table)
      <3>1. bm'.hash[new.block_table[i]] =
              IF i <= old.num_published_blocks
              THEN BlockHash(old.token_ids, i) ELSE NoHash
        <4>1. LabelledSeq(bm'.hash, old) /\ new.block_table[i] = old.block_table[i]
          BY <1>8, <1>14, <2>1
        <4> HIDE DEF old, new
        <4> QED
          BY <2>1, <4>1 DEF LabelledSeq
      <3>2. ASSUME i <= old.num_published_blocks
            PROVE  BlockHash(new.token_ids, i) = BlockHash(old.token_ids, i)
        <4>1. i \in Nat
          BY <2>1
        <4>2. i * BlockSize \in Nat /\ i * BlockSize <= old.num_published_blocks * BlockSize
          BY <1>5, <3>2, <4>1, Multiples
        <4>3. i * BlockSize \in 0..k
          BY <1>5, <1>6, <1>7, <4>2 DEF SettledSeq
        <4> QED
          BY <1>1, <1>5, <4>3, PrefixFacts DEF BlockHash
      <3> QED
        BY <1>1, <3>1, <3>2
    <2>2. CASE i \notin 1..Len(old.block_table)
      <3>1. /\ i - Len(old.block_table) \in 1..n /\ i > Len(old.block_table)
            /\ Len(old.block_table) + (i - Len(old.block_table)) = i
        BY <1>5, <1>8, <2>2
      <3>2. new.block_table[i] = fresh[i - Len(old.block_table)]
        BY <1>8, <3>1
      <3>3. new.block_table[i] \in F
        <4>1. i - Len(old.block_table) \in DOMAIN fresh
          BY <1>3, <3>1
        <4> QED
          BY <1>0, <3>2, <4>1 DEF ToSet
      <3>4. bm'.hash[new.block_table[i]] = NoHash
        BY <1>3, <1>4, <3>3
      <3>5. ~(i <= new.num_published_blocks)
        BY <1>1, <1>5, <1>7, <3>1
      <3> QED
        BY <3>4, <3>5
    <2> QED
      BY <2>1, <2>2
  <1>16. ComputedSeq(kv', new)
    <2> SUFFICES ASSUME NEW p \in 1..new.num_cached_tokens
                 PROVE  kv'[SlotBlock(new.block_table, p)][SlotIndex(p)]
                        = SubSeq(new.token_ids, 1, p)
      BY DEF ComputedSeq
    <2>1. p \in 1..old.num_cached_tokens /\ p \in 1..k /\ p \in 0..k
      BY <1>1, <1>5, <1>6 DEF SettledSeq
    <2>2. SubSeq(new.token_ids, 1, p) = SubSeq(old.token_ids, 1, p)
      BY <1>1, <1>5, <2>1, PrefixFacts
    <2>3. SlotBlock(new.block_table, p) = SlotBlock(old.block_table, p)
      BY <1>7, <1>8, <2>1 DEF SlotBlock
    <2>4. ComputedSeq(kv, old)
      BY DEF IInv, Computed
    <2> QED
      BY <1>1, <2>1, <2>2, <2>3, <2>4 DEF ComputedSeq
  <1>17. Labelled' /\ Computed'
    <2>1. ASSUME NEW t \in Reqs
          PROVE  LabelledSeq(bm'.hash, seq'[t]) /\ ComputedSeq(kv', seq'[t])
      <3>1. CASE t = r
        BY <1>15, <1>16, <3>1
      <3>2. CASE t # r
        <4>1. seq'[t] = seq[t] /\ ComputedSeq(kv, seq[t])
          BY <1>1, <3>2 DEF IInv, Computed
        <4> QED
          BY <1>1, <1>14, <4>1
      <3> QED
        BY <3>1, <3>2
    <2> QED
      BY <2>1 DEF Labelled, Computed
  <1> QED
    BY <1>1, <1>3, <1>10, <1>11, <1>13, <1>14, <1>17 DEF IInv, Types, AssertionsHold

-----------------------------------------------------------------------------
(* Computed tokens. *)

(* A full block of a sequence has a prefix that the pool knows, of the     *)
(* length of its blocks.                                                   *)
LEMMA BlockHashFacts ==
    ASSUME IInv, NEW r \in Reqs, NEW i \in Nat, i >= 1,
           i * BlockSize <= Len(seq[r].token_ids)
    PROVE  /\ BlockHash(seq[r].token_ids, i) \in PoolPrefixes
           /\ BlockHash(seq[r].token_ids, i) \in Seq(Vocab)
           /\ Len(BlockHash(seq[r].token_ids, i)) = i * BlockSize
           /\ Len(BlockHash(seq[r].token_ids, i)) \div BlockSize = i
  <1> DEFINE tok == seq[r].token_ids
             k == Len(tok)
             p == BlockHash(tok, i)
             prompt == Prompt[r]
  <1>1. /\ tok \in Seq(Vocab) /\ k \in Nat /\ k <= MaxLen /\ IsPrefix(prompt, tok)
    <2>1. SettledSeq(r, seq[r])
      BY DEF IInv, Settled
    <2>2. tok \in Seq(Vocab)
      BY TypeFacts DEF IInv
    <2> QED
      BY <2>1, <2>2, ReqsAssumption DEF SettledSeq
  <1>2. /\ i * BlockSize \in Nat /\ (i + 1) * BlockSize = i * BlockSize + BlockSize
        /\ BlockSize \in Nat /\ BlockSize >= 1 /\ 1 * BlockSize <= i * BlockSize
        /\ 1 * BlockSize = BlockSize
    BY Multiples, BlockSizeAssumption
  <1>3. i * BlockSize \in 0..k
    BY <1>1, <1>2
  <1>4. p \in Seq(Vocab) /\ Len(p) = i * BlockSize
    BY <1>1, <1>3, PrefixFacts DEF BlockHash
  <1>5. Len(p) \div BlockSize = i
    <2>1. i * BlockSize <= i * BlockSize /\ i * BlockSize < (i + 1) * BlockSize
      BY <1>2
    <2>2. (i * BlockSize) \div BlockSize = i
      BY <1>2, <2>1, DivBlock
    <2> QED
      BY <1>4, <2>2
  <1>6. i \in 1..(MaxLen \div BlockSize)
    <2> DEFINE d == MaxLen \div BlockSize
    <2>1. d \in Nat /\ MaxLen < (d + 1) * BlockSize /\ MaxLen \in Nat
      BY DivBlockBounds, ReqsAssumption
    <2> HIDE DEF d
    <2>2. d + 1 \in Nat /\ (d + 1) * BlockSize \in Nat
      BY <2>1, Multiples
    <2>3. i * BlockSize < (d + 1) * BlockSize
      BY <1>1, <1>2, <2>1, <2>2
    <2>4. i < d + 1
      BY <2>2, <2>3, Multiples
    <2> QED
      BY <2>1, <2>4 DEF d
  <1>7. p \in [1..(i * BlockSize) -> Vocab]
    BY <1>2, <1>4
  <1>8. IsPrefix(p, prompt) \/ IsPrefix(prompt, p)
    <2> DEFINE l == Len(prompt)
    <2>1. /\ prompt \in Seq(Vocab) /\ l \in Nat /\ l <= k
          /\ SubSeq(prompt, 1, l) = SubSeq(tok, 1, l)
      BY <1>1, ReqsAssumption DEF IsPrefix
    <2>2. prompt = SubSeq(tok, 1, l)
      <3>1. SubSeq(prompt, 1, l) = prompt
        BY <2>1
      <3> QED
        BY <2>1, <3>1
    <2>3. l \in 0..k
      BY <1>1, <2>1
    <2> HIDE DEF l
    <2>4. p = SubSeq(tok, 1, i * BlockSize)
      BY DEF BlockHash
    <2> DEFINE j == i * BlockSize
    <2>5. j \in 0..k /\ j \in Nat
      BY <1>2, <1>3
    <2>6. p = SubSeq(tok, 1, j) /\ Len(p) = j
      BY <1>4, <2>4
    <2>10. prompt \in Seq(Vocab) /\ Len(prompt) = l
      BY <2>1 DEF l
    <2> HIDE DEF j, p, prompt, tok, k
    <2>7. CASE j <= l
      <3>1. j \in 0..l
        BY <2>1, <2>5, <2>7
      <3>2. SubSeq(SubSeq(tok, 1, l), 1, j) = SubSeq(tok, 1, j)
        BY <1>1, <2>3, <3>1, PrefixFacts DEF k
      <3>3. SubSeq(prompt, 1, j) = p
        BY <2>2, <2>6, <3>2
      <3>4. SubSeq(p, 1, j) = p
        BY <1>4, <2>6
      <3> QED
        BY <2>1, <2>6, <2>7, <2>10, <3>3, <3>4 DEF IsPrefix
    <2>8. CASE l <= j
      <3>1. l \in 0..j
        BY <2>1, <2>5, <2>8
      <3>2. SubSeq(SubSeq(tok, 1, j), 1, l) = SubSeq(tok, 1, l)
        BY <1>1, <2>5, <3>1, PrefixFacts DEF k
      <3>3. SubSeq(p, 1, l) = prompt
        BY <2>2, <2>6, <3>2
      <3>4. SubSeq(prompt, 1, l) = prompt
        BY <2>10
      <3> QED
        BY <2>6, <2>8, <2>10, <3>3, <3>4 DEF IsPrefix
    <2> QED
      BY <2>1, <2>5, <2>7, <2>8
  <1>9. p \in PoolPrefixes
    BY <1>6, <1>7, <1>8 DEF PoolPrefixes
  <1> QED
    BY <1>4, <1>5, <1>9

(* The blocks a step fills lie in the table, and none carries a label yet. *)
LEMMA FilledBlocks ==
    ASSUME IInv, NEW r \in Reqs, NEW n \in Nat, Holding(r),
           seq[r].num_cached_tokens + n <= Len(seq[r].token_ids),
           NEW e, e = IF EnablePrefixCaching
                      THEN (seq[r].num_cached_tokens + n) \div BlockSize ELSE 0
    PROVE  /\ e \in Nat /\ seq[r].num_published_blocks <= e
           /\ e * BlockSize \in Nat /\ e * BlockSize <= seq[r].num_cached_tokens + n
           /\ \A i \in (seq[r].num_published_blocks + 1)..e :
                 /\ i \in Nat /\ i >= 1 /\ i * BlockSize \in Nat
                 /\ i * BlockSize <= seq[r].num_cached_tokens + n
                 /\ i * BlockSize <= Len(seq[r].token_ids)
                 /\ i \in 1..Len(seq[r].block_table)
                 /\ seq[r].block_table[i] \in Blocks
                 /\ bm.hash[seq[r].block_table[i]] = NoHash
  <1> DEFINE s == seq[r]
             c == s.num_cached_tokens
             k == Len(s.token_ids)
             l == Len(s.block_table)
             pub == s.num_published_blocks
  <1>1. /\ s.token_ids \in Seq(Vocab) /\ s.block_table \in Seq(Blocks)
        /\ c \in Nat /\ k \in Nat /\ l \in Nat /\ pub \in Nat
    BY TypeFacts DEF IInv
  <1>2. /\ pub * BlockSize <= c /\ pub * BlockSize \in Nat /\ k <= l * BlockSize
        /\ pub = IF EnablePrefixCaching THEN c \div BlockSize ELSE 0
    BY TableFacts DEF Holding, IInv, Settled, SettledSeq
  <1>3. LabelledSeq(bm.hash, s)
    BY DEF IInv, Labelled
  <1>4. c + n \in Nat /\ c + n <= k /\ e = IF EnablePrefixCaching THEN (c + n) \div BlockSize ELSE 0
    BY <1>1
  <1> HIDE DEF s, c, k, l, pub
  <1>5. e \in Nat /\ e * BlockSize \in Nat /\ e * BlockSize <= c + n
    <2>1. CASE EnablePrefixCaching
      BY <1>4, <2>1, DivBlockBounds, Multiples
    <2>2. CASE ~EnablePrefixCaching
      <3>1. e = 0 /\ 0 * BlockSize = 0
        BY <1>4, <2>2, BlockSizeAssumption
      <3> QED
        BY <1>4, <3>1
    <2> QED
      BY <2>1, <2>2
  <1>6. pub <= e
    <2>1. CASE EnablePrefixCaching
      <3>1. c + n < (e + 1) * BlockSize
        BY <1>4, <2>1, DivBlockBounds
      <3>2. e + 1 \in Nat /\ (e + 1) * BlockSize \in Nat
        <4>1. e + 1 \in Nat
          BY <1>5
        <4> QED
          BY <4>1, Multiples
      <3>3. pub * BlockSize < (e + 1) * BlockSize
        BY <1>1, <1>2, <3>1, <3>2
      <3>4. pub < e + 1
        BY <1>1, <3>2, <3>3, Multiples
      <3> QED
        BY <1>1, <1>5, <3>4
    <2>2. CASE ~EnablePrefixCaching
      BY <1>2, <1>5, <2>2
    <2> QED
      BY <2>1, <2>2
  <1>7. ASSUME NEW i \in (pub + 1)..e
        PROVE  /\ i \in Nat /\ i >= 1 /\ i * BlockSize \in Nat
               /\ i * BlockSize <= c + n /\ i * BlockSize <= k
               /\ i \in 1..l /\ s.block_table[i] \in Blocks
               /\ bm.hash[s.block_table[i]] = NoHash
    <2>1. i \in Nat /\ i >= 1 /\ i <= e /\ ~(i <= pub)
      BY <1>1, <1>5
    <2>2. i * BlockSize \in Nat /\ i * BlockSize <= e * BlockSize /\ l * BlockSize \in Nat
      BY <1>1, <1>5, <2>1, Multiples
    <2>3. i * BlockSize <= c + n /\ i * BlockSize <= k /\ i * BlockSize <= l * BlockSize
      <3> DEFINE x == i * BlockSize
                 y == e * BlockSize
                 z == l * BlockSize
      <3>1. x \in Nat /\ y \in Nat /\ z \in Nat /\ x <= y /\ y <= c + n /\ k <= z
        BY <1>2, <1>5, <2>2
      <3> HIDE DEF x, y, z
      <3>2. x <= c + n /\ x <= k /\ x <= z
        BY <1>1, <1>4, <3>1
      <3> QED
        BY <3>2 DEF x, z
    <2>4. i <= l
      <3>1. l < i => l * BlockSize + BlockSize <= i * BlockSize
        BY <1>1, <2>1, Multiples
      <3> QED
        BY <1>1, <2>1, <2>2, <2>3, <3>1, BlockSizeAssumption
    <2>5. i \in 1..Len(s.block_table)
      BY <1>1, <2>1, <2>4 DEF l
    <2>6. s.block_table[i] \in Blocks
      BY <1>1, <2>5
    <2>7. bm.hash[s.block_table[i]] = NoHash
      BY <1>3, <2>1, <2>5 DEF LabelledSeq, pub
    <2> QED
      BY <2>1, <2>2, <2>3, <2>5, <2>6, <2>7 DEF l
  <1> QED
    BY <1>5, <1>6, <1>7 DEF s, c, k, l, pub

(* compute and hash_blocks, field by field: blocks pub + 1 to e of the     *)
(* sequence are published.                                                 *)
LEMMA ComputeEffect ==
    ASSUME IInv, NEW r \in Reqs, NEW n \in Nat, Compute(r, n)
    PROVE  \E e \in Nat :
              /\ e = IF EnablePrefixCaching
                     THEN (seq[r].num_cached_tokens + n) \div BlockSize ELSE 0
              /\ Holding(r) /\ seq[r].num_cached_tokens + n <= Len(seq[r].token_ids)
              /\ bm' \in Managers(PoolPrefixes)
              /\ bm'.ref_count = bm.ref_count /\ bm'.used = bm.used
              /\ bm'.free = bm.free /\ bm'.asserts = bm.asserts
              /\ \A i \in (seq[r].num_published_blocks + 1)..e :
                    /\ bm'.hash[seq[r].block_table[i]] = BlockHash(seq[r].token_ids, i)
                    /\ BlockHash(seq[r].token_ids, i) \in DOMAIN bm'.hash_to_block_id
                    /\ bm'.hash_to_block_id[BlockHash(seq[r].token_ids, i)]
                       = seq[r].block_table[i]
              /\ \A b \in Blocks :
                    (\A i \in (seq[r].num_published_blocks + 1)..e : seq[r].block_table[i] # b)
                    => bm'.hash[b] = bm.hash[b]
              /\ \A h \in PoolPrefixes :
                    (\A i \in (seq[r].num_published_blocks + 1)..e :
                        h # BlockHash(seq[r].token_ids, i))
                    => /\ h \in DOMAIN bm'.hash_to_block_id <=> h \in DOMAIN bm.hash_to_block_id
                       /\ h \in DOMAIN bm.hash_to_block_id =>
                             bm'.hash_to_block_id[h] = bm.hash_to_block_id[h]
              /\ seq' \in [Reqs -> SeqRecords]
              /\ \A t \in Reqs \ {r} : seq'[t] = seq[t]
              /\ seq'[r].block_table = seq[r].block_table
              /\ seq'[r].token_ids = seq[r].token_ids
              /\ seq'[r].num_pending_tokens = seq[r].num_pending_tokens
              /\ seq'[r].num_cached_tokens = seq[r].num_cached_tokens + n
              /\ seq'[r].num_published_blocks = e
              /\ kv' = WriteSlots(kv, seq[r].block_table, seq[r].token_ids,
                                  seq[r].num_cached_tokens + 1, seq[r].num_cached_tokens + n)
  <1> DEFINE old == seq[r]
             table == old.block_table
             tok == old.token_ids
             c == old.num_cached_tokens
             pub == old.num_published_blocks
             s == [old EXCEPT !.num_cached_tokens = c + n]
             e == IF EnablePrefixCaching THEN (c + n) \div BlockSize ELSE 0
             new == (pub + 1)..e
             h == HashBlocks(bm, s, c + n)
  <1>1. /\ old \in SeqRecords /\ tok \in Seq(Vocab) /\ table \in Seq(Blocks) /\ c \in Nat
        /\ pub \in Nat /\ Len(tok) \in Nat /\ seq \in [Reqs -> SeqRecords]
        /\ bm \in Managers(PoolPrefixes) /\ Injective(table)
    BY TypeFacts DEF IInv, Types, Settled, SettledSeq
  <1>2. /\ s \in SeqRecords /\ s.token_ids = tok /\ s.block_table = table
        /\ s.num_cached_tokens = c + n /\ s.num_published_blocks = pub
        /\ s.num_pending_tokens = old.num_pending_tokens
    <2>1. c + n \in Nat
      BY <1>1
    <2> DEFINE x == c + n
    <2> HIDE DEF old, x
    <2>2. s = [old EXCEPT !.num_cached_tokens = x] /\ x \in Nat
      BY <2>1 DEF x
    <2> HIDE DEF s
    <2> QED
      BY <1>1, <2>2 DEF SeqRecords, x
  <1>3. /\ Holding(r) /\ c + n <= Len(tok) /\ bm' = h.bm
        /\ seq' = [seq EXCEPT ![r] = h.seq]
        /\ kv' = WriteSlots(kv, table, tok, c + 1, c + n)
    <2>1. /\ Holding(r) /\ s.num_cached_tokens <= NumTokens(s)
          /\ bm' = HashBlocks(bm, s, s.num_cached_tokens).bm
          /\ seq' = [seq EXCEPT ![r] = HashBlocks(bm, s, s.num_cached_tokens).seq]
          /\ kv' = WriteSlots(kv, s.block_table, s.token_ids, c + 1, s.num_cached_tokens)
      BY DEF Compute
    <2> HIDE DEF s
    <2> QED
      BY <1>2, <2>1 DEF NumTokens
  <1>4. /\ e \in Nat /\ pub <= e /\ e * BlockSize \in Nat /\ e * BlockSize <= c + n
        /\ \A i \in new :
              /\ i \in Nat /\ i >= 1 /\ i * BlockSize <= Len(tok)
              /\ i \in 1..Len(table) /\ table[i] \in Blocks
    <2>1. PICK x : x = e
      OBVIOUS
    <2> QED
      BY <1>3, <2>1, FilledBlocks
  <1>5. \A i \in new : /\ BlockHash(tok, i) \in PoolPrefixes
                       /\ Len(BlockHash(tok, i)) \div BlockSize = i
    BY <1>4, BlockHashFacts
  <1> DEFINE hashes == {BlockHash(tok, i) : i \in new}
             newOf(b) == {i \in new : table[i] = b}
             index == bm.hash_to_block_id
  <1>6. Min({c + n, NumTokens(s)}) \div BlockSize = (c + n) \div BlockSize
    <2>1. NumTokens(s) = Len(tok)
      BY <1>2 DEF NumTokens
    <2>2. c + n \in Nat /\ c + n <= Len(tok)
      BY <1>1, <1>3
    <2>3. Min({c + n, Len(tok)}) = c + n
      BY <1>1, <2>2, OfTwo
    <2> QED
      BY <2>1, <2>3
  <1>7. ASSUME EnablePrefixCaching
        PROVE  /\ h.bm = [bm EXCEPT
                   !.hash = [b \in Blocks |->
                               IF newOf(b) = {} THEN bm.hash[b]
                               ELSE BlockHash(tok, Max(newOf(b)))],
                   !.hash_to_block_id =
                      [x \in DOMAIN index \cup hashes |->
                          IF x \in hashes THEN table[Len(x) \div BlockSize] ELSE index[x]]]
               /\ h.seq = [s EXCEPT !.num_published_blocks = Max({pub, e})]
    <2> DEFINE end == Min({c + n, NumTokens(s)}) \div BlockSize
               B(N0, T, U) ==
                  [bm EXCEPT
                     !.hash = [b \in Blocks |->
                                 IF {i \in N0 : T[i] = b} = {} THEN bm.hash[b]
                                 ELSE BlockHash(U, Max({i \in N0 : T[i] = b}))],
                     !.hash_to_block_id =
                        [x \in DOMAIN index \cup {BlockHash(U, i) : i \in N0} |->
                            IF x \in {BlockHash(U, i) : i \in N0}
                            THEN T[Len(x) \div BlockSize] ELSE index[x]]]
    <2>1. end = e
      BY <1>6, <1>7
    <2> HIDE DEF s, e
    <2>2. h = [bm  |-> B((s.num_published_blocks + 1)..end, s.block_table, s.token_ids),
               seq |-> [s EXCEPT !.num_published_blocks = Max({@, end})]]
      BY <1>7 DEF HashBlocks
    <2> HIDE DEF end, h
    <2>3. /\ h.bm = B((s.num_published_blocks + 1)..end, s.block_table, s.token_ids)
          /\ h.seq = [s EXCEPT !.num_published_blocks = Max({@, end})]
      BY <2>2
    <2>4. h.seq = [s EXCEPT !.num_published_blocks = Max({pub, e})]
      BY <1>2, <2>1, <2>3
    <2>5. h.bm = B(new, table, tok)
      <3> HIDE DEF B
      <3> QED
        BY <1>2, <2>1, <2>3
    <2> QED
      BY <2>4, <2>5
  <1>8. ASSUME ~EnablePrefixCaching PROVE h.bm = bm /\ h.seq = s
    BY <1>8 DEF HashBlocks
  <1>9. Max({pub, e}) = e
    <2> HIDE DEF pub, e
    <2> QED
      BY <1>1, <1>4, OfTwo
  <1>10. /\ seq' \in [Reqs -> SeqRecords] /\ \A t \in Reqs \ {r} : seq'[t] = seq[t]
         /\ seq'[r].block_table = table /\ seq'[r].token_ids = tok
         /\ seq'[r].num_pending_tokens = old.num_pending_tokens
         /\ seq'[r].num_cached_tokens = c + n /\ seq'[r].num_published_blocks = e
    <2> DEFINE q == h.seq
    <2>1. /\ q \in SeqRecords /\ q.block_table = table /\ q.token_ids = tok
          /\ q.num_pending_tokens = old.num_pending_tokens
          /\ q.num_cached_tokens = c + n /\ q.num_published_blocks = e
      <3>1. CASE EnablePrefixCaching
        <4>1. q = [s EXCEPT !.num_published_blocks = e]
          BY <1>7, <1>9, <3>1
        <4> HIDE DEF q, s, e, old
        <4> QED
          BY <1>2, <1>4, <4>1 DEF SeqRecords
      <3>2. CASE ~EnablePrefixCaching
        <4>1. q = s /\ e = 0
          BY <1>8, <3>2
        <4>2. pub = 0
          BY <3>2 DEF IInv, Settled, SettledSeq
        <4> HIDE DEF q, s, e
        <4> QED
          BY <1>2, <4>1, <4>2
      <3> QED
        BY <3>1, <3>2
    <2>2. seq' = [seq EXCEPT ![r] = q]
      BY <1>3
    <2> HIDE DEF q, e
    <2>3. seq'[r] = q
      BY <1>1, <2>2
    <2> QED
      BY <1>1, <2>1, <2>2, <2>3
  <1>11. PICK D \in SUBSET PoolPrefixes : index \in [D -> Blocks]
    BY <1>1 DEF Managers, Indexes
  <1>12. /\ bm' \in Managers(PoolPrefixes)
         /\ bm'.ref_count = bm.ref_count /\ bm'.used = bm.used
         /\ bm'.free = bm.free /\ bm'.asserts = bm.asserts
         /\ \A i \in new :
               /\ bm'.hash[table[i]] = BlockHash(tok, i)
               /\ BlockHash(tok, i) \in DOMAIN bm'.hash_to_block_id
               /\ bm'.hash_to_block_id[BlockHash(tok, i)] = table[i]
         /\ \A b \in Blocks : (\A i \in new : table[i] # b) => bm'.hash[b] = bm.hash[b]
         /\ \A p \in PoolPrefixes :
               (\A i \in new : p # BlockHash(tok, i))
               => /\ p \in DOMAIN bm'.hash_to_block_id <=> p \in DOMAIN index
                  /\ p \in DOMAIN index => bm'.hash_to_block_id[p] = index[p]
    <2>1. CASE ~EnablePrefixCaching
      <3>1. bm' = bm
        BY <1>3, <1>8, <2>1
      <3>2. new = {}
        <4>1. e = 0
          BY <2>1
        <4> HIDE DEF e
        <4> QED
          BY <1>1, <4>1
      <3> HIDE DEF new
      <3> QED
        BY <1>1, <3>1, <3>2
    <2>2. CASE EnablePrefixCaching
      <3> DEFINE newHash == [b \in Blocks |-> IF newOf(b) = {} THEN bm.hash[b]
                                              ELSE BlockHash(tok, Max(newOf(b)))]
                 newIndex == [x \in DOMAIN index \cup hashes |->
                               IF x \in hashes THEN table[Len(x) \div BlockSize] ELSE index[x]]
      <3>1. bm' = [bm EXCEPT !.hash = newHash, !.hash_to_block_id = newIndex]
        BY <1>3, <1>7, <2>2
      <3>2. \A i \in new : newOf(table[i]) = {i} /\ Max({i}) = i
        <4> SUFFICES ASSUME NEW i \in new PROVE newOf(table[i]) = {i} /\ Max({i}) = i
          OBVIOUS
        <4>1. \A j \in new : table[j] = table[i] => j = i
          BY <1>1, <1>4 DEF Injective
        <4>2. i \in Nat /\ {i, i} = {i}
          BY <1>4
        <4>3. Max({i, i}) = i
          BY <4>2, OfTwo
        <4> HIDE DEF new
        <4> QED
          BY <4>1, <4>2, <4>3
      <3> HIDE DEF new, table, tok
      <3>3. \A i \in new : newHash[table[i]] = BlockHash(tok, i)
        BY <1>4, <3>2
      <3>4. \A b \in Blocks : (\A i \in new : table[i] # b) => newHash[b] = bm.hash[b]
        OBVIOUS
      <3>5. newHash \in [Blocks -> PoolPrefixes \cup {NoHash}]
        <4> SUFFICES ASSUME NEW b \in Blocks PROVE newHash[b] \in PoolPrefixes \cup {NoHash}
          OBVIOUS
        <4>1. CASE \E i \in new : table[i] = b
          BY <1>5, <3>3, <4>1
        <4>2. CASE \A i \in new : table[i] # b
          <5>1. bm.hash \in [Blocks -> PoolPrefixes \cup {NoHash}]
            BY <1>1 DEF Managers
          <5> QED
            BY <3>4, <4>2, <5>1
        <4> QED
          BY <4>1, <4>2
      <3>6. hashes \subseteq PoolPrefixes /\ DOMAIN newIndex = DOMAIN index \cup hashes
        BY <1>5
      <3>7. \A i \in new : BlockHash(tok, i) \in hashes /\ newIndex[BlockHash(tok, i)] = table[i]
        BY <1>5
      <3>8. newIndex \in Indexes(PoolPrefixes)
        <4>1. \A x \in DOMAIN index \cup hashes : newIndex[x] \in Blocks
          BY <1>4, <1>11, <3>7
        <4>2. DOMAIN index \cup hashes \in SUBSET PoolPrefixes
          BY <1>11, <3>6
        <4>3. newIndex \in [DOMAIN index \cup hashes -> Blocks]
          BY <4>1
        <4> QED
          BY <4>2, <4>3 DEF Indexes
      <3>9. \A p \in PoolPrefixes :
               (\A i \in new : p # BlockHash(tok, i))
               => /\ p \in DOMAIN newIndex <=> p \in DOMAIN index
                  /\ p \in DOMAIN index => newIndex[p] = index[p]
        BY <3>6
      <3> HIDE DEF newHash, newIndex
      <3>10. /\ bm'.hash = newHash /\ bm'.hash_to_block_id = newIndex
             /\ bm'.ref_count = bm.ref_count /\ bm'.used = bm.used
             /\ bm'.free = bm.free /\ bm'.asserts = bm.asserts
        BY <1>1, <3>1 DEF Managers
      <3>11. bm' \in Managers(PoolPrefixes)
        BY <1>1, <3>1, <3>5, <3>8 DEF Managers
      <3> QED
        BY <3>3, <3>4, <3>6, <3>7, <3>9, <3>10, <3>11
    <2> QED
      BY <2>1, <2>2
  <1>13. e \in Nat /\ e = IF EnablePrefixCaching THEN (c + n) \div BlockSize ELSE 0
    BY <1>4
  <1> HIDE DEF e
  <1> QED
    BY <1>3, <1>10, <1>12, <1>13

(* Computing tokens is the pool's hash_blocks, or no step of the pool. *)
LEMMA ComputeIsHashBlocks ==
    ASSUME IInv, NEW r \in Reqs, NEW n \in Nat, Compute(r, n)
    PROVE  Pool!Next
  <1> DEFINE table == seq[r].block_table
             tok == seq[r].token_ids
             pub == seq[r].num_published_blocks
             index == bm.hash_to_block_id
  <1>1. PICK e \in Nat :
          /\ e = IF EnablePrefixCaching
                 THEN (seq[r].num_cached_tokens + n) \div BlockSize ELSE 0
          /\ Holding(r) /\ seq[r].num_cached_tokens + n <= Len(tok)
          /\ bm' \in Managers(PoolPrefixes)
          /\ bm'.ref_count = bm.ref_count /\ bm'.used = bm.used
          /\ \A i \in (pub + 1)..e :
                /\ bm'.hash[table[i]] = BlockHash(tok, i)
                /\ BlockHash(tok, i) \in DOMAIN bm'.hash_to_block_id
                /\ bm'.hash_to_block_id[BlockHash(tok, i)] = table[i]
          /\ \A b \in Blocks :
                (\A i \in (pub + 1)..e : table[i] # b) => bm'.hash[b] = bm.hash[b]
          /\ \A h \in PoolPrefixes :
                (\A i \in (pub + 1)..e : h # BlockHash(tok, i))
                => /\ h \in DOMAIN bm'.hash_to_block_id <=> h \in DOMAIN index
                   /\ h \in DOMAIN index => bm'.hash_to_block_id[h] = index[h]
          /\ \A t \in Reqs \ {r} : seq'[t] = seq[t]
          /\ seq'[r].block_table = table
    BY ComputeEffect
  <1> DEFINE new == (pub + 1)..e
  <1>2. \A i \in new : /\ i \in Nat /\ i >= 1 /\ i * BlockSize <= Len(tok)
                       /\ i \in 1..Len(table) /\ table[i] \in Blocks
                       /\ bm.hash[table[i]] = NoHash
    BY <1>1, FilledBlocks
  <1>3. \A i \in new : /\ BlockHash(tok, i) \in PoolPrefixes /\ BlockHash(tok, i) # NoHash
                       /\ Len(BlockHash(tok, i)) \div BlockSize = i
    BY <1>2, BlockHashFacts, PrefixNotEmpty
  <1>4. \A i, j \in new : BlockHash(tok, i) = BlockHash(tok, j) => i = j
    BY <1>3
  <1>5. PICK B : B = {table[i] : i \in new}
    OBVIOUS
  <1>6. PICK g : g = [b \in B |-> bm'.hash[b]]
    OBVIOUS
  <1>7. B \in SUBSET Blocks /\ B \subseteq ToSet(table)
    <2>1. DOMAIN table = 1..Len(table)
      BY TypeFacts DEF IInv
    <2> HIDE DEF new
    <2> QED
      BY <1>2, <1>5, <2>1 DEF ToSet
  <1> HIDE DEF new
  <1>8. \A i \in new : table[i] \in B /\ g[table[i]] = BlockHash(tok, i)
    BY <1>1, <1>5, <1>6 DEF new
  <1>9. \A b \in B : \E i \in new : b = table[i]
    BY <1>5
  <1>10. g \in [B -> PoolPrefixes]
    BY <1>3, <1>6, <1>8, <1>9
  <1>11. \A b \in B : bm.hash[b] = NoHash
    BY <1>2, <1>9
  <1>12. \A b, c \in B : g[b] = g[c] => b = c
    BY <1>4, <1>8, <1>9
  <1> DEFINE label == [b \in Blocks |-> IF bm.hash[b] = NoHash THEN None ELSE bm.hash[b]]
             at == [p \in PoolPrefixes |-> IF p \in DOMAIN index THEN index[p] ELSE None]
             newAt == [p \in PoolPrefixes |-> IF p \in DOMAIN bm'.hash_to_block_id
                                              THEN bm'.hash_to_block_id[p] ELSE None]
             newLabel == [b \in Blocks |-> IF bm'.hash[b] = NoHash THEN None ELSE bm'.hash[b]]
  <1>13. newLabel = [b \in Blocks |-> IF b \in B THEN g[b] ELSE label[b]]
    <2>1. ASSUME NEW b \in Blocks PROVE newLabel[b] = IF b \in B THEN g[b] ELSE label[b]
      <3>1. CASE b \in B
        <4>1. bm'.hash[b] = g[b] /\ g[b] # NoHash
          BY <1>3, <1>6, <1>8, <1>9, <3>1
        <4> QED
          BY <3>1, <4>1
      <3>2. CASE b \notin B
        <4>1. bm'.hash[b] = bm.hash[b]
          BY <1>1, <1>8, <3>2 DEF new
        <4> QED
          BY <3>2, <4>1
      <3> QED
        BY <3>1, <3>2
    <2> QED
      BY <2>1
  <1>14. newAt = [p \in PoolPrefixes |->
                   IF \E b \in B : g[b] = p THEN CHOOSE b \in B : g[b] = p ELSE at[p]]
    <2>1. ASSUME NEW p \in PoolPrefixes
          PROVE  newAt[p] = IF \E b \in B : g[b] = p THEN CHOOSE b \in B : g[b] = p ELSE at[p]
      <3>1. CASE \E b \in B : g[b] = p
        <4>1. PICK b \in B : g[b] = p
          BY <3>1
        <4>2. PICK i \in new : b = table[i]
          BY <1>9, <4>1
        <4>3. p = BlockHash(tok, i)
          BY <1>8, <4>1, <4>2
        <4>4. newAt[p] = b
          BY <1>1, <4>2, <4>3 DEF new
        <4>5. (CHOOSE x \in B : g[x] = p) = b
          BY <1>12, <4>1
        <4> QED
          BY <3>1, <4>4, <4>5
      <3>2. CASE ~(\E b \in B : g[b] = p)
        <4>1. \A i \in new : p # BlockHash(tok, i)
          BY <1>8, <3>2
        <4>2. /\ p \in DOMAIN bm'.hash_to_block_id <=> p \in DOMAIN index
              /\ p \in DOMAIN index => bm'.hash_to_block_id[p] = index[p]
          BY <1>1, <4>1 DEF new
        <4>3. newAt[p] = at[p]
          BY <4>2
        <4> QED
          BY <3>2, <4>3
      <3> QED
        BY <3>1, <3>2
    <2> HIDE DEF at
    <2> QED
      BY <2>1
  <1>15. [t \in Reqs |-> ToSet(seq'[t].block_table)] = [t \in Reqs |-> ToSet(seq[t].block_table)]
    BY <1>1
  <1>16. \A b \in B : label[b] = None
    BY <1>7, <1>11
  <1>17. Pool!HashBlocks(r, B, g)
    <2> HIDE DEF table, tok, pub
    <2> QED
      BY <1>1, <1>12, <1>13, <1>14, <1>15, <1>16 DEF Pool!HashBlocks
  <1>18. B \in SUBSET [t \in Reqs |-> ToSet(seq[t].block_table)][r]
    BY <1>7
  <1> QED
    BY <1>10, <1>17, <1>18 DEF Pool!Next

(* A step writes only slots of blocks that carry no label: nobody else     *)
(* holds them and no cache entry leads to them.                            *)
LEMMA WritesUnlabelled ==
    ASSUME IInv, NEW r \in Reqs, Holding(r),
           NEW p \in Nat, p > seq[r].num_cached_tokens, p <= Len(seq[r].token_ids)
    PROVE  /\ SlotBlock(seq[r].block_table, p) \in Blocks
           /\ SlotBlock(seq[r].block_table, p) \in ToSet(seq[r].block_table)
           /\ bm.hash[SlotBlock(seq[r].block_table, p)] = NoHash
  <1> DEFINE s == seq[r]
             pub == s.num_published_blocks
             d == (p - 1) \div BlockSize
  <1>1. /\ s.block_table \in Seq(Blocks) /\ s.num_cached_tokens \in Nat /\ pub \in Nat
        /\ s.token_ids \in Seq(Vocab)
    BY TypeFacts DEF IInv
  <1>2. pub * BlockSize <= s.num_cached_tokens /\ pub * BlockSize \in Nat
    BY TableFacts
  <1>3. p \in 1..Len(s.token_ids)
    BY <1>1
  <1>4. d + 1 \in 1..Len(s.block_table)
    BY <1>3, TableFacts DEF Holding
  <1>5. ~(d + 1 <= pub)
    <2>1. p - 1 \in Nat
      BY <1>1
    <2>2. d \in Nat /\ p - 1 < (d + 1) * BlockSize
      BY <2>1, DivBlockBounds
    <2> HIDE DEF d, pub
    <2>3. d + 1 \in Nat
      BY <2>2
    <2>4. (d + 1) * BlockSize \in Nat
      BY <2>3, Multiples
    <2>5. pub * BlockSize < (d + 1) * BlockSize
      <3> DEFINE x == pub * BlockSize
                 y == (d + 1) * BlockSize
      <3>1. x \in Nat /\ y \in Nat /\ x <= s.num_cached_tokens /\ p - 1 < y
        BY <1>2, <2>2, <2>4
      <3> HIDE DEF x, y
      <3>2. x < y
        BY <1>1, <2>1, <3>1
      <3> QED
        BY <3>2 DEF x, y
    <2>6. pub < d + 1
      BY <1>1, <2>3, <2>5, Multiples
    <2> QED
      BY <1>1, <2>3, <2>6
  <1>6. LabelledSeq(bm.hash, s)
    BY DEF IInv, Labelled
  <1>7. SlotBlock(s.block_table, p) = s.block_table[d + 1]
    BY DEF SlotBlock
  <1> HIDE DEF d, s
  <1>8. bm.hash[s.block_table[d + 1]] = NoHash
    BY <1>4, <1>5, <1>6 DEF LabelledSeq
  <1>9. s.block_table[d + 1] \in Blocks /\ s.block_table[d + 1] \in ToSet(s.block_table)
    BY <1>1, <1>4 DEF ToSet
  <1> QED
    BY <1>7, <1>8, <1>9 DEF s

(* Computing and publishing keeps the invariant. *)
LEMMA ComputeIInv ==
    ASSUME IInv, NEW r \in Reqs, NEW n \in Nat, Compute(r, n)
    PROVE  [Pool!Next]_(Pool!vars) /\ IInv'
  <1> DEFINE old == seq[r]
             table == old.block_table
             tok == old.token_ids
             pub == old.num_published_blocks
             c == old.num_cached_tokens
             k == Len(tok)
  <1>1. PICK e \in Nat :
          /\ e = IF EnablePrefixCaching THEN (c + n) \div BlockSize ELSE 0
          /\ Holding(r) /\ c + n <= k
          /\ bm' \in Managers(PoolPrefixes)
          /\ bm'.ref_count = bm.ref_count /\ bm'.used = bm.used
          /\ bm'.free = bm.free /\ bm'.asserts = bm.asserts
          /\ \A i \in (pub + 1)..e : bm'.hash[table[i]] = BlockHash(tok, i)
          /\ \A b \in Blocks :
                (\A i \in (pub + 1)..e : table[i] # b) => bm'.hash[b] = bm.hash[b]
          /\ seq' \in [Reqs -> SeqRecords]
          /\ \A t \in Reqs \ {r} : seq'[t] = seq[t]
          /\ seq'[r].block_table = table /\ seq'[r].token_ids = tok
          /\ seq'[r].num_pending_tokens = old.num_pending_tokens
          /\ seq'[r].num_cached_tokens = c + n /\ seq'[r].num_published_blocks = e
          /\ kv' = WriteSlots(kv, table, tok, c + 1, c + n)
    BY ComputeEffect
  <1> DEFINE new == (pub + 1)..e
             size == Len(table) * BlockSize
  <1>2. [Pool!Next]_(Pool!vars)
    BY ComputeIsHashBlocks
  <1>3. PoolProofs!IInv'
    BY <1>2, PoolStep DEF IInv
  <1>4. /\ tok \in Seq(Vocab) /\ table \in Seq(Blocks) /\ c \in Nat /\ pub \in Nat
        /\ k \in Nat /\ Len(table) \in Nat /\ size \in Nat
    BY TypeFacts, Multiples DEF IInv
  <1>5. /\ SettledSeq(r, old) /\ Injective(table) /\ table # << >>
        /\ k <= size
    BY <1>1, TableFacts DEF IInv, Settled, SettledSeq, Holding
  <1>6. /\ e \in Nat /\ pub <= e /\ e * BlockSize \in Nat /\ e * BlockSize <= c + n
        /\ \A i \in new :
              /\ i \in Nat /\ i >= 1 /\ i * BlockSize \in Nat /\ i * BlockSize <= c + n
              /\ i * BlockSize <= k /\ i \in 1..Len(table) /\ table[i] \in Blocks
              /\ bm.hash[table[i]] = NoHash
    BY <1>1, FilledBlocks
  <1> HIDE DEF size, new
  <1>7. /\ \A p \in (c + 1)..(c + n) :
              kv'[SlotBlock(table, p)][SlotIndex(p)] = SubSeq(tok, 1, p)
        /\ \A b \in Blocks, i \in 1..BlockSize :
              (\A p \in (c + 1)..(c + n) : ~(SlotBlock(table, p) = b /\ SlotIndex(p) = i))
              => kv'[b][i] = kv[b][i]
    <2>1. c + 1 \in Nat /\ c + 1 >= 1 /\ c + n \in Nat /\ c + n <= Len(tok)
      BY <1>1, <1>4
    <2>2. c + n <= Len(table) * BlockSize
      BY <1>1, <1>4, <1>5 DEF size
    <2> DEFINE first == c + 1
               last == c + n
    <2>3. /\ first \in Nat /\ first >= 1 /\ last \in Nat /\ last <= Len(tok)
          /\ last <= Len(table) * BlockSize /\ Len(tok) \in Nat
          /\ table \in Seq(Blocks) /\ Injective(table)
          /\ kv' = WriteSlots(kv, table, tok, first, last)
      BY <1>1, <1>4, <1>5, <2>1, <2>2
    <2> HIDE DEF first, last, old, table, tok, c, k
    <2>4. SlotsWritten(kv', kv, table, tok, first, last)
      BY <2>3, WriteSlotsEffect
    <2> QED
      BY <2>4 DEF first, last, SlotsWritten
  <1>8. \A p \in (c + 1)..(c + n) :
            /\ SlotBlock(table, p) \in Blocks /\ SlotBlock(table, p) \in ToSet(table)
            /\ bm.hash[SlotBlock(table, p)] = NoHash
    <2> SUFFICES ASSUME NEW p \in (c + 1)..(c + n)
                 PROVE  /\ SlotBlock(table, p) \in Blocks
                        /\ SlotBlock(table, p) \in ToSet(table)
                        /\ bm.hash[SlotBlock(table, p)] = NoHash
      OBVIOUS
    <2>1. p \in Nat /\ p > c /\ p <= k
      BY <1>1, <1>4, SMTT(30)
    <2> QED
      BY <1>1, <2>1, WritesUnlabelled
  <1>9. \A b \in Blocks : bm.hash[b] # NoHash =>
            bm'.hash[b] = bm.hash[b] /\ \A i \in 1..BlockSize : kv'[b][i] = kv[b][i]
    <2> SUFFICES ASSUME NEW b \in Blocks, bm.hash[b] # NoHash
                 PROVE  bm'.hash[b] = bm.hash[b] /\ \A i \in 1..BlockSize : kv'[b][i] = kv[b][i]
      OBVIOUS
    <2> HIDE DEF old, table, tok, pub, c, k
    <2>1. \A i \in (pub + 1)..e : table[i] # b
      BY <1>6 DEF new
    <2>2. bm'.hash[b] = bm.hash[b]
      BY <1>1, <2>1
    <2>3. \A p \in (c + 1)..(c + n) : SlotBlock(table, p) # b
      BY <1>8
    <2>4. \A i \in 1..BlockSize : kv'[b][i] = kv[b][i]
      BY <1>7, <2>3
    <2> QED
      BY <2>2, <2>4
  <1>10. ASSUME NEW t \in Reqs \ {r}, NEW b \in Blocks, b \in ToSet(seq[t].block_table)
         PROVE  bm'.hash[b] = bm.hash[b] /\ \A i \in 1..BlockSize : kv'[b][i] = kv[b][i]
    <2>1. CASE b \in ToSet(table)
      <3>1. bm.hash[b] # NoHash
        BY <1>10, <2>1, PoolFacts DEF IInv
      <3> QED
        BY <1>9, <3>1
    <2>2. CASE b \notin ToSet(table)
      <3>1. \A i \in new : table[i] # b
        BY <1>4, <1>6, <2>2 DEF ToSet
      <3>2. \A p \in (c + 1)..(c + n) : SlotBlock(table, p) # b
        BY <1>8, <2>2
      <3> QED
        BY <1>1, <1>7, <3>1, <3>2 DEF new
    <2> QED
      BY <2>1, <2>2
  <1>11. SettledSeq(r, seq'[r])
    <2>1. e = IF EnablePrefixCaching THEN (c + n) \div BlockSize ELSE 0
      BY <1>1
    <2> HIDE DEF table, tok, c, k
    <2> QED
      BY <1>1, <1>5, <2>1 DEF SettledSeq, table, tok, k
  <1>12. Settled'
    <2> SUFFICES ASSUME NEW t \in Reqs PROVE SettledSeq(t, seq'[t])
      BY DEF Settled
    <2>1. SettledSeq(t, seq[t])
      BY DEF IInv, Settled
    <2> QED
      BY <1>1, <1>11, <2>1
  <1>13. \A p \in 1..(c + n) :
             kv'[SlotBlock(table, p)][SlotIndex(p)] = SubSeq(tok, 1, p)
    <2> SUFFICES ASSUME NEW p \in 1..(c + n)
                 PROVE  kv'[SlotBlock(table, p)][SlotIndex(p)] = SubSeq(tok, 1, p)
      OBVIOUS
    <2>1. CASE p \in (c + 1)..(c + n)
      BY <1>7, <2>1
    <2>2. CASE p \in 1..c
      <3>1. p \in Nat /\ p >= 1 /\ p <= k /\ p <= size
        BY <1>1, <1>4, <1>5, <2>2
      <3>2. SlotBlock(table, p) \in Blocks /\ SlotIndex(p) \in 1..BlockSize
        <4>1. ((p - 1) \div BlockSize) + 1 \in 1..Len(table)
          BY <1>4, <3>1, SlotInTable DEF size
        <4>2. SlotIndex(p) \in 1..BlockSize
          BY <3>1, SlotExists
        <4> QED
          BY <1>4, <4>1, <4>2 DEF SlotBlock
      <3>3. ASSUME NEW q \in (c + 1)..(c + n), SlotBlock(table, q) = SlotBlock(table, p),
                   SlotIndex(q) = SlotIndex(p)
            PROVE  FALSE
        <4>1. q \in Nat /\ q >= 1 /\ q <= size /\ q > p
          BY <1>1, <1>4, <1>5, <2>2
        <4>2. q = p
          BY <1>4, <1>5, <3>1, <3>3, <4>1, SlotsDistinct DEF size
        <4> QED
          BY <3>1, <4>1, <4>2
      <3>4. kv'[SlotBlock(table, p)][SlotIndex(p)] = kv[SlotBlock(table, p)][SlotIndex(p)]
        BY <1>7, <3>2, <3>3
      <3>5. ComputedSeq(kv, old)
        BY DEF IInv, Computed
      <3> QED
        BY <2>2, <3>4, <3>5 DEF ComputedSeq
    <2> QED
      BY <1>4, <2>1, <2>2
  <1>14. ASSUME NEW t \in Reqs PROVE ComputedSeq(kv', seq'[t])
    <2>1. CASE t = r
      BY <1>1, <1>13, <2>1 DEF ComputedSeq
    <2>2. CASE t # r
      <3> DEFINE u == seq[t]
      <3>1. seq'[t] = u /\ t \in Reqs \ {r}
        BY <1>1, <2>2
      <3>2. /\ u.token_ids \in Seq(Vocab) /\ u.block_table \in Seq(Blocks)
            /\ u.num_cached_tokens \in Nat
        BY TypeFacts DEF IInv
      <3> SUFFICES ASSUME NEW p \in 1..u.num_cached_tokens
                   PROVE  kv'[SlotBlock(u.block_table, p)][SlotIndex(p)]
                          = SubSeq(u.token_ids, 1, p)
        BY <3>1 DEF ComputedSeq
      <3>3. u.block_table # << >> /\ p \in 1..Len(u.token_ids)
        <4>1. SettledSeq(t, u)
          BY DEF IInv, Settled
        <4> HIDE DEF u
        <4> QED
          BY <3>2, <4>1 DEF SettledSeq
      <3>4. ((p - 1) \div BlockSize) + 1 \in 1..Len(u.block_table)
        BY <3>3, TableFacts
      <3>5. /\ SlotBlock(u.block_table, p) \in Blocks
            /\ SlotBlock(u.block_table, p) \in ToSet(u.block_table)
        BY <3>2, <3>4 DEF SlotBlock, ToSet
      <3>6. SlotIndex(p) \in 1..BlockSize
        <4>1. p \in Nat /\ p >= 1
          BY <3>2
        <4> QED
          BY <4>1, SlotExists
      <3>7. kv'[SlotBlock(u.block_table, p)][SlotIndex(p)]
            = kv[SlotBlock(u.block_table, p)][SlotIndex(p)]
        BY <1>10, <3>1, <3>5, <3>6
      <3>8. ComputedSeq(kv, u)
        BY DEF IInv, Computed
      <3> QED
        BY <3>7, <3>8 DEF ComputedSeq
    <2> QED
      BY <2>1, <2>2
  <1>15. LabelledSeq(bm'.hash, seq'[r])
    <2> SUFFICES ASSUME NEW i \in 1..Len(table)
                 PROVE  bm'.hash[table[i]] = IF i <= e THEN BlockHash(tok, i) ELSE NoHash
      BY <1>1 DEF LabelledSeq
    <2>1. LabelledSeq(bm.hash, old) /\ table[i] \in Blocks /\ i \in Nat /\ i >= 1
      BY <1>4 DEF IInv, Labelled
    <2>2. bm.hash[table[i]] = IF i <= pub THEN BlockHash(tok, i) ELSE NoHash
      BY <2>1 DEF LabelledSeq
    <2>3. CASE i \in new
      BY <1>1, <1>4, <1>6, <2>3 DEF new
    <2>4. CASE i \notin new
      <3>1. \A j \in new : table[j] # table[i]
        BY <1>4, <1>5, <1>6, <2>4 DEF Injective
      <3>2. bm'.hash[table[i]] = bm.hash[table[i]]
        BY <1>1, <2>1, <3>1 DEF new
      <3>3. i <= pub <=> i <= e
        BY <1>4, <1>6, <2>1, <2>4 DEF new
      <3> QED
        BY <2>2, <3>2, <3>3
    <2> QED
      BY <2>3, <2>4
  <1>16. ASSUME NEW t \in Reqs PROVE LabelledSeq(bm'.hash, seq'[t])
    <2>1. CASE t = r
      BY <1>15, <2>1
    <2>2. CASE t # r
      <3> DEFINE u == seq[t]
      <3>1. seq'[t] = u /\ t \in Reqs \ {r} /\ u.block_table \in Seq(Blocks)
        BY <1>1, <2>2, TypeFacts DEF IInv
      <3>2. LabelledSeq(bm.hash, u)
        BY DEF IInv, Labelled
      <3>3. \A i \in 1..Len(u.block_table) :
                u.block_table[i] \in Blocks /\ u.block_table[i] \in ToSet(u.block_table)
        BY <3>1 DEF ToSet
      <3>4. \A i \in 1..Len(u.block_table) :
                bm'.hash[u.block_table[i]] = bm.hash[u.block_table[i]]
        BY <1>10, <3>1, <3>3
      <3> QED
        BY <3>1, <3>2, <3>4 DEF LabelledSeq
    <2> QED
      BY <2>1, <2>2
  <1>17. ASSUME NEW b \in Blocks PROVE HoldsLabel(bm'.hash, kv', b)
    <2>1. CASE \E i \in new : table[i] = b
      <3>1. PICK i \in new : table[i] = b
        BY <2>1
      <3>2. /\ i \in Nat /\ i >= 1 /\ i * BlockSize \in Nat /\ i * BlockSize <= c + n
            /\ i * BlockSize <= k /\ i \in 1..Len(table)
        BY <1>6
      <3>3. bm'.hash[b] = BlockHash(tok, i) /\ Len(BlockHash(tok, i)) = i * BlockSize
        BY <1>1, <3>1, <3>2, BlockHashFacts DEF new
      <3> SUFFICES ASSUME NEW j \in 1..BlockSize
                   PROVE  kv'[b][j] = SubSeq(BlockHash(tok, i), 1, i * BlockSize - BlockSize + j)
        BY <3>3 DEF HoldsLabel
      <3> DEFINE x == i * BlockSize
                 p == (i - 1) * BlockSize + j
      <3>4. i - 1 \in Nat /\ (i - 1) + 1 = i
        BY <3>2
      <3>5. (i - 1) * BlockSize \in Nat /\ x = (i - 1) * BlockSize + BlockSize
        <4> DEFINE m == i - 1
        <4>1. m \in Nat /\ m + 1 = i
          BY <3>4
        <4>2. (m + 1) * BlockSize = m * BlockSize + BlockSize /\ m * BlockSize \in Nat
          <5> HIDE DEF m
          <5> QED
            BY <4>1, Multiples
        <4> QED
          BY <4>1, <4>2
      <3>6. p = x - BlockSize + j /\ p \in Nat /\ p >= 1 /\ p <= x
        <4> DEFINE y == (i - 1) * BlockSize
        <4>1. y \in Nat /\ x = y + BlockSize /\ p = y + j /\ BlockSize \in Nat
          BY <3>5, BlockSizeAssumption
        <4> HIDE DEF x, y, p
        <4> QED
          BY <4>1
      <3>7. (p - 1) \div BlockSize = i - 1 /\ SlotIndex(p) = j
        BY <3>4, SlotOf
      <3>8. SlotBlock(table, p) = b
        BY <3>1, <3>4, <3>7 DEF SlotBlock
      <3>9. p \in 1..(c + n) /\ p \in 0..x /\ x \in 0..k
        <4>1. x \in Nat /\ x <= c + n /\ x <= k
          BY <3>2
        <4> HIDE DEF x, p
        <4> QED
          BY <1>4, <3>6, <4>1
      <3>10. kv'[b][j] = SubSeq(tok, 1, p)
        BY <1>13, <3>7, <3>8, <3>9
      <3>11. SubSeq(SubSeq(tok, 1, x), 1, p) = SubSeq(tok, 1, p)
        <4> HIDE DEF x, p
        <4> QED
          BY <1>4, <3>9, PrefixFacts
      <3> QED
        BY <3>6, <3>10, <3>11 DEF BlockHash
    <2>2. CASE \A i \in new : table[i] # b
      <3>1. bm'.hash[b] = bm.hash[b]
        BY <1>1, <2>2 DEF new
      <3>2. HoldsLabel(bm.hash, kv, b)
        BY DEF IInv, LabelHolds
      <3> QED
        BY <1>9, <3>1, <3>2 DEF HoldsLabel
    <2> QED
      BY <2>1, <2>2
  <1>18. QueueIsFree(bm')
    BY <1>1 DEF QueueIsFree, IInv
  <1> QED
    BY <1>1, <1>2, <1>3, <1>12, <1>14, <1>16, <1>17, <1>18
       DEF IInv, Types, AssertionsHold, Labelled, Computed, LabelHolds

-----------------------------------------------------------------------------
(* Admission. *)

(* The hits are blocks published under the sequence's own prefixes, fewer  *)
(* than its blocks: at least one token is left to compute.                 *)
LEMMA HitFacts ==
    ASSUME IInv, NEW r \in Reqs
    PROVE  /\ NumBlocksFor(seq[r], 0) = CeilDiv(Len(seq[r].token_ids), BlockSize)
           /\ NumBlocksFor(seq[r], 0) \in Nat
           /\ NumHitBlocks(bm, seq[r]) \in Nat
           /\ NumHitBlocks(bm, seq[r]) < NumBlocksFor(seq[r], 0)
           /\ ~EnablePrefixCaching => NumHitBlocks(bm, seq[r]) = 0
           /\ \A i \in 1..NumHitBlocks(bm, seq[r]) :
                 /\ i \in Nat /\ i >= 1 /\ i * BlockSize \in Nat
                 /\ i * BlockSize <= Len(seq[r].token_ids)
                 /\ BlockHash(seq[r].token_ids, i) \in DOMAIN bm.hash_to_block_id
                 /\ HitBlock(bm, seq[r], i)
                    = bm.hash_to_block_id[BlockHash(seq[r].token_ids, i)]
                 /\ HitBlock(bm, seq[r], i) \in Blocks
                 /\ bm.hash[HitBlock(bm, seq[r], i)] = BlockHash(seq[r].token_ids, i)
  <1> DEFINE s == seq[r]
             tok == s.token_ids
             k == Len(tok)
             nb == CeilDiv(k, BlockSize)
             hashes == BlockHashes(s)
             Hit(i) == /\ hashes[i] \in DOMAIN bm.hash_to_block_id
                       /\ LET b == bm.hash_to_block_id[hashes[i]]
                          IN  HashedBlock(bm.hash[b]) = SeqBlock(s, i)
             cand == IF EnablePrefixCaching THEN 1..(nb - 1) ELSE {}
             T == {0} \cup {n \in cand : \A i \in 1..n : Hit(i)}
             H == NumHitBlocks(bm, s)
  <1>1. /\ tok \in Seq(Vocab) /\ k \in Nat /\ k >= 1 /\ s.num_pending_tokens = 0
    <2>1. SettledSeq(r, s) /\ tok \in Seq(Vocab)
      BY TypeFacts DEF IInv, Settled
    <2> QED
      BY <2>1 DEF SettledSeq
  <1>2. nb \in Nat /\ nb >= 1 /\ (nb - 1) * BlockSize < k
    BY <1>1, CeilDivBlock
  <1>3. NumBlocksFor(s, 0) = nb /\ NumSeqBlocks(s) = nb
    <2>1. k + s.num_pending_tokens + 0 = k /\ k + s.num_pending_tokens = k
      BY <1>1
    <2> QED
      BY <2>1 DEF NumBlocksFor, NumSeqBlocks, NumPlannedTokens, NumTokens
  <1>4. H = Max(T)
    <2>1. H = Max({0} \cup {n \in IF EnablePrefixCaching THEN 1..(NumSeqBlocks(s) - 1) ELSE {} :
                              \A i \in 1..n : Hit(i)})
      <3> HIDE DEF s
      <3> QED
        BY DEF NumHitBlocks
    <2> HIDE DEF Hit, s, nb
    <2> QED
      BY <1>3, <2>1
  <1> HIDE DEF Hit, H, nb
  <1>5. T \subseteq 0..(nb - 1) /\ T # {} /\ nb - 1 \in Nat
    BY <1>2
  <1>6. H \in T
    <2> HIDE DEF T
    <2> QED
      BY <1>4, <1>5, MaxUpTo
  <1>7. H \in Nat /\ H < nb /\ (~EnablePrefixCaching => H = 0)
    BY <1>2, <1>6
  <1>8. ASSUME NEW i \in 1..H
        PROVE  /\ i \in Nat /\ i >= 1 /\ i * BlockSize \in Nat /\ i * BlockSize <= k
               /\ BlockHash(tok, i) \in DOMAIN bm.hash_to_block_id
               /\ HitBlock(bm, s, i) = bm.hash_to_block_id[BlockHash(tok, i)]
               /\ HitBlock(bm, s, i) \in Blocks
               /\ bm.hash[HitBlock(bm, s, i)] = BlockHash(tok, i)
    <2>1. i \in Nat /\ i >= 1 /\ i <= nb - 1 /\ H # 0
      BY <1>2, <1>7
    <2>2. EnablePrefixCaching /\ Hit(i)
      BY <1>6, <2>1
    <2>3. i * BlockSize \in Nat /\ i * BlockSize <= k
      <3>1. i * BlockSize <= (nb - 1) * BlockSize /\ i * BlockSize \in Nat
            /\ (nb - 1) * BlockSize \in Nat
        BY <1>5, <2>1, Multiples
      <3> DEFINE x == i * BlockSize
                 y == (nb - 1) * BlockSize
      <3>2. x \in Nat /\ y \in Nat /\ x <= y /\ y < k
        BY <1>2, <3>1
      <3> HIDE DEF x, y
      <3>3. x \in Nat /\ x <= k
        BY <1>1, <3>2
      <3> QED
        BY <3>3 DEF x
    <2>4. i \in 1..(k \div BlockSize)
      <3> DEFINE d == k \div BlockSize
      <3>1. d \in Nat /\ k < (d + 1) * BlockSize
        BY <1>1, DivBlockBounds
      <3> HIDE DEF d
      <3>2. d + 1 \in Nat
        BY <3>1
      <3>3. (d + 1) * BlockSize \in Nat
        BY <3>2, Multiples
      <3>4. i * BlockSize < (d + 1) * BlockSize
        <4> DEFINE x == i * BlockSize
                   y == (d + 1) * BlockSize
        <4>1. x \in Nat /\ y \in Nat /\ x <= k /\ k < y
          BY <2>3, <3>1, <3>3
        <4> HIDE DEF x, y
        <4>2. x < y
          BY <1>1, <4>1
        <4> QED
          BY <4>2 DEF x, y
      <3>5. i < d + 1
        BY <2>1, <3>2, <3>4, Multiples
      <3> QED
        BY <2>1, <3>1, <3>5 DEF d
    <2>5. hashes[i] = BlockHash(tok, i)
      BY <2>2, <2>4 DEF BlockHashes, NumTokens
    <2>6. BlockHash(tok, i) \in DOMAIN bm.hash_to_block_id
      BY <2>2, <2>5 DEF Hit
    <2>7. HitBlock(bm, s, i) = bm.hash_to_block_id[BlockHash(tok, i)]
      BY <2>5 DEF HitBlock
    <2>8. /\ bm.hash_to_block_id[BlockHash(tok, i)] \in Blocks
          /\ bm.hash[bm.hash_to_block_id[BlockHash(tok, i)]] = BlockHash(tok, i)
      BY <2>6, PoolFacts DEF IInv
    <2> QED
      BY <2>1, <2>3, <2>6, <2>7, <2>8
  <1> QED
    BY <1>2, <1>3, <1>7, <1>8 DEF nb, H

(* can_allocate: enough free blocks, not counting the hits that somebody   *)
(* holds; the given-back last hit is counted as a block to hand out.       *)
LEMMA AdmissionRoom ==
    ASSUME IInv, NEW r \in Reqs, NEW n, n = CanAllocate(bm, seq[r], 0), n # -1
    PROVE  /\ n \in Nat /\ n <= NumHitBlocks(bm, seq[r])
           /\ Cardinality({i \in 1..n : HitBlock(bm, seq[r], i) \in bm.used}) \in Nat
           /\ NumFree(bm) \in Nat
           /\ NumFree(bm) >= NumBlocksFor(seq[r], 0)
                - Cardinality({i \in 1..n : HitBlock(bm, seq[r], i) \in bm.used})
  <1> DEFINE H == NumHitBlocks(bm, seq[r])
             nb == NumBlocksFor(seq[r], 0)
             held == {i \in 1..H : HitBlock(bm, seq[r], i) \in bm.used}
             kept == {i \in 1..n : HitBlock(bm, seq[r], i) \in bm.used}
             giveBack == RecomputeLastHit /\ H > 0
             needed == nb - Cardinality(held) + (IF giveBack /\ H \in held THEN 1 ELSE 0)
  <1>1. n = IF NumFree(bm) < needed THEN -1 ELSE IF giveBack THEN H - 1 ELSE H
    BY DEF CanAllocate
  <1>2. H \in Nat /\ nb \in Nat /\ NumFree(bm) \in Nat
    BY HitFacts, TypeFacts DEF NumFree, IInv
  <1> HIDE DEF H, nb
  <1>3. IsFiniteSet(held) /\ Cardinality(held) \in Nat
    <2>1. IsFiniteSet(1..H) /\ held \in SUBSET (1..H)
      BY <1>2, FS_Interval
    <2> HIDE DEF held
    <2>2. IsFiniteSet(held)
      BY <2>1, FS_Subset
    <2> QED
      BY <2>2, FS_CardinalityType
  <1> HIDE DEF needed
  <1>4. n = (IF giveBack THEN H - 1 ELSE H) /\ ~(NumFree(bm) < needed)
    BY <1>1
  <1>5. n \in Nat /\ n <= H /\ (giveBack => n + 1 = H)
    BY <1>2, <1>4
  <1>6. kept \subseteq held /\ IsFiniteSet(kept) /\ Cardinality(kept) \in Nat
    <2>1. kept \in SUBSET held
      BY <1>2, <1>5
    <2> HIDE DEF kept, held
    <2>2. IsFiniteSet(kept)
      BY <1>3, <2>1, FS_Subset
    <2> QED
      BY <2>1, <2>2, FS_CardinalityType
  <1>7. NumFree(bm) >= nb - Cardinality(kept)
    <2>1. needed \in Int /\ NumFree(bm) >= needed
      BY <1>2, <1>3, <1>4 DEF needed
    <2>2. CASE giveBack /\ H \in held
      <3>1. held = kept \cup {H} /\ H \notin kept
        <4>1. n + 1 = H
          BY <1>5, <2>2
        <4>2. \A i \in 1..H : i \in 1..n \/ i = H
          BY <1>2, <1>5, <4>1
        <4>3. H \notin 1..n /\ 1..n \subseteq 1..H
          BY <1>2, <1>5, <4>1
        <4> QED
          BY <2>2, <4>2, <4>3
      <3> HIDE DEF kept, held
      <3>2. Cardinality(held) = Cardinality(kept) + 1
        BY <1>6, <3>1, FS_AddElement
      <3>3. needed = nb - Cardinality(held) + 1
        BY <2>2 DEF needed
      <3> QED
        BY <1>2, <1>3, <1>6, <2>1, <3>2, <3>3
    <2>3. CASE ~(giveBack /\ H \in held)
      <3>1. held = kept
        <4>1. CASE giveBack
          <5>1. \A i \in 1..H : i \in 1..n \/ i = H
            BY <1>2, <1>5, <4>1
          <5>2. H \notin held /\ 1..n \subseteq 1..H
            BY <1>2, <1>5, <2>3, <4>1
          <5> QED
            BY <5>1, <5>2
        <4>2. CASE ~giveBack
          <5>1. n = H
            BY <1>4, <4>2
          <5> QED
            BY <5>1
        <4> QED
          BY <4>1, <4>2
      <3>2. needed = nb - Cardinality(held)
        BY <1>2, <1>3, <2>3 DEF needed
      <3> HIDE DEF kept, held
      <3> QED
        BY <1>2, <1>6, <2>1, <3>1, <3>2
    <2> QED
      BY <2>2, <2>3
  <1> QED
    BY <1>2, <1>5, <1>6, <1>7 DEF H, nb

(* allocate, field by field: n hits, then the head of the queue that is    *)
(* left once the hits are taken out of it.                                 *)
LEMMA AdmitEffect ==
    ASSUME IInv, NEW r \in Reqs, Admit(r)
    PROVE  \E n \in Nat : \E m \in Managers(PoolPrefixes) : \E f \in Nat :
              /\ n <= NumHitBlocks(bm, seq[r])
              /\ f = NumBlocksFor(seq[r], 0) - n /\ f \in 0..NumFree(m)
              /\ QueueIsFree(m) /\ m.asserts = bm.asserts
              /\ m.hash = bm.hash /\ m.hash_to_block_id = bm.hash_to_block_id
              /\ m.used = bm.used \cup {HitBlock(bm, seq[r], i) : i \in 1..n}
              /\ m.ref_count = [b \in Blocks |->
                    IF b \notin {HitBlock(bm, seq[r], i) : i \in 1..n} THEN bm.ref_count[b]
                    ELSE IF b \in bm.used THEN bm.ref_count[b] + 1 ELSE 1]
              /\ bm' = AllocateBlocks(m, f) /\ kv' = kv /\ ~Holding(r)
              /\ seq' \in [Reqs -> SeqRecords]
              /\ \A t \in Reqs \ {r} : seq'[t] = seq[t]
              /\ seq'[r].block_table =
                    [i \in 1..n |-> HitBlock(bm, seq[r], i)] \o SubSeq(m.free, 1, f)
              /\ seq'[r].token_ids = seq[r].token_ids
              /\ seq'[r].num_pending_tokens = seq[r].num_pending_tokens
              /\ seq'[r].num_cached_tokens = n * BlockSize
              /\ seq'[r].num_published_blocks = n
  <1> DEFINE s == seq[r]
             n == CanAllocate(bm, s, 0)
             nb == NumBlocksFor(s, 0)
             f == nb - n
             hits == {HitBlock(bm, s, i) : i \in 1..n}
             m == TakeHits(bm, s, n)
             table == [i \in 1..n |-> HitBlock(bm, s, i)]
             a == Allocate(bm, s, n, 0)
             new == [s EXCEPT !.block_table = table \o SubSeq(m.free, 1, f),
                              !.num_cached_tokens = n * BlockSize,
                              !.num_published_blocks = n]
  <1>1. /\ ~Holding(r) /\ n # -1 /\ bm' = a.bm /\ kv' = kv
        /\ seq' = [seq EXCEPT ![r] = a.seq]
    BY DEF Admit
  <1>2. /\ s \in SeqRecords /\ bm \in Managers(PoolPrefixes) /\ bm.free \in Seq(Blocks)
        /\ bm.used \in SUBSET Blocks /\ bm.ref_count \in [Blocks -> Nat]
        /\ seq \in [Reqs -> SeqRecords] /\ s.block_table = << >>
    BY <1>1, TypeFacts DEF IInv, Types, Holding
  <1>3. Injective(bm.free) /\ ToSet(bm.free) = Blocks \ bm.used
    BY DEF IInv, QueueIsFree
  <1>4. /\ n \in Nat /\ n <= NumHitBlocks(bm, s)
        /\ Cardinality({i \in 1..n : HitBlock(bm, s, i) \in bm.used}) \in Nat
        /\ NumFree(bm) \in Nat
        /\ NumFree(bm) >= nb - Cardinality({i \in 1..n : HitBlock(bm, s, i) \in bm.used})
    <2>1. PICK x : x = n
      OBVIOUS
    <2>2. x = CanAllocate(bm, seq[r], 0) /\ x # -1
      BY <1>1, <2>1
    <2> HIDE DEF n
    <2> QED
      BY <2>1, <2>2, AdmissionRoom
  <1> HIDE DEF n
  <1>5. /\ nb \in Nat /\ n < nb /\ f \in Nat
        /\ \A i \in 1..n : HitBlock(bm, s, i) \in Blocks
    <2>1. /\ nb \in Nat /\ NumHitBlocks(bm, s) \in Nat /\ NumHitBlocks(bm, s) < nb
          /\ \A i \in 1..NumHitBlocks(bm, s) : HitBlock(bm, s, i) \in Blocks
      BY HitFacts
    <2> HIDE DEF nb, s
    <2> QED
      BY <1>4, <2>1
  <1>6. hits \subseteq Blocks /\ table \in [1..n -> Blocks] /\ table \in Seq(Blocks)
        /\ hits = {table[i] : i \in 1..n}
    BY <1>4, <1>5
  <1>7. /\ m = [bm EXCEPT
                  !.ref_count = [b \in Blocks |->
                       IF b \notin hits THEN bm.ref_count[b]
                       ELSE IF b \in bm.used THEN bm.ref_count[b] + 1 ELSE 1],
                  !.free = Keep(bm.free, Blocks \ hits),
                  !.used = bm.used \cup hits,
                  !.asserts = bm.asserts]
    <2> DEFINE listed == hits \ bm.used \subseteq ToSet(bm.free)
               checked == bm.asserts /\ listed
    <2>1. m = [bm EXCEPT
                  !.ref_count = [b \in Blocks |->
                       IF b \notin hits THEN bm.ref_count[b]
                       ELSE IF b \in bm.used THEN bm.ref_count[b] + 1 ELSE 1],
                  !.free = Keep(bm.free, Blocks \ hits),
                  !.used = bm.used \cup hits,
                  !.asserts = checked]
      BY DEF TakeHits
    <2>2. listed
      BY <1>3, <1>6
    <2>3. bm.asserts \in BOOLEAN
      BY <1>2 DEF Managers
    <2>4. checked = bm.asserts
      <3> HIDE DEF listed
      <3> QED
        BY <2>2, <2>3
    <2> HIDE DEF checked, m
    <2> QED
      BY <2>1, <2>4
  <1>8. /\ Keep(bm.free, Blocks \ hits) \in Seq(Blocks)
        /\ ToSet(Keep(bm.free, Blocks \ hits)) = ToSet(bm.free) \cap (Blocks \ hits)
        /\ Injective(Keep(bm.free, Blocks \ hits))
    <2> HIDE DEF hits
    <2> QED
      BY <1>2, <1>3, KeepProperties
  <1>9. Len(Keep(bm.free, Blocks \ hits)) >= f
    <2> DEFINE held == {i \in 1..n : HitBlock(bm, s, i) \in bm.used}
    <2>1. held = HitsIn(table, n, bm.used) /\ hits = HitSet(table, n)
      BY <1>6 DEF HitsIn, HitSet
    <2>2. /\ Cardinality(held) \in Nat
          /\ Len(Keep(bm.free, Blocks \ hits)) >= Len(bm.free) - (n - Cardinality(held))
      <3> HIDE DEF hits, table, held
      <3>1. /\ Cardinality(HitsIn(table, n, bm.used)) \in Nat
            /\ Len(Keep(bm.free, Blocks \ HitSet(table, n)))
               >= Len(bm.free) - (n - Cardinality(HitsIn(table, n, bm.used)))
        BY <1>2, <1>3, <1>4, <1>6, RoomAfterHits
      <3> QED
        BY <2>1, <3>1
    <2>3. Len(bm.free) >= nb - Cardinality(held) /\ Len(bm.free) \in Nat
      BY <1>4 DEF NumFree
    <2>4. Len(Keep(bm.free, Blocks \ hits)) \in Nat
      BY <1>8
    <2> HIDE DEF held, nb, hits
    <2> QED
      BY <1>4, <1>5, <2>2, <2>3, <2>4
  <1> HIDE DEF m, hits, table
  <1>10. /\ m.free = Keep(bm.free, Blocks \ hits) /\ m.used = bm.used \cup hits
         /\ m.hash = bm.hash /\ m.hash_to_block_id = bm.hash_to_block_id
         /\ m.asserts = bm.asserts
         /\ m.ref_count = [b \in Blocks |->
                    IF b \notin hits THEN bm.ref_count[b]
                    ELSE IF b \in bm.used THEN bm.ref_count[b] + 1 ELSE 1]
    BY <1>2, <1>7 DEF Managers
  <1>11. m \in Managers(PoolPrefixes)
    <2> DEFINE rc == [b \in Blocks |-> IF b \notin hits THEN bm.ref_count[b]
                                       ELSE IF b \in bm.used THEN bm.ref_count[b] + 1 ELSE 1]
    <2>1. rc \in [Blocks -> Nat] /\ bm.used \cup hits \in SUBSET Blocks
      BY <1>2, <1>6
    <2>2. m = [bm EXCEPT !.ref_count = rc, !.free = Keep(bm.free, Blocks \ hits),
                         !.used = bm.used \cup hits, !.asserts = bm.asserts]
      BY <1>7
    <2> HIDE DEF rc
    <2> QED
      BY <1>2, <1>8, <2>1, <2>2 DEF Managers
  <1>12. QueueIsFree(m)
    BY <1>2, <1>3, <1>6, <1>8, <1>10 DEF QueueIsFree
  <1>13. f \in 0..NumFree(m) /\ ~(NumFree(m) < f)
    <2>1. NumFree(m) \in Nat /\ NumFree(m) >= f
      BY <1>8, <1>9, <1>10 DEF NumFree
    <2> HIDE DEF f
    <2> QED
      BY <1>5, <2>1
  <1>14. a = [bm |-> AllocateBlocks(m, f), seq |-> new]
    <2>1. /\ NumFree(TakeHits(bm, s, n)) = NumFree(m) /\ TakeHits(bm, s, n) = m
          /\ [i \in 1..n |-> HitBlock(bm, s, i)] = table
      BY DEF m, table
    <2>2. ~(s.block_table # << >> \/ NumFree(TakeHits(bm, s, n)) < NumBlocksFor(s, 0) - n)
      BY <1>2, <1>13, <2>1
    <2> HIDE DEF s
    <2> QED
      BY <2>1, <2>2 DEF Allocate
  <1>15. bm' = AllocateBlocks(m, f) /\ seq' = [seq EXCEPT ![r] = new]
    <2>1. a.bm = AllocateBlocks(m, f) /\ a.seq = new
      <3> HIDE DEF a, new
      <3> QED
        BY <1>14
    <2> HIDE DEF a, new
    <2> QED
      BY <1>1, <2>1, Zenon
  <1>16. /\ new \in SeqRecords /\ new.block_table = table \o SubSeq(m.free, 1, f)
         /\ new.token_ids = s.token_ids /\ new.num_pending_tokens = s.num_pending_tokens
         /\ new.num_cached_tokens = n * BlockSize /\ new.num_published_blocks = n
    <2>1. SubSeq(m.free, 1, f) \in Seq(Blocks)
      <3>1. m.free \in Seq(Blocks) /\ f \in 0..Len(m.free)
        BY <1>8, <1>10, <1>13 DEF NumFree
      <3> HIDE DEF f
      <3> QED
        BY <3>1, CutQueue
    <2>2. table \o SubSeq(m.free, 1, f) \in Seq(Blocks)
      <3> HIDE DEF f
      <3> QED
        BY <1>6, <2>1, JoinTables
    <2>3. n * BlockSize \in Nat
      BY <1>4, Multiples
    <2> DEFINE x == n * BlockSize
               y == table \o SubSeq(m.free, 1, f)
    <2>4. new = [s EXCEPT !.block_table = y, !.num_cached_tokens = x,
                          !.num_published_blocks = n]
      OBVIOUS
    <2>5. x \in Nat /\ y \in Seq(Blocks)
      BY <2>2, <2>3
    <2> HIDE DEF x, y, s, new
    <2>6. /\ new \in SeqRecords
      BY <1>2, <1>4, <2>4, <2>5 DEF SeqRecords
    <2>7. /\ new.block_table = y
          /\ new.token_ids = s.token_ids /\ new.num_pending_tokens = s.num_pending_tokens
          /\ new.num_cached_tokens = x /\ new.num_published_blocks = n
      BY <1>2, <1>4, <2>4, <2>5 DEF SeqRecords
    <2> QED
      BY <2>6, <2>7 DEF x, y
  <1> HIDE DEF new
  <1>17. /\ seq' \in [Reqs -> SeqRecords] /\ seq'[r] = new
         /\ \A t \in Reqs \ {r} : seq'[t] = seq[t]
    BY <1>2, <1>15, <1>16
  <1>18. PICK m0 : m0 = m
    OBVIOUS
  <1>19. PICK f0 : f0 = f
    OBVIOUS
  <1>20. /\ n \in Nat /\ m0 \in Managers(PoolPrefixes) /\ f0 \in Nat
         /\ n <= NumHitBlocks(bm, seq[r])
         /\ f0 = NumBlocksFor(seq[r], 0) - n /\ f0 \in 0..NumFree(m0)
         /\ QueueIsFree(m0) /\ m0.asserts = bm.asserts
         /\ m0.hash = bm.hash /\ m0.hash_to_block_id = bm.hash_to_block_id
         /\ m0.used = bm.used \cup {HitBlock(bm, seq[r], i) : i \in 1..n}
         /\ m0.ref_count = [b \in Blocks |->
               IF b \notin {HitBlock(bm, seq[r], i) : i \in 1..n} THEN bm.ref_count[b]
               ELSE IF b \in bm.used THEN bm.ref_count[b] + 1 ELSE 1]
         /\ bm' = AllocateBlocks(m0, f0) /\ kv' = kv /\ ~Holding(r)
    BY <1>1, <1>4, <1>5, <1>10, <1>11, <1>12, <1>13, <1>15, <1>18, <1>19 DEF hits
  <1>21. /\ seq' \in [Reqs -> SeqRecords]
         /\ \A t \in Reqs \ {r} : seq'[t] = seq[t]
         /\ seq'[r].block_table =
               [i \in 1..n |-> HitBlock(bm, seq[r], i)] \o SubSeq(m0.free, 1, f0)
         /\ seq'[r].token_ids = seq[r].token_ids
         /\ seq'[r].num_pending_tokens = seq[r].num_pending_tokens
         /\ seq'[r].num_cached_tokens = n * BlockSize
         /\ seq'[r].num_published_blocks = n
    BY <1>16, <1>17, <1>18, <1>19 DEF table
  <1> QED
    BY <1>20, <1>21, Zenon

(* Admission is the pool's allocate, and keeps the invariant: the hits     *)
(* hold, slot for slot, the prefix the sequence counts as computed.        *)
LEMMA AdmitIInv ==
    ASSUME IInv, NEW r \in Reqs, Admit(r)
    PROVE  [Pool!Next]_(Pool!vars) /\ IInv'
  <1> DEFINE old == seq[r]
             tok == old.token_ids
             nb == NumBlocksFor(old, 0)
             hb(i) == HitBlock(bm, old, i)
             new == seq'[r]
  <1>1. PICK n \in Nat, m \in Managers(PoolPrefixes), f \in Nat :
              /\ n <= NumHitBlocks(bm, old)
              /\ f = nb - n /\ f \in 0..NumFree(m)
              /\ QueueIsFree(m) /\ m.asserts = bm.asserts
              /\ m.hash = bm.hash /\ m.hash_to_block_id = bm.hash_to_block_id
              /\ m.used = bm.used \cup {hb(i) : i \in 1..n}
              /\ m.ref_count = [b \in Blocks |->
                    IF b \notin {hb(i) : i \in 1..n} THEN bm.ref_count[b]
                    ELSE IF b \in bm.used THEN bm.ref_count[b] + 1 ELSE 1]
              /\ bm' = AllocateBlocks(m, f) /\ kv' = kv /\ ~Holding(r)
              /\ seq' \in [Reqs -> SeqRecords]
              /\ \A t \in Reqs \ {r} : seq'[t] = seq[t]
              /\ new.block_table = [i \in 1..n |-> hb(i)] \o SubSeq(m.free, 1, f)
              /\ new.token_ids = tok
              /\ new.num_pending_tokens = old.num_pending_tokens
              /\ new.num_cached_tokens = n * BlockSize
              /\ new.num_published_blocks = n
    BY AdmitEffect
  <1> DEFINE table == [i \in 1..n |-> hb(i)]
             fresh == SubSeq(m.free, 1, f)
             k == Len(tok)
  <1>2. PICK hits : hits = {hb(i) : i \in 1..n}
    OBVIOUS
  <1>3. PICK F : F = ToSet(fresh)
    OBVIOUS
  <1>4. /\ nb = CeilDiv(k, BlockSize) /\ nb \in Nat /\ n < nb
        /\ (~EnablePrefixCaching => n = 0)
        /\ \A i \in 1..n :
              /\ i \in Nat /\ i >= 1 /\ i * BlockSize \in Nat /\ i * BlockSize <= k
              /\ BlockHash(tok, i) \in DOMAIN bm.hash_to_block_id
              /\ hb(i) = bm.hash_to_block_id[BlockHash(tok, i)]
              /\ hb(i) \in Blocks /\ bm.hash[hb(i)] = BlockHash(tok, i)
    <2> DEFINE H == NumHitBlocks(bm, old)
    <2>1. /\ nb = CeilDiv(k, BlockSize) /\ nb \in Nat /\ H \in Nat /\ H < nb
          /\ (~EnablePrefixCaching => H = 0)
          /\ \A i \in 1..H :
                /\ i \in Nat /\ i >= 1 /\ i * BlockSize \in Nat /\ i * BlockSize <= k
                /\ BlockHash(tok, i) \in DOMAIN bm.hash_to_block_id
                /\ hb(i) = bm.hash_to_block_id[BlockHash(tok, i)]
                /\ hb(i) \in Blocks /\ bm.hash[hb(i)] = BlockHash(tok, i)
      BY HitFacts
    <2>2. n <= H
      BY <1>1
    <2> HIDE DEF H, nb, hb, k, tok
    <2>3. \A i \in 1..n : i \in 1..H
      BY <2>1, <2>2
    <2> QED
      BY <2>1, <2>2, <2>3
  <1>5. /\ tok \in Seq(Vocab) /\ k \in Nat /\ old.num_pending_tokens = 0
        /\ SettledSeq(r, old) /\ old.block_table = << >> /\ k >= 1
    <2>1. SettledSeq(r, old)
      BY DEF IInv, Settled
    <2>2. tok \in Seq(Vocab) /\ k \in Nat /\ old.block_table = << >>
      BY <1>1, TypeFacts DEF IInv, Holding
    <2> QED
      BY <2>1, <2>2 DEF SettledSeq
  <1> HIDE DEF hb
  <1>6. \A i, j \in 1..n : hb(i) = hb(j) => i = j
    <2> SUFFICES ASSUME NEW i \in 1..n, NEW j \in 1..n, hb(i) = hb(j) PROVE i = j
      OBVIOUS
    <2>1. BlockHash(tok, i) = BlockHash(tok, j)
      BY <1>4
    <2>2. /\ Len(BlockHash(tok, i)) \div BlockSize = i
          /\ Len(BlockHash(tok, j)) \div BlockSize = j
      BY <1>4, BlockHashFacts
    <2> QED
      BY <2>1, <2>2
  <1>7. /\ table \in Seq(Blocks) /\ Len(table) = n /\ ToSet(table) = hits
        /\ Injective(table) /\ hits \subseteq Blocks
    <2>1. table \in [1..n -> Blocks] /\ hits \subseteq Blocks
      BY <1>2, <1>4
    <2>2. table \in Seq(Blocks) /\ Len(table) = n /\ DOMAIN table = 1..n
      BY <2>1
    <2>3. ToSet(table) = hits
      BY <1>2, <2>2 DEF ToSet
    <2>4. Injective(table)
      BY <1>6, <2>2 DEF Injective
    <2> QED
      BY <2>1, <2>2, <2>3, <2>4
  <1>8. \A b \in Blocks \ m.used : m.ref_count[b] = 0
    <2>1. \A b \in Blocks : b \in bm.used <=> bm.ref_count[b] > 0
      BY PoolFacts DEF IInv
    <2>2. \A b \in Blocks : bm.ref_count[b] \in Nat
      BY TypeFacts DEF IInv
    <2> SUFFICES ASSUME NEW b \in Blocks, b \notin m.used PROVE m.ref_count[b] = 0
      OBVIOUS
    <2>3. b \notin bm.used /\ b \notin hits
      BY <1>1, <1>2
    <2>4. m.ref_count[b] = bm.ref_count[b]
      BY <1>1, <1>2, <2>3
    <2> QED
      BY <2>1, <2>2, <2>3, <2>4
  <1>9. /\ bm' \in Managers(PoolPrefixes) /\ QueueIsFree(bm') /\ bm'.asserts = bm.asserts
        /\ F \subseteq Blocks \ m.used /\ fresh \in Seq(Blocks) /\ Len(fresh) = f
        /\ Injective(fresh)
    <2>1. /\ AllocateBlocks(m, f) \in Managers(PoolPrefixes)
          /\ QueueIsFree(AllocateBlocks(m, f))
          /\ AllocateBlocks(m, f).asserts = m.asserts
          /\ ToSet(fresh) \subseteq Blocks \ m.used
          /\ fresh \in Seq(Blocks) /\ Len(fresh) = f /\ Injective(fresh)
      BY <1>1, <1>8, AllocateBlocksEffect
    <2> HIDE DEF fresh
    <2> QED
      BY <1>1, <1>3, <2>1
  <1>10. /\ m.used = bm.used \cup hits
         /\ F \cap (bm.used \cup hits) = {} /\ F \in SUBSET Blocks
    BY <1>1, <1>2, <1>9
  <1>11. /\ bm'.hash = [b \in Blocks |-> IF b \in F THEN NoHash ELSE bm.hash[b]]
         /\ bm'.ref_count = [b \in Blocks |-> IF b \in F THEN 1 ELSE m.ref_count[b]]
         /\ bm'.used = m.used \cup F
    BY <1>1, <1>3 DEF AllocateBlocks
  <1>12. /\ new.block_table \in Seq(Blocks) /\ Len(new.block_table) = nb
         /\ \A i \in 1..n : new.block_table[i] = hb(i)
         /\ \A i \in 1..f : new.block_table[n + i] = fresh[i]
         /\ ToSet(new.block_table) = hits \cup F
         /\ Injective(new.block_table)
    <2>1. ToSet(table) \cap ToSet(fresh) = {}
      BY <1>3, <1>7, <1>10
    <2>2. new.block_table = table \o fresh
      BY <1>1
    <2>3. \A i \in 1..n : table[i] = hb(i)
      OBVIOUS
    <2> HIDE DEF table, fresh
    <2>0. /\ table \in Seq(Blocks) /\ fresh \in Seq(Blocks)
          /\ Injective(table) /\ Injective(fresh)
          /\ ToSet(table) \cap ToSet(fresh) = {}
      BY <1>7, <1>9, <2>1
    <2>4. /\ table \o fresh \in Seq(Blocks) /\ Len(table \o fresh) = Len(table) + Len(fresh)
          /\ \A i \in 1..Len(table) : (table \o fresh)[i] = table[i]
          /\ \A i \in 1..Len(fresh) : (table \o fresh)[Len(table) + i] = fresh[i]
          /\ ToSet(table \o fresh) = ToSet(table) \cup ToSet(fresh)
          /\ Injective(table \o fresh)
      BY <2>0, JoinTables
    <2>5. n + f = nb
      <3> HIDE DEF nb
      <3> QED
        BY <1>1, <1>4
    <2> HIDE DEF new, nb
    <2>6. /\ new.block_table \in Seq(Blocks) /\ Len(new.block_table) = nb
          /\ \A i \in 1..n : new.block_table[i] = table[i]
          /\ \A i \in 1..f : new.block_table[n + i] = fresh[i]
          /\ ToSet(new.block_table) = hits \cup F /\ Injective(new.block_table)
      BY <1>3, <1>7, <1>9, <2>2, <2>4, <2>5
    <2> QED
      BY <2>3, <2>6
  <1> HIDE DEF table, fresh
  <1>13. Pool!Allocate(r, hits, F)
    <2>1. Pool!Reset(F)
      BY <1>1, <1>3, <1>10, FreshIsReset DEF IInv, fresh
    <2>2. [t \in Reqs |-> ToSet(seq[t].block_table)][r] = {}
      BY <1>5 DEF ToSet
    <2>3. [t \in Reqs |-> ToSet(seq'[t].block_table)]
          = [[t \in Reqs |-> ToSet(seq[t].block_table)] EXCEPT ![r] = hits \cup F]
      BY <1>1, <1>12
    <2>4. \A b \in hits : \E p \in PoolPrefixes :
            [q \in PoolPrefixes |-> IF q \in DOMAIN bm.hash_to_block_id
                                    THEN bm.hash_to_block_id[q] ELSE None][p] = b
      <3> SUFFICES ASSUME NEW i \in 1..n
                   PROVE  \E p \in PoolPrefixes :
            [q \in PoolPrefixes |-> IF q \in DOMAIN bm.hash_to_block_id
                                    THEN bm.hash_to_block_id[q] ELSE None][p] = hb(i)
        BY <1>2
      <3>1. BlockHash(tok, i) \in PoolPrefixes
        BY <1>4, PoolFacts DEF IInv
      <3> QED
        BY <1>4, <3>1
    <2>5. bm'.ref_count = [b \in Blocks |->
                       IF b \in F THEN 1
                       ELSE IF b \notin hits THEN bm.ref_count[b]
                       ELSE IF b \in bm.used THEN bm.ref_count[b] + 1 ELSE 1]
      BY <1>1, <1>2, <1>11, ZenonT(60)
    <2>6. bm'.used = bm.used \cup hits \cup F
      BY <1>10, <1>11
    <2> QED
      BY <1>10, <2>1, <2>2, <2>3, <2>4, <2>5, <2>6 DEF Pool!Allocate
  <1>14. [Pool!Next]_(Pool!vars)
    <2>1. F \in SUBSET Blocks /\ hits \in SUBSET Blocks
      BY <1>7, <1>10
    <2>2. Pool!Next
      BY <1>13, <2>1 DEF Pool!Next
    <2> QED
      BY <2>2
  <1>15. PoolProofs!IInv'
    BY <1>14, PoolStep DEF IInv
  <1>16. n * BlockSize \in Nat /\ n * BlockSize <= k
         /\ (n * BlockSize) \div BlockSize = n
    <2>1. n * BlockSize \in Nat /\ (n + 1) * BlockSize = n * BlockSize + BlockSize
          /\ BlockSize \in Nat /\ BlockSize >= 1
      BY Multiples, BlockSizeAssumption
    <2>2. (n * BlockSize) \div BlockSize = n
      <3>1. n * BlockSize <= n * BlockSize /\ n * BlockSize < (n + 1) * BlockSize
        BY <2>1
      <3> QED
        BY <2>1, <3>1, DivBlock
    <2>3. n * BlockSize <= k
      <3>1. CASE n = 0
        <4>1. 0 * BlockSize = 0
          BY <2>1
        <4> QED
          BY <1>5, <3>1, <4>1
      <3>2. CASE n # 0
        <4>1. n \in 1..n
          BY <3>2
        <4> QED
          BY <1>4, <4>1
      <3> QED
        BY <3>1, <3>2
    <2> QED
      BY <2>1, <2>2, <2>3
  <1>17. SettledSeq(r, new)
    <2>1. new.block_table # << >>
      BY <1>4, <1>12
    <2>2. Len(new.block_table) = CeilDiv(Len(new.token_ids), BlockSize)
      BY <1>1, <1>4, <1>12
    <2>3. n = IF EnablePrefixCaching THEN (n * BlockSize) \div BlockSize ELSE 0
      BY <1>4, <1>16
    <2> DEFINE x == n * BlockSize
    <2>4. /\ new.num_cached_tokens = x /\ x <= k
          /\ new.num_published_blocks = IF EnablePrefixCaching THEN x \div BlockSize ELSE 0
      BY <1>1, <1>16, <2>3
    <2> HIDE DEF x, new
    <2> QED
      BY <1>1, <1>5, <1>12, <2>1, <2>2, <2>4 DEF SettledSeq
  <1>18. Settled'
    <2> SUFFICES ASSUME NEW t \in Reqs PROVE SettledSeq(t, seq'[t])
      BY DEF Settled
    <2>1. SettledSeq(t, seq[t])
      BY DEF IInv, Settled
    <2> QED
      BY <1>1, <1>17, <2>1
  <1>19. LabelHolds' /\ \A t \in Reqs : LabelledSeq(bm'.hash, seq[t])
    <2>1. F \cap bm.used = {}
      BY <1>10
    <2> QED
      BY <1>1, <1>11, <2>1, FreshKeepsLabels
  <1>20. LabelledSeq(bm'.hash, new)
    <2> SUFFICES ASSUME NEW i \in 1..nb
                 PROVE  bm'.hash[new.block_table[i]] =
                          IF i <= n THEN BlockHash(tok, i) ELSE NoHash
      BY <1>1, <1>12 DEF LabelledSeq
    <2>1. CASE i \in 1..n
      <3>1. new.block_table[i] = hb(i) /\ hb(i) \in hits /\ hb(i) \in Blocks
        BY <1>2, <1>4, <1>12, <2>1
      <3>2. bm'.hash[hb(i)] = BlockHash(tok, i)
        BY <1>4, <1>10, <1>11, <2>1, <3>1
      <3> QED
        BY <2>1, <3>1, <3>2
    <2>2. CASE i \notin 1..n
      <3>1. i - n \in 1..f /\ n + (i - n) = i /\ ~(i <= n)
        <4> HIDE DEF nb
        <4> QED
          BY <1>1, <1>4, <2>2
      <3>2. new.block_table[i] = fresh[i - n]
        BY <1>12, <3>1
      <3>3. new.block_table[i] \in F
        <4>1. i - n \in DOMAIN fresh
          BY <1>9, <3>1
        <4> QED
          BY <1>3, <3>2, <4>1 DEF ToSet
      <3>4. bm'.hash[new.block_table[i]] = NoHash
        BY <1>10, <1>11, <3>3
      <3> QED
        BY <3>1, <3>4
    <2> QED
      BY <2>1, <2>2
  <1>21. ComputedSeq(kv', new)
    <2> SUFFICES ASSUME NEW p \in 1..(n * BlockSize)
                 PROVE  kv[SlotBlock(new.block_table, p)][SlotIndex(p)] = SubSeq(tok, 1, p)
      BY <1>1 DEF ComputedSeq
    <2> DEFINE d == (p - 1) \div BlockSize
               i == d + 1
               j == SlotIndex(p)
    <2>1. p \in Nat /\ p >= 1 /\ p <= n * BlockSize
      BY <1>16
    <2>2. d \in Nat /\ j \in 1..BlockSize /\ p = d * BlockSize + j
      BY <2>1, SlotExists
    <2>3. i \in 1..n
      BY <2>1, SlotInTable
    <2>4. SlotBlock(new.block_table, p) = hb(i)
      BY <1>12, <2>3 DEF SlotBlock
    <2>5. /\ hb(i) \in Blocks /\ bm.hash[hb(i)] = BlockHash(tok, i)
          /\ i * BlockSize \in Nat /\ i * BlockSize <= k
          /\ Len(BlockHash(tok, i)) = i * BlockSize /\ BlockHash(tok, i) # NoHash
      BY <1>4, <2>3, BlockHashFacts, PrefixNotEmpty
    <2>6. HoldsLabel(bm.hash, kv, hb(i))
      BY <2>5 DEF IInv, LabelHolds
    <2> HIDE DEF i, j
    <2>7. kv[hb(i)][j] = SubSeq(BlockHash(tok, i), 1, i * BlockSize - BlockSize + j)
      BY <2>2, <2>5, <2>6 DEF HoldsLabel
    <2>8. i * BlockSize - BlockSize + j = p /\ p \in 0..(i * BlockSize)
      <3> DEFINE x == i * BlockSize
                 y == d * BlockSize
      <3>1. x = y + BlockSize /\ y \in Nat /\ BlockSize \in Nat /\ p = y + j
        <4>1. (d + 1) * BlockSize = d * BlockSize + BlockSize /\ d * BlockSize \in Nat
          <5> HIDE DEF d
          <5> QED
            BY <2>2, Multiples
        <4> QED
          BY <2>2, <4>1, BlockSizeAssumption DEF i
      <3> HIDE DEF x, y
      <3>2. x - BlockSize + j = p /\ p \in 0..x
        BY <2>2, <3>1
      <3> QED
        BY <3>2 DEF x
    <2>9. SubSeq(SubSeq(tok, 1, i * BlockSize), 1, p) = SubSeq(tok, 1, p)
      <3> DEFINE x == i * BlockSize
      <3>1. x \in 0..k /\ p \in 0..x
        BY <1>5, <2>5, <2>8
      <3> HIDE DEF x
      <3>2. SubSeq(SubSeq(tok, 1, x), 1, p) = SubSeq(tok, 1, p)
        BY <1>5, <3>1, PrefixFacts
      <3> QED
        BY <3>2 DEF x
    <2> QED
      BY <2>4, <2>7, <2>8, <2>9 DEF BlockHash, j
  <1>22. Labelled' /\ Computed'
    <2>1. ASSUME NEW t \in Reqs
          PROVE  LabelledSeq(bm'.hash, seq'[t]) /\ ComputedSeq(kv', seq'[t])
      <3>1. CASE t = r
        BY <1>20, <1>21, <3>1
      <3>2. CASE t # r
        <4>1. seq'[t] = seq[t] /\ ComputedSeq(kv, seq[t])
          BY <1>1, <3>2 DEF IInv, Computed
        <4> QED
          BY <1>1, <1>19, <4>1
      <3> QED
        BY <3>1, <3>2
    <2> QED
      BY <2>1 DEF Labelled, Computed
  <1> QED
    BY <1>1, <1>9, <1>14, <1>15, <1>18, <1>19, <1>22 DEF IInv, Types, AssertionsHold

-----------------------------------------------------------------------------
(* Every step is a step of the pool or leaves it alone, and keeps the      *)
(* invariant.                                                              *)
LEMMA NextIInv ==
    ASSUME IInv, [Next]_vars
    PROVE  [Pool!Next]_(Pool!vars) /\ IInv'
  <1>1. CASE UNCHANGED vars
    <2>1. bm' = bm /\ seq' = seq /\ kv' = kv
      BY <1>1 DEF vars
    <2>2. (Pool!vars)' = Pool!vars
      BY <2>1 DEF Pool!vars
    <2>3. PoolProofs!IInv'
      BY <2>2, PoolStep DEF IInv
    <2>4. Settled' /\ Labelled' /\ Computed' /\ LabelHolds'
      BY <2>1 DEF IInv, Settled, Labelled, Computed, LabelHolds
    <2> QED
      BY <2>1, <2>2, <2>3, <2>4 DEF IInv, Types, AssertionsHold
  <1>2. ASSUME NEW r \in Reqs, Admit(r) PROVE [Pool!Next]_(Pool!vars) /\ IInv'
    BY <1>2, AdmitIInv
  <1>3. ASSUME NEW r \in Reqs, NEW n \in 1..MaxLen, Compute(r, n)
        PROVE  [Pool!Next]_(Pool!vars) /\ IInv'
    <2>1. n \in Nat
      BY ReqsAssumption
    <2> QED
      BY <1>3, <2>1, ComputeIInv
  <1>4. ASSUME NEW r \in Reqs, NEW token \in Vocab, Grow(r, token)
        PROVE  [Pool!Next]_(Pool!vars) /\ IInv'
    BY <1>4, GrowIInv
  <1>5. ASSUME NEW r \in Reqs, Release(r) PROVE [Pool!Next]_(Pool!vars) /\ IInv'
    BY <1>5, ReleaseIInv
  <1> QED
    BY <1>1, <1>2, <1>3, <1>4, <1>5 DEF Next

(* The inductive invariant of the block manager, its sequences and the     *)
(* cache memory, for any block size, cache size and prompts.               *)
THEOREM CacheInvariant == Spec => []IInv
  <1>1. IInv /\ [Next]_vars => IInv'
    BY NextIInv
  <1> QED
    BY <1>1, InitIInv, PTL DEF Spec

(* No assertion of block_manager.py ever fails: what can_allocate and      *)
(* can_append promise is there when allocate and may_append pop the queue. *)
THEOREM NoAssertionFails == Spec => []AssertionsHold
  <1>1. IInv => AssertionsHold
    BY DEF IInv
  <1> QED
    BY <1>1, CacheInvariant, PTL

(* A prefix hit leads to keys and values of exactly that prefix, whatever  *)
(* was evicted, shared, released and admitted again before.                *)
THEOREM HitsHoldTheirPrefix == Spec => []CacheHoldsPrefix
  <1>1. IInv => CacheHoldsPrefix
    <2> SUFFICES ASSUME IInv, NEW h \in DOMAIN bm.hash_to_block_id, NEW i \in 1..BlockSize
                 PROVE  kv[bm.hash_to_block_id[h]][i] = SubSeq(h, 1, Len(h) - BlockSize + i)
      BY DEF CacheHoldsPrefix
    <2>1. /\ h \in PoolPrefixes /\ bm.hash_to_block_id[h] \in Blocks
          /\ bm.hash[bm.hash_to_block_id[h]] = h
      BY PoolFacts DEF IInv
    <2>2. h # NoHash
      BY <2>1, PrefixNotEmpty
    <2>3. HoldsLabel(bm.hash, kv, bm.hash_to_block_id[h])
      BY <2>1 DEF IInv, LabelHolds
    <2> QED
      BY <2>1, <2>2, <2>3 DEF HoldsLabel
  <1> QED
    BY <1>1, CacheInvariant, PTL

(* The block manager implements the abstract pool: its queue order, its    *)
(* hash arithmetic and its closed-form loops are refinements of taking,    *)
(* sharing, publishing and giving back blocks.                             *)
THEOREM ImplementsPool == Spec => PoolSpec
  <1>1. IInv /\ [Next]_vars => [Pool!Next]_(Pool!vars)
    BY NextIInv
  <1> QED
    BY <1>1, InitPool, CacheInvariant, PTL DEF Spec, PoolSpec, Pool!Spec
=============================================================================
