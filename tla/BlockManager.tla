---------------------------- MODULE BlockManager ----------------------------
(***************************************************************************)
(* engine/block_manager.py: the paged KV cache's blocks, their reference   *)
(* counts, the free queue and the prefix cache.                            *)
(*                                                                         *)
(* The manager's state is one record bm; each method is an operator from   *)
(* (bm, seq) to the new bm or the new seq, with its loop in closed form.   *)
(*   ref_count[b], hash[b]  the Block objects (hash << >> is the code's -1;*)
(*                          token_ids is set and cleared with it)          *)
(*   free                   free_block_queue, next block to hand out first *)
(*   used                   used_block_ids                                 *)
(*   hash_to_block_id       the prefix cache, a function on its own domain *)
(*   asserts                FALSE once an assertion of the code has failed *)
(***************************************************************************)
EXTENDS Sequence, SequencesExt

CONSTANTS
    NumBlocks,          \* num_kvcache_blocks
    RecomputeLastHit    \* recompute_last_hit: a drafter's KV needs the next token

ASSUME NumBlocksAssumption == NumBlocks \in Nat
ASSUME RecomputeAssumption == RecomputeLastHit \in BOOLEAN

Blocks == 1..NumBlocks

NoHash == << >>

InitBlockManager ==
    [ref_count        |-> [b \in Blocks |-> 0],
     hash             |-> [b \in Blocks |-> NoHash],
     free             |-> [i \in 1..NumBlocks |-> i],
     used             |-> {},
     hash_to_block_id |-> << >>,
     asserts          |-> TRUE]

NumFree(bm) == Len(bm.free)

(* The members of S in a queue, in their order. *)
Keep(q, S) ==
    LET kept[i \in 0..Len(q)] ==
          IF i = 0 THEN << >>
          ELSE IF q[i] \in S THEN Append(kept[i - 1], q[i]) ELSE kept[i - 1]
    IN  kept[Len(q)]

-----------------------------------------------------------------------------
(* _num_blocks: blocks for the planned tokens and the lookahead slots. *)
NumBlocksFor(seq, num_lookahead) ==
    CeilDiv(NumPlannedTokens(seq) + num_lookahead, BlockSize)

(* Fault: the handed-out blocks keep their cache entries. *)
AllocateWithoutEviction(bm, n) ==
    LET got == ToSet(SubSeq(bm.free, 1, n))
    IN  [bm EXCEPT !.ref_count = [b \in Blocks |-> IF b \in got THEN 1 ELSE @[b]],
                   !.hash = [b \in Blocks |-> IF b \in got THEN NoHash ELSE @[b]],
                   !.free = SubSeq(@, n + 1, NumFree(bm)),
                   !.used = @ \cup got]

(* n calls of _allocate_block: the blocks at the head of the queue lose    *)
(* their place in the prefix cache and are reset.                          *)
AllocateBlocks(bm, n) ==
    LET got == ToSet(SubSeq(bm.free, 1, n))
        Evicted(h) == LET b == bm.hash_to_block_id[h]
                      IN  b \in got /\ bm.hash[b] = h
    IN  [ref_count |-> [b \in Blocks |-> IF b \in got THEN 1 ELSE bm.ref_count[b]],
         hash      |-> [b \in Blocks |-> IF b \in got THEN NoHash ELSE bm.hash[b]],
         free      |-> SubSeq(bm.free, n + 1, NumFree(bm)),
         used      |-> bm.used \cup got,
         hash_to_block_id |->
            Restrict(bm.hash_to_block_id,
                     {h \in DOMAIN bm.hash_to_block_id : ~Evicted(h)}),
         asserts   |-> bm.asserts /\ \A b \in got : bm.ref_count[b] = 0]

(* popleft on an empty queue is an assertion failure. *)
NoFreeBlock(bm) == [bm EXCEPT !.asserts = FALSE]

-----------------------------------------------------------------------------
(* The prefix blocks of seq that the cache holds, its last block excluded. *)
NumHitBlocks(bm, seq) ==
    LET hashes == BlockHashes(seq)
        Hit(i) == /\ hashes[i] \in DOMAIN bm.hash_to_block_id
                  /\ LET b == bm.hash_to_block_id[hashes[i]]
                     IN  HashedBlock(bm.hash[b]) = SeqBlock(seq, i)
        candidates == IF EnablePrefixCaching THEN 1..(NumSeqBlocks(seq) - 1) ELSE {}
    IN  Max({0} \cup {n \in candidates : \A i \in 1..n : Hit(i)})

HitBlock(bm, seq, i) == bm.hash_to_block_id[BlockHashes(seq)[i]]

(* Fault: a hit that lies in the free queue is taken to cost no block. *)
CanAllocateFreeHits(bm, seq, num_lookahead) ==
    LET hits == NumHitBlocks(bm, seq)
    IN  IF NumFree(bm) < NumBlocksFor(seq, num_lookahead) - hits THEN -1 ELSE hits

(* can_allocate: the reusable prefix blocks, or -1 when seq does not fit.  *)
(* A hit some sequence holds costs no free block.                          *)
CanAllocate(bm, seq, num_lookahead) ==
    LET hits      == NumHitBlocks(bm, seq)
        held      == {i \in 1..hits : HitBlock(bm, seq, i) \in bm.used}
        giveBack  == RecomputeLastHit /\ hits > 0
        reused    == IF giveBack THEN hits - 1 ELSE hits
        needed    == NumBlocksFor(seq, num_lookahead) - Cardinality(held)
                     + (IF giveBack /\ hits \in held THEN 1 ELSE 0)
    IN  IF NumFree(bm) < needed THEN -1 ELSE reused

(* Fault: the reference count of a hit in use is set, not increased. *)
TakeHitsUncounted(bm, seq, num_cached_blocks) ==
    LET hits == {HitBlock(bm, seq, i) : i \in 1..num_cached_blocks}
    IN  [bm EXCEPT !.ref_count = [b \in Blocks |-> IF b \in hits THEN 1 ELSE @[b]],
                   !.free      = Keep(@, Blocks \ hits),
                   !.used      = @ \cup hits]

(* allocate: take a reference on each hit, then fresh blocks for the rest. *)
(* A hit not in use is removed from the queue, which asserts it is there.  *)
TakeHits(bm, seq, num_cached_blocks) ==
    LET hits == {HitBlock(bm, seq, i) : i \in 1..num_cached_blocks}
    IN  [bm EXCEPT
           !.ref_count = [b \in Blocks |->
                            IF b \notin hits THEN @[b]
                            ELSE IF b \in bm.used THEN @[b] + 1 ELSE 1],
           !.free      = Keep(@, Blocks \ hits),
           !.used      = @ \cup hits,
           !.asserts   = @ /\ hits \ bm.used \subseteq ToSet(bm.free)]

Allocate(bm, seq, num_cached_blocks, num_lookahead) ==
    LET hit    == TakeHits(bm, seq, num_cached_blocks)
        fresh  == NumBlocksFor(seq, num_lookahead) - num_cached_blocks
        table  == [i \in 1..num_cached_blocks |-> HitBlock(bm, seq, i)]
    IN  IF seq.block_table # << >> \/ NumFree(hit) < fresh
        THEN [bm |-> NoFreeBlock(bm), seq |-> seq]
        ELSE [bm  |-> AllocateBlocks(hit, fresh),
              seq |-> [seq EXCEPT
                         !.block_table          = table \o SubSeq(hit.free, 1, fresh),
                         !.num_cached_tokens    = num_cached_blocks * BlockSize,
                         !.num_published_blocks = num_cached_blocks]]

(* deallocate: the last block is released first, so it is reused first. *)
Deallocate(bm, seq) ==
    LET table == seq.block_table
        freed == {b \in ToSet(table) : bm.ref_count[b] = 1}
    IN  [bm  |-> [bm EXCEPT
                    !.ref_count = [b \in Blocks |->
                                     IF b \in ToSet(table) THEN @[b] - 1 ELSE @[b]],
                    !.used      = @ \ freed,
                    !.free      = @ \o Keep(Reverse(table), freed),
                    !.asserts   = @ /\ freed \subseteq bm.used],
         seq |-> [seq EXCEPT !.num_cached_tokens = 0,
                             !.num_published_blocks = 0,
                             !.block_table = << >>]]

NumMissingBlocks(seq, num_lookahead) ==
    Max({NumBlocksFor(seq, num_lookahead) - Len(seq.block_table), 0})

CanAppend(bm, seq, num_lookahead) ==
    NumFree(bm) >= NumMissingBlocks(seq, num_lookahead)

MayAppend(bm, seq, num_lookahead) ==
    LET n == NumMissingBlocks(seq, num_lookahead)
    IN  IF NumFree(bm) < n
        THEN [bm |-> NoFreeBlock(bm), seq |-> seq]
        ELSE [bm  |-> AllocateBlocks(bm, n),
              seq |-> [seq EXCEPT !.block_table = @ \o SubSeq(bm.free, 1, n)]]

(* hash_blocks: publish the full blocks whose KV is computed and whose     *)
(* tokens are committed. A prefix already cached is pointed at this copy.  *)
HashBlocks(bm, seq, num_computed_tokens) ==
    LET end    == Min({num_computed_tokens, NumTokens(seq)}) \div BlockSize
        new    == (seq.num_published_blocks + 1)..end
        Index(h) == Len(h) \div BlockSize
        hashes == {BlockHash(seq.token_ids, i) : i \in new}
        newOf(b) == {i \in new : seq.block_table[i] = b}
    IN  IF ~EnablePrefixCaching THEN [bm |-> bm, seq |-> seq]
        ELSE [bm  |-> [bm EXCEPT
                         !.hash = [b \in Blocks |->
                                     IF newOf(b) = {} THEN @[b]
                                     ELSE BlockHash(seq.token_ids, Max(newOf(b)))],
                         !.hash_to_block_id =
                            [h \in DOMAIN @ \cup hashes |->
                                IF h \in hashes THEN seq.block_table[Index(h)] ELSE @[h]]],
              seq |-> [seq EXCEPT !.num_published_blocks = Max({@, end})]]

-----------------------------------------------------------------------------
(* The cache memory the runner writes, at the slots prepare_batch computes *)
(* from a block table. A slot holds the prefix its key and value are for.  *)
Unwritten == << >>

InitMemory == [b \in Blocks |-> [i \in 1..BlockSize |-> Unwritten]]

(* The slot of token position p, counted from 1. *)
SlotBlock(block_table, p) == block_table[((p - 1) \div BlockSize) + 1]
SlotIndex(p) == ((p - 1) % BlockSize) + 1
HasSlot(block_table, p) == p <= Len(block_table) * BlockSize

(* Positions first..last are computed with the tokens; those past the end  *)
(* of tokens are drafts that turned out wrong.                             *)
WriteSlots(mem, block_table, tokens, first, last) ==
    [b \in Blocks |-> [i \in 1..BlockSize |->
        LET here == {p \in first..last :
                        /\ HasSlot(block_table, p)
                        /\ SlotBlock(block_table, p) = b
                        /\ SlotIndex(p) = i}
        IN  IF here = {} THEN mem[b][i]
            ELSE IF Max(here) > Len(tokens) THEN Unwritten
            ELSE SubSeq(tokens, 1, Max(here))]]
=============================================================================
