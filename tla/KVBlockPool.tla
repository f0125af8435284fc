---------------------------- MODULE KVBlockPool -----------------------------
(***************************************************************************)
(* What engine/block_manager.py promises, without the order of the free    *)
(* queue: blocks are taken, shared through the prefix cache, published and *)
(* given back. Which free blocks a sequence gets is left open.             *)
(***************************************************************************)
EXTENDS Integers, FiniteSets

CONSTANTS
    Blocks,     \* the KV-cache blocks
    Seqs,       \* the sequences that may hold blocks
    Hashes,     \* token prefixes ending at a block boundary: the chained hashes
    None        \* no prefix, no block

PoolAssumption ==
    /\ IsFiniteSet(Seqs)
    /\ None \notin Blocks
    /\ None \notin Hashes

ASSUME PoolAssumption

VARIABLES
    holds,      \* the blocks in each sequence's block_table
    ref_count,  \* Block.ref_count
    used,       \* used_block_ids; every other block is free
    label,      \* Block.hash: the prefix whose KV the block was published with
    index       \* hash_to_block_id

vars == <<holds, ref_count, used, label, index>>

-----------------------------------------------------------------------------
Init ==
    /\ holds = [s \in Seqs |-> {}]
    /\ ref_count = [b \in Blocks |-> 0]
    /\ used = {}
    /\ label = [b \in Blocks |-> None]
    /\ index = [p \in Hashes |-> None]

(* Fault: the cache entry of a block that is handed out stays. *)
ResetKeepsIndex(F) ==
    /\ label' = [b \in Blocks |-> IF b \in F THEN None ELSE label[b]]
    /\ UNCHANGED index

(* _allocate_block on each block of F: its cache entry goes, if it is the  *)
(* one the cache points at, and the block is reset.                        *)
Reset(F) ==
    /\ label' = [b \in Blocks |-> IF b \in F THEN None ELSE label[b]]
    /\ index' = [p \in Hashes |->
                   IF index[p] \in F /\ label[index[p]] = p THEN None ELSE index[p]]

(* Fault: a hit that is in use already is not counted again. *)
AllocateUncounted(s, hits, F) ==
    /\ holds[s] = {}
    /\ \A b \in hits : \E p \in Hashes : index[p] = b
    /\ F \cap (used \cup hits) = {}
    /\ holds' = [holds EXCEPT ![s] = hits \cup F]
    /\ ref_count' = [b \in Blocks |-> IF b \in hits \cup F THEN 1 ELSE ref_count[b]]
    /\ used' = used \cup hits \cup F
    /\ Reset(F)

(* allocate: the cached blocks in hits, in use or free, and fresh free     *)
(* blocks F.                                                               *)
Allocate(s, hits, F) ==
    /\ holds[s] = {}
    /\ \A b \in hits : \E p \in Hashes : index[p] = b
    /\ F \cap (used \cup hits) = {}
    /\ holds' = [holds EXCEPT ![s] = hits \cup F]
    /\ ref_count' = [b \in Blocks |->
                       IF b \in F THEN 1
                       ELSE IF b \notin hits THEN ref_count[b]
                       ELSE IF b \in used THEN ref_count[b] + 1 ELSE 1]
    /\ used' = used \cup hits \cup F
    /\ Reset(F)

(* Fault: the free queue hands out a block that is in use. *)
MayAppendInUse(s, F) ==
    /\ holds' = [holds EXCEPT ![s] = @ \cup F]
    /\ ref_count' = [b \in Blocks |-> IF b \in F THEN 1 ELSE ref_count[b]]
    /\ used' = used \cup F
    /\ Reset(F)

(* may_append: more free blocks for a sequence that holds some. *)
MayAppend(s, F) ==
    /\ F \cap used = {}
    /\ holds' = [holds EXCEPT ![s] = @ \cup F]
    /\ ref_count' = [b \in Blocks |-> IF b \in F THEN 1 ELSE ref_count[b]]
    /\ used' = used \cup F
    /\ Reset(F)

(* Fault: the block table is not cleared, so its blocks are freed twice. *)
DeallocateKeepsTable(s) ==
    /\ ref_count' = [b \in Blocks |->
                       IF b \in holds[s] THEN ref_count[b] - 1 ELSE ref_count[b]]
    /\ used' = used \ {b \in holds[s] : ref_count[b] = 1}
    /\ UNCHANGED <<holds, label, index>>

(* deallocate: a block is free again when its last reference goes; its     *)
(* label and cache entry stay until it is handed out.                      *)
Deallocate(s) ==
    /\ holds' = [holds EXCEPT ![s] = {}]
    /\ ref_count' = [b \in Blocks |->
                       IF b \in holds[s] THEN ref_count[b] - 1 ELSE ref_count[b]]
    /\ used' = used \ {b \in holds[s] : ref_count[b] = 1}
    /\ UNCHANGED <<label, index>>

(* Fault: a shared block, published already, is published again. *)
HashBlocksAgain(s, B, g) ==
    /\ label' = [b \in Blocks |-> IF b \in B THEN g[b] ELSE label[b]]
    /\ UNCHANGED <<holds, ref_count, used, index>>

(* hash_blocks: some unpublished blocks of s get the prefixes that g gives *)
(* them, and the cache is pointed at them, whatever it pointed at before.  *)
HashBlocks(s, B, g) ==
    /\ \A b \in B : label[b] = None
    /\ \A b, c \in B : g[b] = g[c] => b = c
    /\ label' = [b \in Blocks |-> IF b \in B THEN g[b] ELSE label[b]]
    /\ index' = [p \in Hashes |->
                   IF \E b \in B : g[b] = p THEN CHOOSE b \in B : g[b] = p
                   ELSE index[p]]
    /\ UNCHANGED <<holds, ref_count, used>>

Next ==
    \E s \in Seqs :
        \/ \E hits, F \in SUBSET Blocks : Allocate(s, hits, F)
        \/ \E F \in SUBSET Blocks : MayAppend(s, F)
        \/ Deallocate(s)
        \/ \E B \in SUBSET holds[s] : \E g \in [B -> Hashes] : HashBlocks(s, B, g)

Spec == Init /\ [][Next]_vars

-----------------------------------------------------------------------------
Holders(b) == {s \in Seqs : b \in holds[s]}

TypeOK ==
    /\ holds \in [Seqs -> SUBSET Blocks]
    /\ ref_count \in [Blocks -> Nat]
    /\ used \in SUBSET Blocks
    /\ label \in [Blocks -> Hashes \cup {None}]
    /\ index \in [Hashes -> Blocks \cup {None}]

(* A block's ref_count is the number of block tables it is in, so a block  *)
(* returns to the free queue exactly when nobody holds it: no early free   *)
(* of a shared prefix block, no leak.                                      *)
RefCountsHolders ==
    \A b \in Blocks :
        /\ ref_count[b] = Cardinality(Holders(b))
        /\ b \in used <=> Holders(b) # {}

(* The prefix cache points only at a block whose KV was published under    *)
(* that very prefix, never at a block that was since handed out again.     *)
IndexSound ==
    \A p \in Hashes : index[p] # None => label[index[p]] = p

(* Two sequences share a block only once it is published, hence full and   *)
(* no longer written: no sequence computes into another one's block.       *)
SharedIsPublished ==
    \A b \in Blocks : \A s, t \in Holders(b) : s # t => label[b] # None

(* What a block was published with stays while anybody holds it, even      *)
(* while its holders change.                                               *)
LabelsStable ==
    [][\A b \in Blocks :
         (label[b] # None /\ b \in used /\ Holders(b)' # {}) => label'[b] = label[b]]_vars
=============================================================================
