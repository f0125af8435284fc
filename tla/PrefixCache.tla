---------------------------- MODULE PrefixCache -----------------------------
(***************************************************************************)
(* The block manager as the scheduler drives it, one call at a time: a     *)
(* sequence is admitted, computes chunks, grows by a token, and gives its  *)
(* blocks back to be admitted again or for good. kv is the cache memory    *)
(* itself: for each slot the token prefix whose key and value it holds.    *)
(***************************************************************************)
EXTENDS BlockManager

CONSTANTS
    Reqs,           \* the sequences
    Prompt,         \* Prompt[r]: a nonempty token list
    MaxLen,         \* bound on a sequence's tokens
    Vocab,          \* tokens a sequence may be extended with
    None            \* the pool's "no prefix, no block"

ASSUME ReqsAssumption ==
    /\ IsFiniteSet(Reqs)
    /\ MaxLen \in Nat
    /\ \A r \in Reqs : Prompt[r] \in Seq(Vocab) /\ Len(Prompt[r]) \in 1..MaxLen

VARIABLES
    bm,     \* the block manager
    seq,    \* the Sequence of each request
    kv      \* kv[b][i]: what slot i of block b holds; << >> is nothing

vars == <<bm, seq, kv>>

Init ==
    /\ bm = InitBlockManager
    /\ seq = [r \in Reqs |-> NewSequence(Prompt[r], 0, NoTransfer)]
    /\ kv = InitMemory

-----------------------------------------------------------------------------
Holding(r) == seq[r].block_table # << >>

(* Scheduler._admit, for a request whose lookahead is 0. *)
Admit(r) ==
    LET n == CanAllocate(bm, seq[r], 0)
        a == Allocate(bm, seq[r], n, 0)
    IN  /\ ~Holding(r)
        /\ n # -1
        /\ bm' = a.bm
        /\ seq' = [seq EXCEPT ![r] = a.seq]
        /\ UNCHANGED kv

(* One step computes the next n tokens of r; advance() then publishes. *)
Compute(r, n) ==
    LET s == [seq[r] EXCEPT !.num_cached_tokens = @ + n]
        h == HashBlocks(bm, s, s.num_cached_tokens)
    IN  /\ Holding(r)
        /\ s.num_cached_tokens <= NumTokens(s)
        /\ kv' = WriteSlots(kv, s.block_table, s.token_ids,
                            seq[r].num_cached_tokens + 1, s.num_cached_tokens)
        /\ bm' = h.bm
        /\ seq' = [seq EXCEPT ![r] = h.seq]

(* A sampled token is committed and the cache grows for it. *)
Grow(r, token) ==
    LET s == CommitToken(ReserveToken(seq[r], 1), token)
        m == MayAppend(bm, s, 0)
    IN  /\ Holding(r)
        /\ seq[r].num_cached_tokens = NumTokens(seq[r])
        /\ NumTokens(seq[r]) < MaxLen
        /\ CanAppend(bm, s, 0)
        /\ bm' = m.bm
        /\ seq' = [seq EXCEPT ![r] = m.seq]
        /\ UNCHANGED kv

(* Preemption or the end of a request: every block is given back. *)
Release(r) ==
    LET d == Deallocate(bm, seq[r])
    IN  /\ Holding(r)
        /\ bm' = d.bm
        /\ seq' = [seq EXCEPT ![r] = d.seq]
        /\ UNCHANGED kv

Next ==
    \E r \in Reqs :
        \/ Admit(r)
        \/ \E n \in 1..MaxLen : Compute(r, n)
        \/ \E token \in Vocab : Grow(r, token)
        \/ Release(r)

Spec == Init /\ [][Next]_vars

-----------------------------------------------------------------------------
(* popleft never finds the queue empty, a free hit is in the queue when    *)
(* remove takes it out, and no reference count is wrong when allocate,     *)
(* may_append and deallocate assert it: can_allocate's count of held hits  *)
(* and of the given-back last hit is exact enough.                         *)
AssertionsHold == bm.asserts

(* A cache entry leads to a block that holds, slot for slot, its prefix. *)
CacheHoldsPrefix ==
    \A h \in DOMAIN bm.hash_to_block_id : \A i \in 1..BlockSize :
        kv[bm.hash_to_block_id[h]][i] = SubSeq(h, 1, Len(h) - BlockSize + i)

-----------------------------------------------------------------------------
(* The full-block prefixes some sequence can come to have. *)
PoolPrefixes ==
    {p \in UNION {[1..(i * BlockSize) -> Vocab] : i \in 1..(MaxLen \div BlockSize)} :
        \E r \in Reqs : IsPrefix(p, Prompt[r]) \/ IsPrefix(Prompt[r], p)}

ASSUME NoneAssumption == None \notin Blocks /\ None \notin PoolPrefixes

Pool == INSTANCE KVBlockPool WITH
    Seqs      <- Reqs,
    Hashes    <- PoolPrefixes,
    holds     <- [r \in Reqs |-> ToSet(seq[r].block_table)],
    ref_count <- bm.ref_count,
    used      <- bm.used,
    label     <- [b \in Blocks |-> IF bm.hash[b] = NoHash THEN None ELSE bm.hash[b]],
    index     <- [p \in PoolPrefixes |->
                    IF p \in DOMAIN bm.hash_to_block_id
                    THEN bm.hash_to_block_id[p] ELSE None]

(* The block manager implements the abstract pool. *)
PoolSpec == Pool!Spec
=============================================================================
