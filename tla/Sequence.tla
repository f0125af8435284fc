------------------------------ MODULE Sequence ------------------------------
(***************************************************************************)
(* engine/sequence.py: one request's tokens and counters.                  *)
(*                                                                         *)
(* A sequence is a record. Fields the class derives from others            *)
(* (num_tokens, last_token, block_hashes) are operators here. A chained    *)
(* block hash is modelled by what the chain stands for, the token prefix   *)
(* up to the end of its block: the hash is taken to be injective.          *)
(***************************************************************************)
EXTENDS Integers, Sequences, FiniteSetsExt

CONSTANTS
    BlockSize,              \* kvcache_block_size
    EnablePrefixCaching     \* enable_prefix_caching

ASSUME BlockSizeAssumption == BlockSize \in Nat \ {0}
ASSUME PrefixCachingAssumption == EnablePrefixCaching \in BOOLEAN

Status == {"WAITING", "WAITING_FOR_REMOTE_KVS", "RUNNING", "FINISHED"}

NoReason == "none"

NoTransfer == [do_remote_prefill |-> FALSE, do_remote_decode |-> FALSE]

(* arrival orders the requests; params are the request's transfer flags. *)
NewSequence(prompt, arrival, params) ==
    [status               |-> "WAITING",
     token_ids            |-> prompt,
     num_prompt_tokens    |-> Len(prompt),
     num_cached_tokens    |-> 0,
     num_pending_tokens   |-> 0,
     num_published_blocks |-> 0,
     num_scheduled_tokens |-> 0,
     num_new_tokens       |-> 0,
     num_spec_tokens      |-> 0,    \* len(spec_token_ids)
     is_prefill           |-> TRUE,
     block_table          |-> << >>,
     finish_reason        |-> NoReason,
     num_preemptions      |-> 0,
     arrival              |-> arrival,
     do_remote_prefill    |-> params.do_remote_prefill,  \* kv_transfer_params
     do_remote_decode     |-> params.do_remote_decode]

-----------------------------------------------------------------------------
CeilDiv(n, d) == (n + d - 1) \div d

NumTokens(seq) == Len(seq.token_ids)

IsFinished(seq) == seq.status = "FINISHED"

NumCompletionTokens(seq) == NumTokens(seq) - seq.num_prompt_tokens

(* Committed and reserved tokens: what block allocation must cover. *)
NumPlannedTokens(seq) == NumTokens(seq) + seq.num_pending_tokens

NumSeqBlocks(seq) == CeilDiv(NumPlannedTokens(seq), BlockSize)

(* The hash chain of the first i blocks of a token list. *)
BlockHash(token_ids, i) == SubSeq(token_ids, 1, i * BlockSize)

(* The tokens of the last block under a hash. *)
HashedBlock(h) == SubSeq(h, Len(h) - BlockSize + 1, Len(h))

(* seq.block(i), with i counted from 1; the last one may be short. *)
SeqBlock(seq, i) ==
    SubSeq(seq.token_ids, (i - 1) * BlockSize + 1,
           Min({i * BlockSize, NumTokens(seq)}))

(* block_hashes: one per full block of committed tokens. *)
BlockHashes(seq) ==
    IF EnablePrefixCaching
    THEN [i \in 1..(NumTokens(seq) \div BlockSize) |-> BlockHash(seq.token_ids, i)]
    ELSE << >>

-----------------------------------------------------------------------------
ReserveToken(seq, n) == [seq EXCEPT !.num_pending_tokens = @ + n]

CommitToken(seq, token) ==
    [seq EXCEPT !.token_ids = Append(@, token), !.num_pending_tokens = @ - 1]

DropPending(seq) == [seq EXCEPT !.num_pending_tokens = 0]
=============================================================================
