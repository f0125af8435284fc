-------------------------- MODULE LLMEngine_proofs --------------------------
(***************************************************************************)
(* The life of a request in the engine, for any requests, cache, limits,   *)
(* policy and interleaving: it is in one queue, its client gets what was   *)
(* committed and one last output, and no token is taken back; what is      *)
(* reserved for it is what its row in flight may commit, and no batch      *)
(* exceeds its limits.                                                     *)
(*                                                                         *)
(* The inductive invariant, LifeInv, says that the scheduler is settled    *)
(* (every request is where its status says, no queue repeats one, arrival  *)
(* numbers differ), that tracked ids differ, that every row in flight is   *)
(* void or of a running sequence with the row's count of preemptions, and  *)
(* that every client was told what its sequence says. The rows are needed  *)
(* because a step commits tokens to sequences which a later launch, an     *)
(* abort or a preemption may have moved since; the arrivals because the    *)
(* priority policy picks victims and sorts by them.                        *)
(*                                                                         *)
(* The methods of the scheduler are loops over records, so each is proved  *)
(* as a Hoare triple: Loops!LoopInvariant for the loop, one lemma for its  *)
(* body. Good relates the state a launch began with to any state within    *)
(* it: the queues are settled, but for those a loop has in hand, and every *)
(* life took only the steps a launch may take.                             *)
(*                                                                         *)
(* The counters come second, with CountInv: it needs LifeInv, and for each *)
(* loop a lemma more (Kept, Tallied, Owing).                               *)
(***************************************************************************)
EXTENDS LLMEngine, BlockManager_proofs

(* A member removed.                                                       *)
LEMMA QueueWithout ==
    ASSUME NEW S, NEW q, Queue(q, S), NEW r
    PROVE  Queue(Without(q, r), S) /\ ToSet(Without(q, r)) = ToSet(q) \ {r}
  <1>1. q \in Seq(S) /\ Injective(q)
    BY DEF Queue
  <1> DEFINE T == ToSet(q) \ {r}
  <1> HIDE DEF T
  <1>2. /\ Keep(q, T) \in Seq(S) /\ ToSet(Keep(q, T)) = ToSet(q) \cap T
        /\ Injective(q) => Injective(Keep(q, T))
    BY <1>1, KeepProperties
  <1>3. Without(q, r) = Keep(q, T)
    BY DEF Without, T
  <1>4. ToSet(q) \cap T = ToSet(q) \ {r}
    BY DEF T
  <1> QED
    BY <1>1, <1>2, <1>3, <1>4 DEF Queue

-----------------------------------------------------------------------------
(* A sequence as the life of its request sees it. *)
SeqFields ==
    {"status", "token_ids", "num_prompt_tokens", "num_cached_tokens", "num_pending_tokens",
     "num_published_blocks", "num_scheduled_tokens", "num_new_tokens", "num_spec_tokens",
     "is_prefill", "block_table", "finish_reason", "num_preemptions", "arrival",
     "do_remote_prefill", "do_remote_decode"}

IsSeq(s) ==
    /\ DOMAIN s = SeqFields
    /\ s.status \in Status
    /\ s.token_ids \in Seq(Vocab)
    /\ s.num_prompt_tokens \in Nat
    /\ s.num_new_tokens \in Nat
    /\ s.num_preemptions \in Nat
    /\ s.arrival \in Nat

(* What no step of the scheduler but a commit changes. *)
SameTokens(s, t) ==
    /\ IsSeq(t)
    /\ t.token_ids = s.token_ids
    /\ t.num_prompt_tokens = s.num_prompt_tokens
    /\ t.num_new_tokens = s.num_new_tokens
    /\ t.arrival = s.arrival

(* Blocks, plans and caches change, the life of the request does not. *)
SameLife(s, t) ==
    /\ SameTokens(s, t)
    /\ t.status = s.status
    /\ t.finish_reason = s.finish_reason
    /\ t.num_preemptions = s.num_preemptions

(* What a launch may do to a request: preempt it, start it, drop it. *)
LifeStep(s, t) ==
    /\ SameTokens(s, t)
    /\ t.num_preemptions >= s.num_preemptions
    /\ IsFinished(s) => IsFinished(t) /\ t.finish_reason = s.finish_reason
    /\ ~IsFinished(t) => t.finish_reason = s.finish_reason
    /\ IsFinished(t) /\ ~IsFinished(s) => t.finish_reason = "capacity"
    /\ s.status = "RUNNING" /\ t.num_preemptions = s.num_preemptions /\ ~IsFinished(t)
         => t.status = "RUNNING"

(* The same life is a possible step of it.                                 *)
LEMMA SameLifeIsStep ==
    ASSUME NEW s, NEW t, IsSeq(s), SameLife(s, t)
    PROVE  LifeStep(s, t)
  BY DEF SameLife, SameTokens, LifeStep, IsSeq, IsFinished

(* Same lives compose.                                                     *)
LEMMA SameLifeTrans ==
    ASSUME NEW s, NEW t, NEW u, SameLife(s, t), SameLife(t, u)
    PROVE  SameLife(s, u)
  BY DEF SameLife, SameTokens

(* Steps of a life compose.                                                *)
LEMMA LifeStepTrans ==
    ASSUME NEW s, NEW t, NEW u, IsSeq(s), LifeStep(s, t), LifeStep(t, u)
    PROVE  LifeStep(s, u)
  BY DEF LifeStep, SameTokens, IsSeq, IsFinished

(* deallocate leaves the life of a request alone.                          *)
LEMMA DeallocateLife ==
    ASSUME NEW bm, NEW s, IsSeq(s)
    PROVE  SameLife(s, Deallocate(bm, s).seq)
  BY DEF Deallocate, SameLife, SameTokens, IsSeq, SeqFields

(* So does allocate.                                                       *)
LEMMA AllocateLife ==
    ASSUME NEW bm, NEW s, IsSeq(s), NEW n, NEW k
    PROVE  SameLife(s, Allocate(bm, s, n, k).seq)
  <1> DEFINE hit   == TakeHits(bm, s, n)
             fresh == NumBlocksFor(s, k) - n
             table == [i \in 1..n |-> HitBlock(bm, s, i)]
  <1>1. Allocate(bm, s, n, k).seq =
          IF s.block_table # << >> \/ NumFree(hit) < fresh THEN s
          ELSE [s EXCEPT !.block_table          = table \o SubSeq(hit.free, 1, fresh),
                         !.num_cached_tokens    = n * BlockSize,
                         !.num_published_blocks = n]
    BY DEF Allocate
  <1> HIDE DEF hit, fresh, table
  <1> QED
    BY <1>1 DEF SameLife, SameTokens, IsSeq, SeqFields

(* So does may_append.                                                     *)
LEMMA MayAppendLife ==
    ASSUME NEW bm, NEW s, IsSeq(s), NEW k
    PROVE  SameLife(s, MayAppend(bm, s, k).seq)
  <1> DEFINE n == NumMissingBlocks(s, k)
  <1>1. MayAppend(bm, s, k).seq =
          IF NumFree(bm) < n THEN s
          ELSE [s EXCEPT !.block_table = @ \o SubSeq(bm.free, 1, n)]
    BY DEF MayAppend
  <1> HIDE DEF n
  <1> QED
    BY <1>1 DEF SameLife, SameTokens, IsSeq, SeqFields

(* So does hash_blocks.                                                    *)
LEMMA HashBlocksLife ==
    ASSUME NEW bm, NEW s, IsSeq(s), NEW k
    PROVE  SameLife(s, HashBlocks(bm, s, k).seq)
  <1> DEFINE end == Min({k, NumTokens(s)}) \div BlockSize
  <1>1. HashBlocks(bm, s, k).seq =
          IF ~EnablePrefixCaching THEN s
          ELSE [s EXCEPT !.num_published_blocks = Max({@, end})]
    BY DEF HashBlocks
  <1> HIDE DEF end
  <1> QED
    BY <1>1 DEF SameLife, SameTokens, IsSeq, SeqFields

-----------------------------------------------------------------------------
(* The scheduler between and within its methods. *)
SchedFields == {"waiting", "running", "recving", "sending", "live", "seq", "bm", "loads", "sends"}

Tracked(st) == st.live \cup st.recving \cup st.sending

Shape(st) ==
    /\ DOMAIN st = SchedFields
    /\ DOMAIN st.seq \subseteq Reqs
    /\ \A r \in DOMAIN st.seq : IsSeq(st.seq[r]) /\ st.seq[r].arrival <= Cardinality(DOMAIN st.seq)
    /\ \A r, q \in DOMAIN st.seq : st.seq[r].arrival = st.seq[q].arrival => r = q
    /\ Queue(st.waiting, DOMAIN st.seq)
    /\ Queue(st.running, DOMAIN st.seq)
    /\ Tracked(st) \subseteq DOMAIN st.seq

(* Every request is where its status says; run are the running ones, some  *)
(* of which the loop of schedule() has taken out of the deque.             *)
Placed(st, run) ==
    \A r \in DOMAIN st.seq :
        /\ r \in ToSet(st.waiting) <=> st.seq[r].status = "WAITING"
        /\ r \in run <=> st.seq[r].status = "RUNNING"
        /\ r \in st.recving /\ r \in st.live <=> st.seq[r].status = "WAITING_FOR_REMOTE_KVS"
        /\ r \in st.live <=> st.seq[r].status # "FINISHED"

(* From st0 to st every life took steps of a launch; dropped are the       *)
(* requests it ended.                                                      *)
Evolves(st0, st, dropped) ==
    /\ DOMAIN st.seq = DOMAIN st0.seq
    /\ Tracked(st) \subseteq Tracked(st0)
    /\ \A r \in DOMAIN st0.seq :
        /\ LifeStep(st0.seq[r], st.seq[r])
        /\ r \in dropped <=> IsFinished(st.seq[r]) /\ ~IsFinished(st0.seq[r])

Good(st0, st, run, dropped) ==
    /\ Shape(st0) /\ Shape(st)
    /\ Placed(st, run)
    /\ Evolves(st0, st, dropped)

(* x is st with another sequence for r, moved to where its status says. *)
Moves(st, x, r, run, run2) ==
    /\ DOMAIN x = SchedFields
    /\ DOMAIN x.seq = DOMAIN st.seq
    /\ \A q \in DOMAIN st.seq : q # r => x.seq[q] = st.seq[q]
    /\ LifeStep(st.seq[r], x.seq[r])
    /\ Queue(x.waiting, DOMAIN st.seq) /\ Queue(x.running, DOMAIN st.seq)
    /\ Tracked(x) \subseteq Tracked(st)
    /\ ToSet(x.waiting) \ {r} = ToSet(st.waiting) \ {r}
    /\ run2 \ {r} = run \ {r}
    /\ x.live \ {r} = st.live \ {r}
    /\ x.recving \ {r} = st.recving \ {r}
    /\ r \in ToSet(x.waiting) <=> x.seq[r].status = "WAITING"
    /\ r \in run2 <=> x.seq[r].status = "RUNNING"
    /\ r \in x.recving /\ r \in x.live <=> x.seq[r].status = "WAITING_FOR_REMOTE_KVS"
    /\ r \in x.live <=> x.seq[r].status # "FINISHED"

(* A move keeps the scheduler in order.                                    *)
LEMMA GoodMove ==
    ASSUME NEW st0, NEW st, NEW x, NEW run, NEW run2, NEW D, NEW D2, NEW r \in DOMAIN st.seq,
           Good(st0, st, run, D), Moves(st, x, r, run, run2),
           D2 = IF IsFinished(x.seq[r]) /\ ~IsFinished(st.seq[r]) THEN D \cup {r} ELSE D
    PROVE  Good(st0, x, run2, D2)
  <1>1. Shape(x)
    <2>1. \A q \in DOMAIN st.seq : IsSeq(x.seq[q]) /\ x.seq[q].arrival = st.seq[q].arrival
      BY DEF Good, Shape, Moves, LifeStep, SameTokens
    <2>2. DOMAIN x.seq = DOMAIN st.seq /\ Tracked(x) \subseteq DOMAIN st.seq
      BY DEF Good, Shape, Moves
    <2>3. /\ DOMAIN x = SchedFields
          /\ Queue(x.waiting, DOMAIN st.seq) /\ Queue(x.running, DOMAIN st.seq)
      BY DEF Moves
    <2> QED
      BY <2>1, <2>2, <2>3 DEF Good, Shape
  <1>2. Placed(x, run2)
    <2> SUFFICES ASSUME NEW q \in DOMAIN st.seq
                 PROVE  /\ q \in ToSet(x.waiting) <=> x.seq[q].status = "WAITING"
                        /\ q \in run2 <=> x.seq[q].status = "RUNNING"
                        /\ q \in x.recving /\ q \in x.live
                             <=> x.seq[q].status = "WAITING_FOR_REMOTE_KVS"
                        /\ q \in x.live <=> x.seq[q].status # "FINISHED"
      BY DEF Placed, Moves
    <2>1. CASE q = r
      BY <2>1 DEF Moves
    <2>2. CASE q # r
      <3>1. /\ x.seq[q] = st.seq[q]
            /\ q \in ToSet(x.waiting) <=> q \in ToSet(st.waiting)
            /\ q \in run2 <=> q \in run
            /\ q \in x.live <=> q \in st.live
            /\ q \in x.recving <=> q \in st.recving
        BY <2>2 DEF Moves
      <3>2. /\ q \in ToSet(st.waiting) <=> st.seq[q].status = "WAITING"
            /\ q \in run <=> st.seq[q].status = "RUNNING"
            /\ q \in st.recving /\ q \in st.live
                 <=> st.seq[q].status = "WAITING_FOR_REMOTE_KVS"
            /\ q \in st.live <=> st.seq[q].status # "FINISHED"
        BY DEF Good, Placed
      <3> QED
        BY <3>1, <3>2
    <2> QED
      BY <2>1, <2>2
  <1>3. Evolves(st0, x, D2)
    <2>1. DOMAIN x.seq = DOMAIN st0.seq /\ DOMAIN st.seq = DOMAIN st0.seq
      BY DEF Good, Evolves, Moves
    <2>2. Tracked(x) \subseteq Tracked(st0)
      BY DEF Good, Evolves, Moves
    <2>3. ASSUME NEW q \in DOMAIN st0.seq
          PROVE  /\ LifeStep(st0.seq[q], x.seq[q])
                 /\ q \in D2 <=> IsFinished(x.seq[q]) /\ ~IsFinished(st0.seq[q])
      <3>1. /\ LifeStep(st0.seq[q], st.seq[q]) /\ IsSeq(st0.seq[q])
            /\ q \in D <=> IsFinished(st.seq[q]) /\ ~IsFinished(st0.seq[q])
        BY DEF Good, Evolves, Shape
      <3>2. CASE q # r
        <4>1. x.seq[q] = st.seq[q]
          BY <2>1, <3>2 DEF Moves
        <4> QED
          BY <3>1, <3>2, <4>1
      <3>3. CASE q = r
        <4>1. LifeStep(st.seq[q], x.seq[q])
          BY <3>3 DEF Moves
        <4>2. LifeStep(st0.seq[q], x.seq[q])
          BY <3>1, <4>1, LifeStepTrans
        <4>3. /\ IsFinished(st0.seq[q]) => IsFinished(st.seq[q])
              /\ IsFinished(st.seq[q]) => IsFinished(x.seq[q])
          BY <3>1, <4>1 DEF LifeStep
        <4> QED
          BY <3>1, <3>3, <4>2, <4>3
      <3> QED
        BY <3>2, <3>3
    <2> QED
      BY <2>1, <2>2, <2>3 DEF Evolves
  <1> QED
    BY <1>1, <1>2, <1>3 DEF Good

(* Nothing moves: x differs from st in blocks and in r's plan only. *)
Touches(st, x, r) ==
    /\ DOMAIN x = SchedFields
    /\ DOMAIN x.seq = DOMAIN st.seq
    /\ \A q \in DOMAIN st.seq : q # r => x.seq[q] = st.seq[q]
    /\ SameLife(st.seq[r], x.seq[r])
    /\ x.waiting = st.waiting /\ x.running = st.running /\ x.live = st.live
    /\ x.recving = st.recving /\ x.sending = st.sending

(* Nothing moved, everything in order as before.                           *)
LEMMA GoodTouch ==
    ASSUME NEW st0, NEW st, NEW x, NEW run, NEW D, NEW r \in DOMAIN st.seq,
           Good(st0, st, run, D), Touches(st, x, r)
    PROVE  Good(st0, x, run, D)
  <1>1. /\ IsSeq(st.seq[r])
        /\ r \in ToSet(st.waiting) <=> st.seq[r].status = "WAITING"
        /\ r \in run <=> st.seq[r].status = "RUNNING"
        /\ r \in st.recving /\ r \in st.live <=> st.seq[r].status = "WAITING_FOR_REMOTE_KVS"
        /\ r \in st.live <=> st.seq[r].status # "FINISHED"
    BY DEF Good, Shape, Placed
  <1>2. LifeStep(st.seq[r], x.seq[r]) /\ x.seq[r].status = st.seq[r].status
    BY <1>1, SameLifeIsStep DEF Touches, SameLife
  <1>3. /\ Queue(x.waiting, DOMAIN st.seq) /\ Queue(x.running, DOMAIN st.seq)
        /\ Tracked(x) = Tracked(st)
    BY DEF Good, Shape, Touches, Tracked
  <1>4. Moves(st, x, r, run, run)
    BY <1>1, <1>2, <1>3 DEF Moves, Touches
  <1>5. ~(IsFinished(x.seq[r]) /\ ~IsFinished(st.seq[r]))
    BY <1>2 DEF IsFinished
  <1> QED
    BY <1>4, <1>5, GoodMove

-----------------------------------------------------------------------------
(* policy.py: urgency orders the requests. *)

(* Lower priority value, then earlier arrival: no two are equally urgent.  *)
LEMMA UrgencyOrders ==
    ASSUME NEW st, Shape(st), NEW a \in DOMAIN st.seq, NEW b \in DOMAIN st.seq
    PROVE  /\ ~MoreUrgent(st.seq, a, a)
           /\ a # b => MoreUrgent(st.seq, a, b) \/ MoreUrgent(st.seq, b, a)
           /\ ~(MoreUrgent(st.seq, a, b) /\ MoreUrgent(st.seq, b, a))
  <1>1. /\ st.seq[a].arrival \in Nat /\ st.seq[b].arrival \in Nat
        /\ st.seq[a].arrival = st.seq[b].arrival => a = b
        /\ Priority[a] \in Int /\ Priority[b] \in Int
    BY SchedulerAssumption DEF Shape, IsSeq
  <1> QED
    BY <1>1 DEF MoreUrgent

(* Urgency is transitive.                                                  *)
LEMMA UrgencyTrans ==
    ASSUME NEW st, Shape(st), NEW a \in DOMAIN st.seq, NEW b \in DOMAIN st.seq,
           NEW c \in DOMAIN st.seq, MoreUrgent(st.seq, a, b), MoreUrgent(st.seq, b, c)
    PROVE  MoreUrgent(st.seq, a, c)
  <1>1. /\ st.seq[a].arrival \in Nat /\ st.seq[b].arrival \in Nat /\ st.seq[c].arrival \in Nat
        /\ Priority[a] \in Int /\ Priority[b] \in Int /\ Priority[c] \in Int
    BY SchedulerAssumption DEF Shape, IsSeq
  <1> QED
    BY <1>1 DEF MoreUrgent

Before(st, T, r) == {q \in T : MoreUrgent(st.seq, q, r)}

(* For every rank below their number, one of the requests has it, and only *)
(* one.                                                                    *)
LEMMA RanksExist ==
    ASSUME NEW st, Shape(st), NEW T, T \subseteq DOMAIN st.seq, IsFiniteSet(T),
           NEW k \in Nat, k < Cardinality(T)
    PROVE  \E r \in T : /\ Cardinality(Before(st, T, r)) = k
                        /\ \A q \in T : Cardinality(Before(st, T, q)) = k => q = r
  <1> DEFINE n == Cardinality(T)
             rank == [r \in T |-> Cardinality(Before(st, T, r))]
  <1>1. n \in Nat
    BY FS_CardinalityType
  <1>2. \A r \in T : /\ IsFiniteSet(Before(st, T, r))
                     /\ Cardinality(Before(st, T, r)) \in Nat
                     /\ Cardinality(Before(st, T, r)) < n
    <2> TAKE r \in T
    <2>1. Before(st, T, r) \subseteq T \ {r}
      BY UrgencyOrders DEF Before
    <2>2. IsFiniteSet(T \ {r}) /\ Cardinality(T \ {r}) = n - 1
      BY FS_RemoveElement
    <2>3. /\ IsFiniteSet(Before(st, T, r))
          /\ Cardinality(Before(st, T, r)) <= Cardinality(T \ {r})
      BY <2>1, <2>2, FS_Subset
    <2>4. Cardinality(Before(st, T, r)) \in Nat
      BY <2>3, FS_CardinalityType
    <2> QED
      BY <1>1, <2>2, <2>3, <2>4
  <1>3. ASSUME NEW a \in T, NEW b \in T, MoreUrgent(st.seq, a, b)
        PROVE  Cardinality(Before(st, T, a)) < Cardinality(Before(st, T, b))
    <2>1. Before(st, T, a) \subseteq Before(st, T, b)
      <3> SUFFICES ASSUME NEW q \in T, MoreUrgent(st.seq, q, a) PROVE MoreUrgent(st.seq, q, b)
        BY DEF Before
      <3> QED
        BY <1>3, UrgencyTrans
    <2>2. a \in Before(st, T, b) /\ a \notin Before(st, T, a)
      BY <1>3, UrgencyOrders DEF Before
    <2>3. /\ Cardinality(Before(st, T, a)) <= Cardinality(Before(st, T, b))
          /\ Cardinality(Before(st, T, b)) # Cardinality(Before(st, T, a))
      BY <1>2, <2>1, <2>2, FS_Subset
    <2> QED
      BY <1>2, <2>3
  <1>4. \A a, b \in T : Cardinality(Before(st, T, a)) = Cardinality(Before(st, T, b)) => a = b
    <2> SUFFICES ASSUME NEW a \in T, NEW b \in T, a # b
                 PROVE  Cardinality(Before(st, T, a)) # Cardinality(Before(st, T, b))
      OBVIOUS
    <2>1. MoreUrgent(st.seq, a, b) \/ MoreUrgent(st.seq, b, a)
      BY UrgencyOrders
    <2> QED
      BY <1>2, <1>3, <2>1
  <1>5. rank \in Injection(T, 0..(n - 1))
    <2>1. rank \in [T -> 0..(n - 1)]
      BY <1>1, <1>2
    <2>2. IsInjective(rank)
      BY <1>4 DEF IsInjective
    <2> QED
      BY <2>1, <2>2 DEF Injection
  <1>6. IsFiniteSet(0..(n - 1)) /\ Cardinality(0..(n - 1)) = n
    <2>1. 0 \in Int /\ n - 1 \in Int /\ (IF 0 > n - 1 THEN 0 ELSE (n - 1) - 0 + 1) = n
      BY <1>1
    <2> QED
      BY <2>1, FS_Interval
  <1> HIDE DEF n
  <1>7. rank \in Surjection(T, 0..(n - 1))
    <2> HIDE DEF rank
    <2>1. Cardinality(T) = Cardinality(0..(n - 1))
      BY <1>6 DEF n
    <2> QED
      BY <1>5, <1>6, <2>1, FS_Injection
  <1>8. k \in 0..(n - 1)
    BY <1>1 DEF n
  <1>9. PICK r \in T : rank[r] = k
    BY <1>7, <1>8 DEF Surjection
  <1> QED
    BY <1>4, <1>9

(* The members of a deque, in the order of urgency.                        *)
LEMMA SortedByUrgency ==
    ASSUME NEW st, Shape(st), SchedulingPolicy # "fcfs"
    PROVE  /\ Queue(ByUrgency(st).running, DOMAIN st.seq)
           /\ ToSet(ByUrgency(st).running) = ToSet(st.running)
  <1> DEFINE T == ToSet(st.running)
             n == Len(st.running)
             At(i) == CHOOSE r \in T : Cardinality(Before(st, T, r)) = i - 1
  <1>1. /\ st.running \in Seq(DOMAIN st.seq) /\ Injective(st.running) /\ n \in Nat
        /\ DOMAIN st = SchedFields
    BY DEF Shape, Queue
  <1>2. IsFiniteSet(T) /\ Cardinality(T) = n
    BY <1>1, LenInjective
  <1>3. T \subseteq DOMAIN st.seq
    BY <1>1 DEF ToSet
  <1>4. ByUrgency(st).running = [i \in 1..n |-> At(i)]
    BY <1>1 DEF ByUrgency, SchedFields, Before
  <1> HIDE DEF T, n
  <1>5. ASSUME NEW i \in 1..n
        PROVE  /\ At(i) \in T
               /\ Cardinality(Before(st, T, At(i))) = i - 1
               /\ \A q \in T : Cardinality(Before(st, T, q)) = i - 1 => q = At(i)
    <2>1. i - 1 \in Nat /\ i - 1 < Cardinality(T)
      BY <1>1, <1>2
    <2>2. PICK k : k = i - 1
      OBVIOUS
    <2>3. \E r \in T : /\ Cardinality(Before(st, T, r)) = k
                       /\ \A q \in T : Cardinality(Before(st, T, q)) = k => q = r
      BY <1>2, <1>3, <2>1, <2>2, RanksExist
    <2> QED
      BY <2>2, <2>3
  <1> HIDE DEF At
  <1>6. \A i, j \in 1..n : At(i) = At(j) => i = j
    <2> SUFFICES ASSUME NEW i \in 1..n, NEW j \in 1..n, At(i) = At(j) PROVE i = j
      OBVIOUS
    <2>1. i - 1 = j - 1
      BY <1>5
    <2> QED
      BY <1>1, <2>1
  <1> DEFINE w == [i \in 1..n |-> At(i)]
  <1>7. w \in Seq(DOMAIN st.seq) /\ Len(w) = n /\ DOMAIN w = 1..n
    BY <1>1, <1>3, <1>5
  <1>8. Injective(w)
    BY <1>6, <1>7 DEF Injective
  <1>9. ToSet(w) \subseteq T
    BY <1>5, <1>7 DEF ToSet
  <1>10. ToSet(w) = T
    <2> HIDE DEF w
    <2>1. IsFiniteSet(ToSet(w)) /\ Cardinality(ToSet(w)) = n
      BY <1>7, <1>8, LenInjective
    <2> QED
      BY <1>2, <1>9, <2>1, FS_Subset
  <1> QED
    BY <1>4, <1>7, <1>8, <1>10 DEF Queue, T

(* The victim is one of the running.                                       *)
LEMMA VictimIsRunning ==
    ASSUME NEW st, Shape(st), st.running # << >>
    PROVE  Victim(st) \in ToSet(st.running)
  <1>1. /\ st.running \in Seq(DOMAIN st.seq) /\ Injective(st.running)
        /\ Len(st.running) \in Nat \ {0} /\ DOMAIN st.running = 1..Len(st.running)
    BY DEF Shape, Queue
  <1>2. CASE SchedulingPolicy = "fcfs"
    BY <1>1, <1>2 DEF Victim, Last, ToSet
  <1>3. CASE SchedulingPolicy # "fcfs"
    <2> DEFINE T == ToSet(st.running)
    <2>1. IsFiniteSet(T) /\ Cardinality(T) = Len(st.running) /\ T \subseteq DOMAIN st.seq
      <3>1. IsFiniteSet(T) /\ Cardinality(T) = Len(st.running)
        BY <1>1, LenInjective
      <3>2. T \subseteq DOMAIN st.seq
        BY <1>1 DEF ToSet
      <3> QED
        BY <3>1, <3>2
    <2> HIDE DEF T
    <2>2. PICK k : k = Len(st.running) - 1
      OBVIOUS
    <2>3. k \in Nat /\ k < Cardinality(T)
      BY <1>1, <2>1, <2>2
    <2>4. PICK r \in T : Cardinality(Before(st, T, r)) = k
      BY <2>1, <2>3, RanksExist
    <2>5. Before(st, T, r) \subseteq T \ {r}
      BY <2>1, UrgencyOrders DEF Before
    <2>6. IsFiniteSet(T \ {r}) /\ Cardinality(T \ {r}) = Cardinality(T) - 1
      BY <2>1, FS_RemoveElement
    <2>7. Cardinality(T \ {r}) = Cardinality(Before(st, T, r))
      BY <1>1, <2>1, <2>2, <2>4, <2>6
    <2>8. Before(st, T, r) = T \ {r}
      BY <2>5, <2>6, <2>7, FS_Subset
    <2>9. \A q \in T : q = r \/ MoreUrgent(st.seq, q, r)
      BY <2>8 DEF Before
    <2>10. Victim(st) = CHOOSE x \in T : \A q \in T : q = x \/ MoreUrgent(st.seq, q, x)
      BY <1>3 DEF Victim, T
    <2> QED
      BY <2>9, <2>10 DEF T
  <1> QED
    BY <1>2, <1>3

-----------------------------------------------------------------------------
(* The scheduler's methods, one at a time. *)

(* New blocks and a new plan for r move nothing.                           *)
LEMMA WithBlocksTouches ==
    ASSUME NEW st, Shape(st), NEW r \in DOMAIN st.seq, NEW result,
           SameLife(st.seq[r], result.seq)
    PROVE  Touches(st, WithBlocks(st, r, result), r)
  BY DEF Shape, WithBlocks, Touches, SchedFields

(* Nor does a new sequence with the same life.                             *)
LEMMA NewPlanTouches ==
    ASSUME NEW st, Shape(st), NEW r \in DOMAIN st.seq, NEW t, SameLife(st.seq[r], t)
    PROVE  Touches(st, [st EXCEPT !.seq[r] = t], r)
  BY DEF Shape, Touches, SchedFields

(* Releasing the blocks of r moves nothing.                                *)
LEMMA ReleaseTouches ==
    ASSUME NEW st, Shape(st), NEW r \in DOMAIN st.seq
    PROVE  Touches(st, ReleaseBlocks(st, r), r)
  <1>1. IsSeq(st.seq[r])
    BY DEF Shape
  <1>2. PICK result : result = Deallocate(st.bm, st.seq[r])
    OBVIOUS
  <1>3. SameLife(st.seq[r], result.seq)
    BY <1>1, <1>2, DeallocateLife
  <1>4. Touches(st, WithBlocks(st, r, result), r)
    BY <1>3, WithBlocksTouches
  <1> QED
    BY <1>2, <1>4 DEF ReleaseBlocks

OutFields == {"scheduled", "preempted", "dropped", "budget"}

(* The output of a step that is being planned. *)
Planned(out, S) ==
    /\ DOMAIN out = OutFields
    /\ Queue(out.scheduled, S)
    /\ List(out.dropped, S)

(* A row for r: a plan, and r at the end of the list.                      *)
LEMMA RowTouches ==
    ASSUME NEW st, Shape(st), NEW r \in DOMAIN st.seq, NEW out, DOMAIN out = OutFields
    PROVE  LET row == ScheduleRow(st, out, r)
           IN  /\ Touches(st, row.st, r)
               /\ DOMAIN row.out = OutFields
               /\ row.out.scheduled = Append(out.scheduled, r)
               /\ row.out.dropped = out.dropped
               /\ row.out.preempted = out.preempted
  <1> DEFINE s == st.seq[r]
             chunk == Min({NumTokens(s) - s.num_cached_tokens, out.budget})
             capped == IF EnableChunkedPrefill /\ LongPrefillTokenThreshold > 0
                       THEN Min({chunk, LongPrefillTokenThreshold}) ELSE chunk
             n == IF s.is_prefill THEN capped ELSE 1 + s.num_spec_tokens
  <1>1. /\ ScheduleRow(st, out, r).st = [st EXCEPT !.seq[r].num_scheduled_tokens = n]
        /\ ScheduleRow(st, out, r).out =
             [out EXCEPT !.scheduled = Append(@, r), !.budget = @ - n]
    BY DEF ScheduleRow
  <1> HIDE DEF n
  <1>2. Touches(st, [st EXCEPT !.seq[r].num_scheduled_tokens = n], r)
    BY DEF Shape, Touches, SameLife, SameTokens, IsSeq, SeqFields, SchedFields
  <1>3. LET o == [out EXCEPT !.scheduled = Append(@, r), !.budget = @ - n]
        IN  /\ DOMAIN o = OutFields /\ o.scheduled = Append(out.scheduled, r)
            /\ o.dropped = out.dropped /\ o.preempted = out.preempted
    BY DEF OutFields
  <1> QED
    BY <1>1, <1>2, <1>3

(* How a request enters the waiting queue.                                 *)
LEMMA PushWaits ==
    ASSUME NEW st, DOMAIN st = SchedFields, NEW S, Queue(st.waiting, S), NEW r \in S,
           r \notin ToSet(st.waiting)
    PROVE  LET x == PolicyPush(st, r)
           IN  /\ DOMAIN x = SchedFields
               /\ Queue(x.waiting, S) /\ ToSet(x.waiting) = ToSet(st.waiting) \cup {r}
               /\ x.running = st.running /\ x.live = st.live /\ x.seq = st.seq
               /\ x.recving = st.recving /\ x.sending = st.sending
  <1> DEFINE before == {i \in 1..Len(st.waiting) : MoreUrgent(st.seq, st.waiting[i], r)}
             k == Cardinality(before)
  <1>1. Len(st.waiting) \in Nat
    BY DEF Queue
  <1>2. k \in 0..Len(st.waiting)
    <2>1. IsFiniteSet(1..Len(st.waiting)) /\ Cardinality(1..Len(st.waiting)) = Len(st.waiting)
      <3>1. /\ 1 \in Int /\ Len(st.waiting) \in Int
            /\ (IF 1 > Len(st.waiting) THEN 0 ELSE Len(st.waiting) - 1 + 1) = Len(st.waiting)
        BY <1>1
      <3> QED
        BY <3>1, FS_Interval
    <2>2. before \subseteq 1..Len(st.waiting)
      OBVIOUS
    <2> HIDE DEF before
    <2>3. IsFiniteSet(before) /\ k <= Len(st.waiting)
      BY <2>1, <2>2, FS_Subset
    <2>4. k \in Nat
      BY <2>3, FS_CardinalityType
    <2> QED
      BY <1>1, <2>3, <2>4
  <1>3. PolicyPush(st, r) = [st EXCEPT !.waiting = InsertAt(@, k + 1, r)]
    BY DEF PolicyPush
  <1> HIDE DEF k
  <1>4. PICK w : w = InsertAt(st.waiting, k + 1, r)
    OBVIOUS
  <1>5. Queue(w, S) /\ ToSet(w) = ToSet(st.waiting) \cup {r}
    BY <1>2, <1>4, QueueInsert
  <1>6. PolicyPush(st, r) = [st EXCEPT !.waiting = w]
    BY <1>3, <1>4
  <1> QED
    BY <1>5, <1>6 DEF SchedFields

(* requeue puts r in the waiting queue and does nothing else.              *)
LEMMA RequeueWaits ==
    ASSUME NEW st, DOMAIN st = SchedFields, NEW S, Queue(st.waiting, S), NEW r \in S,
           r \notin ToSet(st.waiting)
    PROVE  LET x == PolicyRequeue(st, r)
           IN  /\ DOMAIN x = SchedFields
               /\ Queue(x.waiting, S) /\ ToSet(x.waiting) = ToSet(st.waiting) \cup {r}
               /\ x.running = st.running /\ x.live = st.live /\ x.seq = st.seq
               /\ x.recving = st.recving /\ x.sending = st.sending
  <1>1. CASE SchedulingPolicy = "fcfs"
    <2>1. PICK one : one = <<r>>
      OBVIOUS
    <2>2. Queue(one, S) /\ ToSet(one) = {r}
      BY <2>1, QueueOne
    <2>3. PICK w : w = one \o st.waiting
      OBVIOUS
    <2>4. Apart(one, st.waiting)
      BY <2>2 DEF Apart
    <2>5. Queue(w, S)
      BY <2>2, <2>3, <2>4, QueueJoin
    <2>6. ToSet(w) = ToSet(one) \cup ToSet(st.waiting)
      BY <2>2, <2>3, JoinMembers
    <2>7. PolicyRequeue(st, r) = [st EXCEPT !.waiting = w]
      BY <1>1, <2>1, <2>3 DEF PolicyRequeue
    <2> QED
      BY <2>2, <2>5, <2>6, <2>7 DEF SchedFields
  <1>2. CASE SchedulingPolicy # "fcfs"
    <2>1. PolicyRequeue(st, r) = PolicyPush(st, r)
      BY <1>2 DEF PolicyRequeue
    <2> QED
      BY <2>1, PushWaits
  <1> QED
    BY <1>1, <1>2

(* _preempt: a running sequence that is out of the deque goes back to the  *)
(* waiting queue.                                                          *)
LEMMA PreemptMoves ==
    ASSUME NEW st0, NEW st, NEW run, NEW D, Good(st0, st, run, D),
           NEW out, DOMAIN out = OutFields, NEW r \in run, r \in DOMAIN st.seq,
           r \notin ToSet(st.running)
    PROVE  LET p == Preempt(st, out, r)
           IN  /\ Good(st0, p.st, run \ {r}, D)
               /\ p.st.running = st.running
               /\ DOMAIN p.out = OutFields
               /\ p.out.scheduled = out.scheduled
               /\ p.out.dropped = out.dropped
  <1> DEFINE s == [DropPending(st.seq[r]) EXCEPT
                     !.status = "WAITING", !.is_prefill = TRUE,
                     !.num_preemptions = @ + 1, !.num_spec_tokens = 0]
             st1 == [st EXCEPT !.seq[r] = s]
             result == Deallocate(st1.bm, st1.seq[r])
             st2 == WithBlocks(st1, r, result)
             x == PolicyRequeue(st2, r)
  <1>1. /\ Shape(st) /\ Placed(st, run) /\ DOMAIN st = SchedFields
        /\ IsSeq(st.seq[r]) /\ st.seq[r].status = "RUNNING"
        /\ r \in st.live /\ r \notin ToSet(st.waiting) /\ r \notin st.recving
    BY DEF Good, Shape, Placed
  <1>2. /\ IsSeq(s) /\ SameTokens(st.seq[r], s) /\ s.status = "WAITING"
        /\ s.num_preemptions = st.seq[r].num_preemptions + 1
        /\ s.finish_reason = st.seq[r].finish_reason
    BY <1>1 DEF DropPending, IsSeq, SeqFields, SameTokens, Status
  <1> HIDE DEF s
  <1>3. /\ DOMAIN st1 = SchedFields /\ DOMAIN st1.seq = DOMAIN st.seq /\ st1.seq[r] = s
        /\ \A q \in DOMAIN st.seq : q # r => st1.seq[q] = st.seq[q]
        /\ st1.waiting = st.waiting /\ st1.running = st.running /\ st1.live = st.live
        /\ st1.recving = st.recving /\ st1.sending = st.sending
    BY <1>1 DEF SchedFields
  <1> HIDE DEF st1
  <1>4. SameLife(s, result.seq)
    BY <1>2, <1>3, DeallocateLife
  <1> HIDE DEF result
  <1>5. /\ DOMAIN st2 = SchedFields /\ DOMAIN st2.seq = DOMAIN st.seq
        /\ st2.seq[r] = result.seq
        /\ \A q \in DOMAIN st.seq : q # r => st2.seq[q] = st.seq[q]
        /\ st2.waiting = st.waiting /\ st2.running = st.running /\ st2.live = st.live
        /\ st2.recving = st.recving /\ st2.sending = st.sending
    BY <1>3 DEF WithBlocks, SchedFields
  <1> HIDE DEF st2
  <1>6. /\ DOMAIN x = SchedFields /\ x.seq = st2.seq
        /\ Queue(x.waiting, DOMAIN st.seq) /\ ToSet(x.waiting) = ToSet(st.waiting) \cup {r}
        /\ x.running = st.running /\ x.live = st.live
        /\ x.recving = st.recving /\ x.sending = st.sending
    <2>1. Queue(st2.waiting, DOMAIN st.seq) /\ r \notin ToSet(st2.waiting)
      BY <1>1, <1>5 DEF Shape
    <2> QED
      BY <1>5, <2>1, RequeueWaits
  <1> HIDE DEF x
  <1>7. LifeStep(st.seq[r], x.seq[r]) /\ x.seq[r].status = "WAITING"
    <2>1. PICK u : u = st.seq[r]
      OBVIOUS
    <2>2. PICK v : v = x.seq[r]
      OBVIOUS
    <2>3. /\ SameTokens(u, s) /\ SameLife(s, v) /\ s.status = "WAITING"
          /\ s.num_preemptions = u.num_preemptions + 1 /\ s.finish_reason = u.finish_reason
          /\ u.num_preemptions \in Nat /\ u.status = "RUNNING"
      BY <1>1, <1>2, <1>4, <1>5, <1>6, <2>1, <2>2 DEF IsSeq
    <2>4. LifeStep(u, v) /\ v.status = "WAITING"
      BY <2>3 DEF LifeStep, SameLife, SameTokens, IsFinished
    <2> QED
      BY <2>1, <2>2, <2>4
  <1>8. Moves(st, x, r, run, run \ {r})
    <2>1. /\ DOMAIN x.seq = DOMAIN st.seq /\ Queue(x.running, DOMAIN st.seq)
          /\ \A q \in DOMAIN st.seq : q # r => x.seq[q] = st.seq[q]
          /\ Tracked(x) = Tracked(st)
      BY <1>1, <1>5, <1>6 DEF Shape, Tracked
    <2> QED
      BY <1>1, <1>6, <1>7, <2>1 DEF Moves
  <1>9. ~IsFinished(x.seq[r])
    BY <1>7 DEF IsFinished
  <1>10. Good(st0, x, run \ {r}, D)
    BY <1>8, <1>9, GoodMove
  <1>11. /\ Preempt(st, out, r).st = x
         /\ Preempt(st, out, r).out = [out EXCEPT !.preempted = Append(@, r)]
    BY DEF Preempt, ReleaseBlocks, x, st2, result, st1, s
  <1>12. PICK o : o = [out EXCEPT !.preempted = Append(@, r)]
    OBVIOUS
  <1>13. DOMAIN o = OutFields /\ o.scheduled = out.scheduled /\ o.dropped = out.dropped
    BY <1>12 DEF OutFields
  <1>14. PICK p : p = Preempt(st, out, r)
    OBVIOUS
  <1>15. p.st = x /\ p.out = o
    BY <1>11, <1>12, <1>14
  <1>16. /\ Good(st0, p.st, run \ {r}, D) /\ p.st.running = st.running
         /\ DOMAIN p.out = OutFields
         /\ p.out.scheduled = out.scheduled /\ p.out.dropped = out.dropped
    BY <1>6, <1>10, <1>13, <1>15
  <1> QED
    BY <1>14, <1>16

(* _drop: a request that is out of its queue is given up.                  *)
LEMMA DropMoves ==
    ASSUME NEW st0, NEW st, NEW x, NEW run, NEW run2, NEW D, Good(st0, st, run, D),
           NEW r \in DOMAIN st.seq, st.seq[r].status \in {"WAITING", "RUNNING"},
           NEW st1, DOMAIN st1 = SchedFields, st1.seq = st.seq, st1.live = st.live,
           st1.recving = st.recving, st1.sending = st.sending,
           Queue(st1.waiting, DOMAIN st.seq), Queue(st1.running, DOMAIN st.seq),
           ToSet(st1.waiting) = ToSet(st.waiting) \ {r}, run2 = run \ {r},
           x = Drop(st1, r, "capacity")
    PROVE  /\ Good(st0, x, run2, D \cup {r})
           /\ x.waiting = st1.waiting /\ x.running = st1.running
  <1>1. /\ Shape(st) /\ Placed(st, run) /\ DOMAIN st = SchedFields
        /\ IsSeq(st.seq[r]) /\ r \in st.live /\ r \notin st.recving
    BY DEF Good, Shape, Placed
  <1>2. /\ DOMAIN x = SchedFields /\ DOMAIN x.seq = DOMAIN st.seq
        /\ \A q \in DOMAIN st.seq : q # r => x.seq[q] = st.seq[q]
        /\ x.waiting = st1.waiting /\ x.running = st1.running /\ x.live = st.live \ {r}
        /\ x.recving = st.recving /\ x.sending = st.sending
    BY <1>1 DEF Drop, Finish, SchedFields
  <1>3. /\ x.seq[r] = DropPending([[st.seq[r] EXCEPT !.status = "FINISHED"]
                                     EXCEPT !.finish_reason = "capacity"])
    BY <1>1 DEF Drop, Finish, SchedFields, IsSeq, SeqFields
  <1>4. LifeStep(st.seq[r], x.seq[r]) /\ x.seq[r].status = "FINISHED"
    <2>1. PICK s : s = st.seq[r]
      OBVIOUS
    <2>2. PICK t : t = x.seq[r]
      OBVIOUS
    <2>3. /\ DOMAIN t = SeqFields /\ t.status = "FINISHED" /\ t.finish_reason = "capacity"
          /\ t.token_ids = s.token_ids /\ t.num_prompt_tokens = s.num_prompt_tokens
          /\ t.num_new_tokens = s.num_new_tokens /\ t.num_preemptions = s.num_preemptions
          /\ t.arrival = s.arrival
      BY <1>1, <1>3, <2>1, <2>2 DEF DropPending, IsSeq, SeqFields
    <2>4. IsSeq(s) /\ s.status # "FINISHED"
      BY <1>1, <2>1
    <2>5. LifeStep(s, t)
      BY <2>3, <2>4 DEF IsSeq, LifeStep, SameTokens, IsFinished, Status
    <2> QED
      BY <2>1, <2>2, <2>3, <2>5
  <1>5. Moves(st, x, r, run, run2)
    <2>1. Tracked(x) \subseteq Tracked(st)
      BY <1>2 DEF Tracked
    <2> QED
      BY <1>1, <1>2, <1>4, <2>1 DEF Moves
  <1>6. IsFinished(x.seq[r]) /\ ~IsFinished(st.seq[r])
    BY <1>4 DEF IsFinished
  <1> QED
    BY <1>2, <1>5, <1>6, GoodMove

-----------------------------------------------------------------------------
(* _make_room, and the loop of schedule() over the running. *)

(* The running that schedule() holds elsewhere are not in the deque.       *)
LEMMA GoodDeque ==
    ASSUME NEW st0, NEW st, NEW run, NEW D, Good(st0, st, run, D),
           NEW w, Queue(w, DOMAIN st.seq)
    PROVE  LET x == [st EXCEPT !.running = w]
           IN  Good(st0, x, run, D) /\ x.running = w /\ x.seq = st.seq
  <1> DEFINE x == [st EXCEPT !.running = w]
  <1>1. DOMAIN st = SchedFields
    BY DEF Good, Shape
  <1>2. /\ DOMAIN x = SchedFields /\ x.running = w /\ x.seq = st.seq /\ x.waiting = st.waiting
        /\ x.live = st.live /\ x.recving = st.recving /\ x.sending = st.sending
    BY <1>1 DEF SchedFields
  <1> HIDE DEF x
  <1>3. Tracked(x) = Tracked(st)
    BY <1>2 DEF Tracked
  <1>4. Shape(x)
    BY <1>2, <1>3 DEF Good, Shape
  <1>5. Placed(x, run)
    BY <1>2 DEF Good, Placed
  <1>6. Evolves(st0, x, D)
    BY <1>2, <1>3 DEF Good, Evolves
  <1>7. Good(st0, x, run, D)
    BY <1>4, <1>5, <1>6 DEF Good
  <1> QED
    BY <1>2, <1>7 DEF x

(* r has been taken out of the deque, still are those served before it. *)
AtWork(st0, st, out, still, r) ==
    /\ Good(st0, st, ToSet(st.running) \cup ToSet(still) \cup {r}, ToSet(out.dropped))
    /\ r \in DOMAIN st0.seq /\ r \notin ToSet(st.running) /\ r \notin ToSet(still)
    /\ Queue(still, DOMAIN st0.seq) /\ Apart(st.running, still)
    /\ Planned(out, DOMAIN st0.seq) /\ ToSet(out.scheduled) \subseteq ToSet(still)

(* Between two sequences of the loop. *)
Served(st0, p) ==
    /\ Good(st0, p.st, ToSet(p.st.running) \cup ToSet(p.still), ToSet(p.out.dropped))
    /\ Queue(p.still, DOMAIN st0.seq) /\ Apart(p.st.running, p.still)
    /\ Planned(p.out, DOMAIN st0.seq) /\ ToSet(p.out.scheduled) \subseteq ToSet(p.still)

(* What Good says of the requests it is about.                             *)
LEMMA GoodFacts ==
    ASSUME NEW st0, NEW st, NEW run, NEW D, Good(st0, st, run, D)
    PROVE  /\ DOMAIN st.seq = DOMAIN st0.seq /\ DOMAIN st = SchedFields /\ Shape(st)
           /\ Queue(st.running, DOMAIN st0.seq) /\ Queue(st.waiting, DOMAIN st0.seq)
  BY DEF Good, Shape, Evolves

(* New blocks or a new plan for r, and the work on r goes on.              *)
LEMMA AtWorkTouch ==
    ASSUME NEW st0, NEW st, NEW out, NEW still, NEW r, NEW x,
           AtWork(st0, st, out, still, r), Touches(st, x, r)
    PROVE  AtWork(st0, x, out, still, r)
  <1> DEFINE run == ToSet(st.running) \cup ToSet(still) \cup {r}
  <1>1. Good(st0, st, run, ToSet(out.dropped)) /\ r \in DOMAIN st.seq
    BY GoodFacts DEF AtWork
  <1>2. x.running = st.running
    BY DEF Touches
  <1> HIDE DEF run
  <1>3. PICK D : D = ToSet(out.dropped)
    OBVIOUS
  <1>4. Good(st0, x, run, D)
    BY <1>1, <1>3, GoodTouch
  <1> QED
    BY <1>2, <1>3, <1>4 DEF AtWork, run

(* r is put back as it is.                                                 *)
LEMMA LeftAlone ==
    ASSUME NEW st0, NEW st, NEW out, NEW still, NEW r, AtWork(st0, st, out, still, r)
    PROVE  Served(st0, [st |-> st, out |-> out, still |-> Append(still, r)])
  <1>1. PICK w : w = Append(still, r)
    OBVIOUS
  <1>2. Queue(w, DOMAIN st0.seq) /\ ToSet(w) = ToSet(still) \cup {r}
    BY <1>1, QueueAppend DEF AtWork
  <1>3. Apart(st.running, w)
    BY <1>2 DEF AtWork, Apart
  <1>4. PICK p : p = [st |-> st, out |-> out, still |-> w]
    OBVIOUS
  <1>5. p.st = st /\ p.out = out /\ p.still = w
    BY <1>4
  <1>6. ToSet(st.running) \cup ToSet(w) = ToSet(st.running) \cup ToSet(still) \cup {r}
    BY <1>2
  <1>7. Good(st0, p.st, ToSet(p.st.running) \cup ToSet(p.still), ToSet(p.out.dropped))
    BY <1>5, <1>6 DEF AtWork
  <1>8. ToSet(p.out.scheduled) \subseteq ToSet(p.still)
    BY <1>2, <1>5 DEF AtWork
  <1>9. Served(st0, p)
    BY <1>2, <1>3, <1>5, <1>7, <1>8 DEF Served, AtWork
  <1> QED
    BY <1>1, <1>4, <1>9

(* r gets a row and is put back.                                           *)
LEMMA RowServed ==
    ASSUME NEW st0, NEW st, NEW out, NEW still, NEW r, AtWork(st0, st, out, still, r)
    PROVE  LET p == ServeRow(st, out, still, r)
           IN  Served(st0, p) /\ p.st.running = st.running
  <1>1. PICK row : row = ScheduleRow(st, out, r)
    OBVIOUS
  <1>2. /\ Shape(st) /\ r \in DOMAIN st.seq /\ DOMAIN out = OutFields
    BY GoodFacts DEF AtWork, Planned
  <1>3. /\ Touches(st, row.st, r) /\ DOMAIN row.out = OutFields
        /\ row.out.scheduled = Append(out.scheduled, r) /\ row.out.dropped = out.dropped
    BY <1>1, <1>2, RowTouches
  <1>4. AtWork(st0, row.st, out, still, r) /\ row.st.running = st.running
    BY <1>3, AtWorkTouch DEF Touches
  <1>5. PICK w : w = Append(still, r)
    OBVIOUS
  <1>6. Served(st0, [st |-> row.st, out |-> out, still |-> w])
    BY <1>4, <1>5, LeftAlone
  <1>7. PICK p : p = [st |-> row.st, out |-> row.out, still |-> w]
    OBVIOUS
  <1>8. p.st = row.st /\ p.out = row.out /\ p.still = w
    BY <1>7
  <1>9. PICK sch : sch = Append(out.scheduled, r)
    OBVIOUS
  <1>10. Queue(sch, DOMAIN st0.seq) /\ ToSet(sch) = ToSet(out.scheduled) \cup {r}
    <2>1. /\ Queue(out.scheduled, DOMAIN st0.seq) /\ r \in DOMAIN st0.seq
          /\ r \notin ToSet(out.scheduled)
      BY DEF AtWork, Planned
    <2> QED
      BY <1>9, <2>1, QueueAppend
  <1>11. ToSet(w) = ToSet(still) \cup {r}
    BY <1>5, QueueAppend DEF AtWork
  <1>12. ToSet(sch) \subseteq ToSet(w)
    BY <1>10, <1>11 DEF AtWork
  <1>13. Planned(row.out, DOMAIN st0.seq)
    BY <1>3, <1>9, <1>10 DEF Planned, AtWork
  <1>14. PICK z : z = [st |-> row.st, out |-> out, still |-> w]
    OBVIOUS
  <1>15. z.st = row.st /\ z.out = out /\ z.still = w
    BY <1>14
  <1>16. /\ Good(st0, row.st, ToSet(row.st.running) \cup ToSet(w), ToSet(out.dropped))
         /\ Queue(w, DOMAIN st0.seq) /\ Apart(row.st.running, w)
    BY <1>6, <1>14, <1>15 DEF Served
  <1>17. Served(st0, p)
    BY <1>3, <1>8, <1>9, <1>12, <1>13, <1>16 DEF Served
  <1> QED
    BY <1>1, <1>4, <1>5, <1>7, <1>8, <1>17 DEF ServeRow

(* The loop of _make_room. *)
RoomRound(a, b, c, p, i) == PreemptVictim(p, b, c)
RoomInv(a, b, c, p, i) ==
    /\ AtWork(a[1], p.st, p.out, a[2], b)
    /\ ToSet(p.st.running) \subseteq a[3]
RoomLoop == INSTANCE Loops WITH Round <- RoomRound, Inv <- RoomInv

(* Preempting a victim, which is one of those not yet served.              *)
LEMMA VictimPreempted ==
    ASSUME NEW st0, NEW p, NEW still, NEW r, NEW n, AtWork(st0, p.st, p.out, still, r)
    PROVE  LET x == PreemptVictim(p, r, n)
           IN  /\ AtWork(st0, x.st, x.out, still, r)
               /\ ToSet(x.st.running) \subseteq ToSet(p.st.running)
  <1>1. CASE CanAppend(p.st.bm, p.st.seq[r], n) \/ p.st.running = << >>
    BY <1>1 DEF PreemptVictim
  <1>2. CASE ~(CanAppend(p.st.bm, p.st.seq[r], n) \/ p.st.running = << >>)
    <2>1. PICK v : v = Victim(p.st)
      OBVIOUS
    <2>2. PICK w : w = Without(p.st.running, v)
      OBVIOUS
    <2>3. PICK y : y = [p.st EXCEPT !.running = w]
      OBVIOUS
    <2>4. PICK x : x = Preempt(y, p.out, v)
      OBVIOUS
    <2>5. PreemptVictim(p, r, n) = x
      BY <1>2, <2>1, <2>2, <2>3, <2>4 DEF PreemptVictim
    <2>6. PICK run : run = ToSet(p.st.running) \cup ToSet(still) \cup {r}
      OBVIOUS
    <2>7. PICK D : D = ToSet(p.out.dropped)
      OBVIOUS
    <2>8. /\ Good(st0, p.st, run, D) /\ Shape(p.st) /\ DOMAIN p.st.seq = DOMAIN st0.seq
          /\ Queue(p.st.running, DOMAIN st0.seq)
      BY <2>6, <2>7, GoodFacts DEF AtWork
    <2>9. v \in ToSet(p.st.running)
      BY <1>2, <2>1, <2>8, VictimIsRunning
    <2>10. Queue(w, DOMAIN st0.seq) /\ ToSet(w) = ToSet(p.st.running) \ {v}
      BY <2>2, <2>8, QueueWithout
    <2>11. Good(st0, y, run, D) /\ y.running = w /\ y.seq = p.st.seq
      BY <2>3, <2>8, <2>10, GoodDeque
    <2>12. v \in run /\ v \in DOMAIN y.seq /\ v \notin ToSet(y.running)
      <3>1. v \in DOMAIN st0.seq
        BY <2>8, <2>9 DEF Queue, ToSet
      <3> QED
        BY <2>6, <2>8, <2>9, <2>10, <2>11, <3>1
    <2>13. DOMAIN p.out = OutFields
      BY DEF AtWork, Planned
    <2>14. /\ Good(st0, x.st, run \ {v}, D) /\ x.st.running = w /\ DOMAIN x.out = OutFields
           /\ x.out.scheduled = p.out.scheduled /\ x.out.dropped = p.out.dropped
      BY <2>4, <2>11, <2>12, <2>13, PreemptMoves
    <2>15. run \ {v} = ToSet(x.st.running) \cup ToSet(still) \cup {r}
      BY <2>6, <2>9, <2>10, <2>14 DEF AtWork, Apart
    <2>16. AtWork(st0, x.st, x.out, still, r)
      <3>1. /\ r \in DOMAIN st0.seq /\ r \notin ToSet(x.st.running) /\ r \notin ToSet(still)
            /\ Queue(still, DOMAIN st0.seq) /\ Apart(x.st.running, still)
        BY <2>10, <2>14 DEF AtWork, Apart
      <3>2. Planned(x.out, DOMAIN st0.seq) /\ ToSet(x.out.scheduled) \subseteq ToSet(still)
        BY <2>14 DEF AtWork, Planned
      <3> QED
        BY <2>7, <2>14, <2>15, <3>1, <3>2 DEF AtWork
    <2> QED
      BY <2>5, <2>10, <2>14, <2>16
  <1> QED
    BY <1>1, <1>2

(* Preempting until r fits.                                                *)
LEMMA VictimsPreempted ==
    ASSUME NEW st0, NEW p, NEW still, NEW r, NEW n, AtWork(st0, p.st, p.out, still, r)
    PROVE  LET x == PreemptVictims(p, r, n)
           IN  /\ AtWork(st0, x.st, x.out, still, r)
               /\ ToSet(x.st.running) \subseteq ToSet(p.st.running)
  <1>1. PICK a : a = <<st0, still, ToSet(p.st.running)>>
    OBVIOUS
  <1>2. a[1] = st0 /\ a[2] = still /\ a[3] = ToSet(p.st.running)
    BY <1>1
  <1>3. PICK k : k = Len(p.st.running)
    OBVIOUS
  <1>4. k \in Nat
    BY <1>3, GoodFacts DEF AtWork, Queue
  <1>5. RoomInv(a, r, n, p, 0)
    BY <1>2 DEF RoomInv
  <1>6. ASSUME NEW i \in 1..k, NEW q, RoomInv(a, r, n, q, i - 1)
        PROVE  RoomInv(a, r, n, RoomRound(a, r, n, q, i), i)
    <2>1. AtWork(st0, q.st, q.out, still, r) /\ ToSet(q.st.running) \subseteq ToSet(p.st.running)
      BY <1>2, <1>6 DEF RoomInv
    <2>2. PICK x : x = PreemptVictim(q, r, n)
      OBVIOUS
    <2>3. AtWork(st0, x.st, x.out, still, r) /\ ToSet(x.st.running) \subseteq ToSet(q.st.running)
      BY <2>1, <2>2, VictimPreempted
    <2>4. RoomInv(a, r, n, x, i)
      BY <1>2, <2>1, <2>3 DEF RoomInv
    <2> QED
      BY <2>2, <2>4 DEF RoomRound
  <1>7. RoomInv(a, r, n, RoomLoop!Loop(a, r, n, p, k), k)
    BY <1>4, <1>5, <1>6, CountsUp, RoomLoop!LoopInvariant
  <1>8. PreemptVictims(p, r, n) = RoomLoop!Loop(a, r, n, p, k)
    BY <1>3 DEF PreemptVictims, Repeat, RoomLoop!Loop, RoomRound
  <1>9. PICK x : x = PreemptVictims(p, r, n)
    OBVIOUS
  <1>10. AtWork(st0, x.st, x.out, still, r) /\ ToSet(x.st.running) \subseteq ToSet(p.st.running)
    BY <1>2, <1>7, <1>8, <1>9 DEF RoomInv
  <1> QED
    BY <1>9, <1>10

(* A decoding sequence: once there is room it gets a row; otherwise it     *)
(* gives way, waits or is dropped.                                         *)
LEMMA DecodeServed ==
    ASSUME NEW st0, NEW st, NEW out, NEW still, NEW r, NEW n, AtWork(st0, st, out, still, r)
    PROVE  LET p == ServeDecode(MakeRoom(st, out, still, r, n), r, n)
           IN  Served(st0, p) /\ ToSet(p.st.running) \subseteq ToSet(st.running)
  <1>1. PICK start : start = [st |-> st, out |-> out]
    OBVIOUS
  <1>2. start.st = st /\ start.out = out
    BY <1>1
  <1>3. PICK room : room = PreemptVictims(start, r, n)
    OBVIOUS
  <1>4. /\ AtWork(st0, room.st, room.out, still, r)
        /\ ToSet(room.st.running) \subseteq ToSet(st.running)
    BY <1>2, <1>3, VictimsPreempted
  <1>5. PICK s : s = room.st.seq[r]
    OBVIOUS
  <1>6. PICK made : made = MakeRoom(st, out, still, r, n)
    OBVIOUS
  <1>7. PICK run : run = ToSet(room.st.running) \cup ToSet(still) \cup {r}
    OBVIOUS
  <1>8. PICK D : D = ToSet(room.out.dropped)
    OBVIOUS
  <1>9. /\ Good(st0, room.st, run, D) /\ Shape(room.st) /\ DOMAIN room.st.seq = DOMAIN st0.seq
        /\ r \in DOMAIN room.st.seq /\ r \in run /\ r \notin ToSet(room.st.running)
        /\ IsSeq(s) /\ DOMAIN room.out = OutFields
    <2>1. Good(st0, room.st, run, D) /\ Shape(room.st) /\ DOMAIN room.st.seq = DOMAIN st0.seq
      BY <1>4, <1>7, <1>8, GoodFacts DEF AtWork
    <2>2. r \in DOMAIN st0.seq /\ r \notin ToSet(room.st.running) /\ DOMAIN room.out = OutFields
      BY <1>4 DEF AtWork, Planned
    <2> QED
      BY <1>5, <1>7, <2>1, <2>2 DEF Shape
  <1>10. ASSUME CanAppend(room.st.bm, s, n)
         PROVE  LET p == ServeDecode(made, r, n)
                IN  Served(st0, p) /\ ToSet(p.st.running) \subseteq ToSet(st.running)
    <2>1. made = [st |-> room.st, out |-> room.out, still |-> still, ok |-> TRUE]
      BY <1>1, <1>3, <1>5, <1>6, <1>10 DEF MakeRoom
    <2>2. made.st = room.st /\ made.out = room.out /\ made.still = still /\ made.ok
      BY <2>1
    <2>3. PICK grown : grown = MayAppend(room.st.bm, s, n)
      OBVIOUS
    <2>4. SameLife(s, grown.seq)
      BY <1>9, <2>3, MayAppendLife
    <2>5. PICK y : y = WithBlocks(room.st, r, grown)
      OBVIOUS
    <2>6. Touches(room.st, y, r)
      BY <1>5, <1>9, <2>4, <2>5, WithBlocksTouches
    <2>7. AtWork(st0, y, room.out, still, r) /\ y.running = room.st.running
      BY <1>4, <2>6, AtWorkTouch DEF Touches
    <2>8. PICK p : p = ServeRow(y, room.out, still, r)
      OBVIOUS
    <2>9. Served(st0, p) /\ p.st.running = y.running
      BY <2>7, <2>8, RowServed
    <2>10. ServeDecode(made, r, n) = p
      BY <1>5, <2>2, <2>3, <2>5, <2>8 DEF ServeDecode
    <2> QED
      BY <1>4, <2>7, <2>9, <2>10
  <1>11. ASSUME ~CanAppend(room.st.bm, s, n)
         PROVE  LET p == ServeDecode(made, r, n)
                IN  Served(st0, p) /\ ToSet(p.st.running) \subseteq ToSet(st.running)
    <2>1. PICK pre : pre = Preempt(room.st, room.out, r)
      OBVIOUS
    <2>2. PICK gone : gone = Drop(ReleaseBlocks(room.st, r), r, "capacity")
      OBVIOUS
    <2>3. PICK told : told = [room.out EXCEPT !.dropped = Append(@, r)]
      OBVIOUS
    <2>4. PICK w : w = Append(still, r)
      OBVIOUS
    <2>5. PICK no : no = FALSE
      OBVIOUS
    <2>6. \/ made = [st |-> pre.st, out |-> pre.out, still |-> still, ok |-> no]
          \/ made = [st |-> room.st, out |-> room.out, still |-> w, ok |-> no]
          \/ made = [st |-> gone, out |-> told, still |-> still, ok |-> no]
      BY <1>1, <1>3, <1>5, <1>6, <1>11, <2>1, <2>2, <2>3, <2>4, <2>5 DEF MakeRoom
    <2>7. made.ok = no
      BY <2>6
    <2>8. ServeDecode(made, r, n) = made
      BY <2>5, <2>7 DEF ServeDecode
    <2>9. ASSUME made = [st |-> pre.st, out |-> pre.out, still |-> still, ok |-> no]
          PROVE  Served(st0, made) /\ ToSet(made.st.running) \subseteq ToSet(st.running)
      <3>1. made.st = pre.st /\ made.out = pre.out /\ made.still = still
        BY <2>9
      <3>2. /\ Good(st0, pre.st, run \ {r}, D) /\ pre.st.running = room.st.running
            /\ DOMAIN pre.out = OutFields /\ pre.out.scheduled = room.out.scheduled
            /\ pre.out.dropped = room.out.dropped
        BY <1>9, <2>1, PreemptMoves
      <3>3. run \ {r} = ToSet(pre.st.running) \cup ToSet(still)
        BY <1>4, <1>7, <3>2 DEF AtWork
      <3>4. Planned(pre.out, DOMAIN st0.seq) /\ ToSet(pre.out.scheduled) \subseteq ToSet(still)
        BY <1>4, <3>2 DEF AtWork, Planned
      <3>5. Queue(still, DOMAIN st0.seq) /\ Apart(pre.st.running, still)
        BY <1>4, <3>2 DEF AtWork
      <3>6. Good(st0, pre.st, ToSet(pre.st.running) \cup ToSet(still), ToSet(pre.out.dropped))
        BY <1>8, <3>2, <3>3
      <3>7. Served(st0, made)
        BY <3>1, <3>4, <3>5, <3>6 DEF Served
      <3> QED
        BY <1>4, <3>1, <3>2, <3>7
    <2>10. ASSUME made = [st |-> room.st, out |-> room.out, still |-> w, ok |-> no]
           PROVE  Served(st0, made) /\ ToSet(made.st.running) \subseteq ToSet(st.running)
      <3>1. made.st = room.st /\ made.out = room.out /\ made.still = w
        BY <2>10
      <3>2. PICK z : z = [st |-> room.st, out |-> room.out, still |-> w]
        OBVIOUS
      <3>3. z.st = room.st /\ z.out = room.out /\ z.still = w
        BY <3>2
      <3>4. Served(st0, z)
        BY <1>4, <2>4, <3>2, LeftAlone
      <3>5. Served(st0, made)
        BY <3>1, <3>3, <3>4 DEF Served
      <3> QED
        BY <1>4, <3>1, <3>5
    <2>11. ASSUME made = [st |-> gone, out |-> told, still |-> still, ok |-> no]
           PROVE  Served(st0, made) /\ ToSet(made.st.running) \subseteq ToSet(st.running)
      <3>1. made.st = gone /\ made.out = told /\ made.still = still
        BY <2>11
      <3>2. PICK y : y = ReleaseBlocks(room.st, r)
        OBVIOUS
      <3>3. Touches(room.st, y, r)
        BY <1>9, <3>2, ReleaseTouches
      <3>4. Good(st0, y, run, D) /\ y.running = room.st.running
        BY <1>9, <3>3, GoodTouch DEF Touches
      <3>5. /\ DOMAIN y = SchedFields /\ DOMAIN y.seq = DOMAIN st0.seq /\ Shape(y)
            /\ Queue(y.waiting, DOMAIN y.seq) /\ Queue(y.running, DOMAIN y.seq)
        BY <3>4, GoodFacts
      <3>6. r \in DOMAIN y.seq /\ y.seq[r].status = "RUNNING" /\ r \notin ToSet(y.waiting)
        BY <1>9, <3>4, <3>5 DEF Good, Placed
      <3>7. ToSet(y.waiting) = ToSet(y.waiting) \ {r}
        BY <3>6
      <3>8. /\ Good(st0, gone, run \ {r}, D \cup {r}) /\ gone.running = y.running
        <4>1. PICK run2 : run2 = run \ {r}
          OBVIOUS
        <4>2. gone = Drop(y, r, "capacity") /\ y.seq[r].status \in {"WAITING", "RUNNING"}
          BY <2>2, <3>2, <3>6
        <4>3. /\ Good(st0, y, run, D) /\ r \in DOMAIN y.seq /\ DOMAIN y = SchedFields
              /\ Queue(y.waiting, DOMAIN y.seq) /\ Queue(y.running, DOMAIN y.seq)
          BY <3>4, <3>5, <3>6
        <4>4. Good(st0, gone, run2, D \cup {r})
          BY <3>7, <4>1, <4>2, <4>3, DropMoves
        <4>5. gone.running = y.running
          BY <4>2, <4>3 DEF Drop, Finish, SchedFields
        <4> QED
          BY <4>1, <4>4, <4>5
      <3>9. PICK d : d = Append(room.out.dropped, r)
        OBVIOUS
      <3>10. List(d, DOMAIN st0.seq) /\ ToSet(d) = ToSet(room.out.dropped) \cup {r}
        <4>1. List(room.out.dropped, DOMAIN st0.seq) /\ r \in DOMAIN st0.seq
          BY <1>4 DEF AtWork, Planned
        <4>2. PICK q : q = room.out.dropped
          OBVIOUS
        <4>3. d = Append(q, r) /\ List(q, DOMAIN st0.seq)
          BY <3>9, <4>1, <4>2
        <4>4. PICK S : S = DOMAIN st0.seq
          OBVIOUS
        <4>5. List(q, S) /\ r \in S
          BY <4>1, <4>3, <4>4
        <4>6. d = Append(q, r)
          BY <4>3
        <4>7. List(d, S) /\ Adds(q, r, d)
          BY <4>5, <4>6, ListAppend
        <4> QED
          BY <4>2, <4>4, <4>7 DEF Adds
      <3>11. /\ DOMAIN told = OutFields /\ told.dropped = d
             /\ told.scheduled = room.out.scheduled
        BY <1>9, <2>3, <3>9 DEF OutFields
      <3>12. Planned(told, DOMAIN st0.seq) /\ ToSet(told.scheduled) \subseteq ToSet(still)
        BY <1>4, <3>10, <3>11 DEF AtWork, Planned
      <3>13. run \ {r} = ToSet(gone.running) \cup ToSet(still)
        BY <1>4, <1>7, <3>4, <3>8 DEF AtWork
      <3>14. D \cup {r} = ToSet(told.dropped)
        BY <1>8, <3>10, <3>11
      <3>15. Queue(still, DOMAIN st0.seq) /\ Apart(gone.running, still)
        BY <1>4, <3>4, <3>8 DEF AtWork
      <3>16. Good(st0, gone, ToSet(gone.running) \cup ToSet(still), ToSet(told.dropped))
        BY <3>8, <3>13, <3>14
      <3>17. Served(st0, made)
        BY <3>1, <3>12, <3>15, <3>16 DEF Served
      <3> QED
        BY <1>4, <3>1, <3>4, <3>8, <3>17
    <2> QED
      BY <2>6, <2>8, <2>9, <2>10, <2>11
  <1> QED
    BY <1>6, <1>10, <1>11

(* One sequence of the loop.                                               *)
LEMMA OneServed ==
    ASSUME NEW st0, NEW st, NEW out, NEW still, NEW r, AtWork(st0, st, out, still, r)
    PROVE  LET p == Serve(st, out, still, r)
           IN  Served(st0, p) /\ ToSet(p.st.running) \subseteq ToSet(st.running)
  <1>1. PICK s : s = st.seq[r]
    OBVIOUS
  <1>2. PICK trimmed : trimmed = TrimDrafts(s, r, out.budget)
    OBVIOUS
  <1>3. PICK n : n = trimmed.num_spec_tokens + NumLookaheadTokens
    OBVIOUS
  <1>4. PICK y : y = [st EXCEPT !.seq[r] = trimmed]
    OBVIOUS
  <1>5. Shape(st) /\ r \in DOMAIN st.seq /\ IsSeq(s)
    BY <1>1, GoodFacts DEF AtWork, Shape
  <1>6. SameLife(s, trimmed)
    <2> DEFINE num_left == MaxTokens[r] - (NumPlannedTokens(s) - s.num_prompt_tokens)
               keep == Max({Min({out.budget, num_left}) - 1, 0})
    <2>1. trimmed = [s EXCEPT !.num_spec_tokens = Min({@, keep})]
      BY <1>2 DEF TrimDrafts
    <2> HIDE DEF keep
    <2> QED
      BY <1>5, <2>1 DEF SameLife, SameTokens, IsSeq, SeqFields
  <1>7. Touches(st, y, r)
    BY <1>1, <1>4, <1>5, <1>6, NewPlanTouches
  <1>8. AtWork(st0, y, out, still, r) /\ y.running = st.running
    BY <1>7, AtWorkTouch DEF Touches
  <1>9. CASE StepIsFull(out) \/ ReachesLimit(s, r)
    <2>1. PICK p : p = [st |-> st, out |-> out, still |-> Append(still, r)]
      OBVIOUS
    <2>2. Serve(st, out, still, r) = p
      BY <1>1, <1>9, <2>1 DEF Serve
    <2>3. Served(st0, p) /\ p.st = st
      BY <2>1, LeftAlone
    <2> QED
      BY <2>2, <2>3
  <1>10. CASE ~(StepIsFull(out) \/ ReachesLimit(s, r)) /\ s.is_prefill
    <2>1. PICK p : p = ServeRow(st, out, still, r)
      OBVIOUS
    <2>2. Serve(st, out, still, r) = p
      BY <1>1, <1>10, <2>1 DEF Serve
    <2>3. Served(st0, p) /\ p.st.running = st.running
      BY <2>1, RowServed
    <2> QED
      BY <2>2, <2>3
  <1>11. CASE ~(StepIsFull(out) \/ ReachesLimit(s, r)) /\ ~s.is_prefill
    <2>1. PICK p : p = ServeDecode(MakeRoom(y, out, still, r, n), r, n)
      OBVIOUS
    <2>2. Serve(st, out, still, r) = p
      BY <1>1, <1>2, <1>3, <1>4, <1>11, <2>1 DEF Serve
    <2>3. Served(st0, p) /\ ToSet(p.st.running) \subseteq ToSet(y.running)
      BY <1>8, <2>1, DecodeServed
    <2> QED
      BY <1>8, <2>2, <2>3
  <1> QED
    BY <1>9, <1>10, <1>11

(* The next of the deque is served.                                        *)
LEMMA NextServed ==
    ASSUME NEW st0, NEW p, Served(st0, p), p.st.running # << >>
    PROVE  LET x == ServeNext(p)
           IN  Served(st0, x) /\ Len(x.st.running) <= Len(p.st.running) - 1
  <1>1. PICK r : r = Head(p.st.running)
    OBVIOUS
  <1>2. PICK w : w = Tail(p.st.running)
    OBVIOUS
  <1>3. PICK y : y = [p.st EXCEPT !.running = w]
    OBVIOUS
  <1>4. PICK run : run = ToSet(p.st.running) \cup ToSet(p.still)
    OBVIOUS
  <1>5. PICK D : D = ToSet(p.out.dropped)
    OBVIOUS
  <1>6. Good(st0, p.st, run, D) /\ DOMAIN p.st.seq = DOMAIN st0.seq
    BY <1>4, <1>5, GoodFacts DEF Served
  <1>7. Queue(p.st.running, DOMAIN st0.seq)
    BY <1>6, GoodFacts
  <1>8. /\ Queue(w, DOMAIN st0.seq) /\ r \in DOMAIN st0.seq /\ r \notin ToSet(w)
        /\ ToSet(p.st.running) = ToSet(w) \cup {r}
        /\ Len(w) = Len(p.st.running) - 1
    BY <1>1, <1>2, <1>7, QueueTail
  <1>9. Good(st0, y, run, D) /\ y.running = w
    BY <1>3, <1>6, <1>8, GoodDeque
  <1>10. /\ r \notin ToSet(p.still) /\ Apart(w, p.still)
         /\ run = ToSet(w) \cup ToSet(p.still) \cup {r}
    <2>1. ToSet(p.st.running) \cap ToSet(p.still) = {}
      BY DEF Served, Apart
    <2> QED
      BY <1>4, <1>8, <2>1 DEF Apart
  <1>11. AtWork(st0, y, p.out, p.still, r)
    <2>1. /\ Queue(p.still, DOMAIN st0.seq) /\ Planned(p.out, DOMAIN st0.seq)
          /\ ToSet(p.out.scheduled) \subseteq ToSet(p.still)
      BY DEF Served
    <2> QED
      BY <1>5, <1>8, <1>9, <1>10, <2>1 DEF AtWork
  <1>12. PICK x : x = Serve(y, p.out, p.still, r)
    OBVIOUS
  <1>13. Served(st0, x) /\ ToSet(x.st.running) \subseteq ToSet(w)
    <2>1. Served(st0, x) /\ ToSet(x.st.running) \subseteq ToSet(y.running)
      BY <1>11, <1>12, OneServed
    <2> QED
      BY <1>9, <2>1
  <1>14. Queue(x.st.running, DOMAIN st0.seq)
    BY <1>13, GoodFacts DEF Served
  <1>15. Len(x.st.running) <= Len(w)
    BY <1>8, <1>13, <1>14, QueueShorter
  <1>16. ServeNext(p) = x
    BY <1>1, <1>2, <1>3, <1>12 DEF ServeNext
  <1> QED
    BY <1>8, <1>13, <1>15, <1>16

(* The loop of schedule() over the running. *)
ServeRound(a, b, c, p, i) == ServeNext(p)
ServeInv(a, b, c, p, i) == Served(a[1], p) /\ Len(p.st.running) <= a[2] - i
ServeLoop == INSTANCE Loops WITH Round <- ServeRound, Inv <- ServeInv

(* Every running sequence is served once.                                  *)
LEMMA AllServed ==
    ASSUME NEW st0, NEW p, Served(st0, p)
    PROVE  LET x == ServeAll(p) IN Served(st0, x) /\ x.st.running = << >>
  <1>1. PICK k : k = Len(p.st.running)
    OBVIOUS
  <1>2. k \in Nat
    BY <1>1, GoodFacts DEF Served, Queue
  <1>3. PICK a : a = <<st0, k>>
    OBVIOUS
  <1>4. a[1] = st0 /\ a[2] = k
    BY <1>3
  <1>5. ServeInv(a, 0, 0, p, 0)
    BY <1>1, <1>2, <1>4 DEF ServeInv
  <1>6. ASSUME NEW i \in 1..k, NEW q, ServeInv(a, 0, 0, q, i - 1)
        PROVE  ServeInv(a, 0, 0, ServeRound(a, 0, 0, q, i), i)
    <2>1. Served(st0, q) /\ Len(q.st.running) <= k - (i - 1)
      BY <1>4, <1>6 DEF ServeInv
    <2>2. PICK x : x = ServeNext(q)
      OBVIOUS
    <2>3. Queue(q.st.running, DOMAIN st0.seq)
      BY <2>1, GoodFacts DEF Served
    <2>4. Served(st0, x) /\ Len(x.st.running) <= k - i
      <3>1. CASE q.st.running = << >>
        <4>1. x = q
          BY <2>2, <3>1 DEF ServeNext
        <4> QED
          BY <1>2, <2>1, <3>1, <4>1
      <3>2. CASE q.st.running # << >>
        <4>1. Served(st0, x) /\ Len(x.st.running) <= Len(q.st.running) - 1
          BY <2>1, <2>2, <3>2, NextServed
        <4>2. Len(q.st.running) \in Nat
          BY <2>3 DEF Queue
        <4>3. Queue(x.st.running, DOMAIN st0.seq)
          BY <4>1, GoodFacts DEF Served
        <4>4. Len(x.st.running) \in Nat
          BY <4>3 DEF Queue
        <4> QED
          BY <1>2, <2>1, <4>1, <4>2, <4>4
      <3> QED
        BY <3>1, <3>2
    <2>5. ServeInv(a, 0, 0, x, i)
      BY <1>4, <2>4 DEF ServeInv
    <2> QED
      BY <2>2, <2>5 DEF ServeRound
  <1>7. ServeInv(a, 0, 0, ServeLoop!Loop(a, 0, 0, p, k), k)
    BY <1>2, <1>5, <1>6, CountsUp, ServeLoop!LoopInvariant
  <1>8. ServeAll(p) = ServeLoop!Loop(a, 0, 0, p, k)
    BY <1>1 DEF ServeAll, Repeat, ServeLoop!Loop, ServeRound
  <1>9. PICK x : x = ServeAll(p)
    OBVIOUS
  <1>10. Served(st0, x) /\ Len(x.st.running) <= k - k
    BY <1>4, <1>7, <1>8, <1>9 DEF ServeInv
  <1>11. Queue(x.st.running, DOMAIN st0.seq)
    BY <1>10, GoodFacts DEF Served
  <1>12. x.st.running = << >>
    BY <1>2, <1>10, <1>11 DEF Queue
  <1> QED
    BY <1>9, <1>10, <1>12

(* Between the phases of schedule(): all the running are in the deque, and *)
(* only they have rows.                                                    *)
Ready(st0, x) ==
    /\ Good(st0, x.st, ToSet(x.st.running), ToSet(x.out.dropped))
    /\ Planned(x.out, DOMAIN st0.seq)
    /\ ToSet(x.out.scheduled) \subseteq ToSet(x.st.running)

(* The running are served and put back.                                    *)
LEMMA RunningServed ==
    ASSUME NEW st0, NEW p, Served(st0, p)
    PROVE  Ready(st0, ServeRunning(p))
  <1>1. PICK y : y = ServeAll(p)
    OBVIOUS
  <1>2. Served(st0, y) /\ y.st.running = << >>
    BY <1>1, AllServed
  <1>3. PICK w : w = y.still
    OBVIOUS
  <1>4. PICK z : z = [y.st EXCEPT !.running = w]
    OBVIOUS
  <1>5. PICK x : x = [st |-> z, out |-> y.out]
    OBVIOUS
  <1>6. ServeRunning(p) = x
    BY <1>1, <1>3, <1>4, <1>5 DEF ServeRunning
  <1>7. x.st = z /\ x.out = y.out
    BY <1>5
  <1>8. PICK D : D = ToSet(y.out.dropped)
    OBVIOUS
  <1>9. PICK run : run = ToSet(w)
    OBVIOUS
  <1>10. ToSet(y.st.running) \cup ToSet(w) = run
    <2>1. ToSet(y.st.running) = {}
      BY <1>2, QueueEmpty
    <2> QED
      BY <1>9, <2>1
  <1>11. Good(st0, y.st, run, D)
    BY <1>2, <1>3, <1>8, <1>10 DEF Served
  <1>12. Queue(w, DOMAIN y.st.seq)
    BY <1>2, <1>3, <1>11, GoodFacts DEF Served
  <1>13. Good(st0, z, run, D) /\ z.running = w
    BY <1>4, <1>11, <1>12, GoodDeque
  <1>14. Planned(y.out, DOMAIN st0.seq) /\ ToSet(y.out.scheduled) \subseteq ToSet(w)
    BY <1>2, <1>3 DEF Served
  <1>15. Ready(st0, x)
    BY <1>7, <1>8, <1>9, <1>13, <1>14 DEF Ready
  <1> QED
    BY <1>6, <1>15

-----------------------------------------------------------------------------
(* Admission. *)

(* r waits, in front of w. *)
Waits(st, run, r, w) ==
    /\ Queue(w, DOMAIN st.seq) /\ ToSet(w) = ToSet(st.waiting) \ {r}
    /\ r \in DOMAIN st.seq /\ IsSeq(st.seq[r]) /\ st.seq[r].status = "WAITING"
    /\ r \in st.live /\ r \notin run /\ r \notin st.recving

(* The request at the head of the waiting queue.                           *)
LEMMA HeadWaits ==
    ASSUME NEW st0, NEW st, NEW run, NEW D, Good(st0, st, run, D), st.waiting # << >>,
           NEW r, r = Head(st.waiting), NEW w, w = Tail(st.waiting)
    PROVE  Waits(st, run, r, w)
  <1>1. Queue(st.waiting, DOMAIN st.seq) /\ Shape(st) /\ Placed(st, run)
    BY DEF Good, Shape
  <1>2. /\ Queue(w, DOMAIN st.seq) /\ r \in DOMAIN st.seq /\ r \notin ToSet(w)
        /\ ToSet(st.waiting) = ToSet(w) \cup {r}
    BY <1>1, QueueTail
  <1>3. st.seq[r].status = "WAITING"
    BY <1>1, <1>2 DEF Placed
  <1>4. r \in st.live /\ r \notin run /\ r \notin st.recving
    BY <1>1, <1>2, <1>3 DEF Placed
  <1>5. IsSeq(st.seq[r])
    BY <1>1, <1>2 DEF Shape
  <1> QED
    BY <1>2, <1>3, <1>4, <1>5 DEF Waits

(* A request that can never be held is dropped from the queue.             *)
LEMMA WaitingDropped ==
    ASSUME NEW st0, NEW p, Ready(st0, p), p.st.waiting # << >>, NEW r, r = Head(p.st.waiting)
    PROVE  Ready(st0, DropWaiting(p.st, p.out, r))
  <1>1. PICK w : w = Tail(p.st.waiting)
    OBVIOUS
  <1>2. PICK run : run = ToSet(p.st.running)
    OBVIOUS
  <1>3. PICK D : D = ToSet(p.out.dropped)
    OBVIOUS
  <1>4. PICK st : st = p.st
    OBVIOUS
  <1>5. Good(st0, st, run, D)
    BY <1>2, <1>3, <1>4 DEF Ready
  <1>6. /\ Queue(w, DOMAIN st.seq) /\ ToSet(w) = ToSet(st.waiting) \ {r}
        /\ r \in DOMAIN st.seq /\ st.seq[r].status \in {"WAITING", "RUNNING"} /\ r \notin run
    <2>1. st.waiting # << >> /\ r = Head(st.waiting) /\ w = Tail(st.waiting)
      BY <1>1, <1>4
    <2>2. Waits(st, run, r, w)
      BY <1>5, <2>1, HeadWaits
    <2> QED
      BY <2>2 DEF Waits
  <1>7. /\ DOMAIN st = SchedFields /\ Queue(st.running, DOMAIN st.seq)
        /\ DOMAIN st.seq = DOMAIN st0.seq
    BY <1>5, GoodFacts
  <1>8. PICK y : y = PolicyPop(st)
    OBVIOUS
  <1>9. /\ DOMAIN y = SchedFields /\ y.seq = st.seq /\ y.live = st.live
        /\ y.recving = st.recving /\ y.sending = st.sending
        /\ y.waiting = w /\ y.running = st.running
    BY <1>1, <1>4, <1>7, <1>8 DEF PolicyPop, SchedFields
  <1>10. PICK gone : gone = Drop(y, r, "capacity")
    OBVIOUS
  <1>11. run = run \ {r}
    BY <1>6
  <1>12. Good(st0, gone, run, D \cup {r})
    <2>1. Queue(y.waiting, DOMAIN st.seq) /\ Queue(y.running, DOMAIN st.seq)
      BY <1>6, <1>7, <1>9
    <2>2. ToSet(y.waiting) = ToSet(st.waiting) \ {r}
      BY <1>6, <1>9
    <2> QED
      BY <1>5, <1>6, <1>9, <1>10, <1>11, <2>1, <2>2, DropMoves
  <1>13. gone.running = st.running
    BY <1>6, <1>9, <1>10 DEF Drop, Finish, SchedFields
  <1>14. PICK d : d = Append(p.out.dropped, r)
    OBVIOUS
  <1>15. PICK S : S = DOMAIN st0.seq
    OBVIOUS
  <1>16. PICK told : told = [p.out EXCEPT !.dropped = d]
    OBVIOUS
  <1>17. PICK l : l = p.out.dropped
    OBVIOUS
  <1>18. List(l, S) /\ r \in S /\ d = Append(l, r)
    BY <1>6, <1>7, <1>14, <1>15, <1>17 DEF Ready, Planned
  <1>19. List(d, S) /\ Adds(l, r, d)
    BY <1>18, ListAppend
  <1>20. DOMAIN told = OutFields /\ told.dropped = d /\ told.scheduled = p.out.scheduled
    BY <1>16 DEF Ready, Planned, OutFields
  <1>21. Planned(told, S) /\ ToSet(told.scheduled) \subseteq run
    BY <1>2, <1>15, <1>19, <1>20 DEF Ready, Planned
  <1>22. D \cup {r} = ToSet(told.dropped)
    BY <1>3, <1>17, <1>19, <1>20 DEF Adds
  <1>23. PICK x : x = [st |-> gone, out |-> told]
    OBVIOUS
  <1>24. x.st = gone /\ x.out = told
    BY <1>23
  <1>25. Ready(st0, x)
    BY <1>2, <1>4, <1>12, <1>13, <1>15, <1>21, <1>22, <1>24 DEF Ready
  <1>26. DropWaiting(p.st, p.out, r) = x
    BY <1>4, <1>8, <1>10, <1>14, <1>16, <1>23 DEF DropWaiting
  <1> QED
    BY <1>25, <1>26

(* A waiting request starts.                                               *)
LEMMA StartedLife ==
    ASSUME NEW s, NEW t, IsSeq(s), s.status \in {"WAITING", "WAITING_FOR_REMOTE_KVS"}, SameLife(s, t),
           NEW status \in {"RUNNING", "WAITING_FOR_REMOTE_KVS"},
           NEW u, u = [t EXCEPT !.status = status]
    PROVE  LifeStep(s, u) /\ u.status = status
  <1>2. /\ DOMAIN t = SeqFields /\ IsSeq(t) /\ t.token_ids = s.token_ids
        /\ t.num_prompt_tokens = s.num_prompt_tokens /\ t.num_new_tokens = s.num_new_tokens
        /\ t.arrival = s.arrival /\ t.finish_reason = s.finish_reason
        /\ t.num_preemptions = s.num_preemptions
    BY DEF SameLife, SameTokens, IsSeq
  <1>3. /\ DOMAIN u = SeqFields /\ u.status = status /\ u.token_ids = t.token_ids
        /\ u.num_prompt_tokens = t.num_prompt_tokens /\ u.num_new_tokens = t.num_new_tokens
        /\ u.arrival = t.arrival /\ u.finish_reason = t.finish_reason
        /\ u.num_preemptions = t.num_preemptions
    BY <1>2 DEF SeqFields
  <1>4. LifeStep(s, u)
    BY <1>2, <1>3 DEF LifeStep, SameTokens, IsSeq, IsFinished, Status
  <1> QED
    BY <1>3, <1>4

(* An admitted request starts to run, or to load.                          *)
LEMMA HeadAdmitted ==
    ASSUME NEW st0, NEW p, Ready(st0, p), p.st.waiting # << >>, NEW r, r = Head(p.st.waiting),
           NEW n
    PROVE  Ready(st0, Admit(p.st, p.out, r, n))
  <1>1. PICK w : w = Tail(p.st.waiting)
    OBVIOUS
  <1>2. PICK run : run = ToSet(p.st.running)
    OBVIOUS
  <1>3. PICK D : D = ToSet(p.out.dropped)
    OBVIOUS
  <1>4. PICK st : st = p.st
    OBVIOUS
  <1>5. PICK out : out = p.out
    OBVIOUS
  <1>6. /\ Good(st0, st, run, D) /\ Planned(out, DOMAIN st0.seq) /\ ToSet(out.scheduled) \subseteq run
        /\ DOMAIN out = OutFields
    BY <1>2, <1>3, <1>4, <1>5 DEF Ready, Planned
  <1>7. /\ Queue(w, DOMAIN st.seq) /\ ToSet(w) = ToSet(st.waiting) \ {r}
        /\ r \in DOMAIN st.seq /\ IsSeq(st.seq[r]) /\ st.seq[r].status = "WAITING"
        /\ r \in st.live /\ r \notin run /\ r \notin st.recving
    <2>1. st.waiting # << >> /\ r = Head(st.waiting) /\ w = Tail(st.waiting)
      BY <1>1, <1>4
    <2>2. Waits(st, run, r, w)
      BY <1>6, <2>1, HeadWaits
    <2> QED
      BY <2>2 DEF Waits
  <1>8. /\ DOMAIN st = SchedFields /\ Queue(st.running, DOMAIN st.seq) /\ Shape(st)
        /\ DOMAIN st.seq = DOMAIN st0.seq
    BY <1>6, GoodFacts
  <1>9. PICK res : res = Allocate(st.bm, st.seq[r], n, NumLookaheadTokens)
    OBVIOUS
  <1>10. SameLife(st.seq[r], res.seq)
    BY <1>7, <1>9, AllocateLife
  <1>11. PICK z : z = WithBlocks(PolicyPop(st), r, res)
    OBVIOUS
  <1>12. /\ DOMAIN z = SchedFields /\ DOMAIN z.seq = DOMAIN st.seq /\ z.seq[r] = res.seq
         /\ \A q \in DOMAIN st.seq : q # r => z.seq[q] = st.seq[q]
         /\ z.waiting = w /\ z.running = st.running /\ z.live = st.live
         /\ z.recving = st.recving /\ z.sending = st.sending
    BY <1>1, <1>4, <1>7, <1>8, <1>11 DEF WithBlocks, PolicyPop, SchedFields
  <1>13. PICK s : s = z.seq[r]
    OBVIOUS
  <1>14. PICK fl : fl = IF LoadsRemotely(s) THEN [z EXCEPT !.seq[r].do_remote_prefill = FALSE] ELSE z
    OBVIOUS
  <1>15. /\ DOMAIN fl = SchedFields /\ DOMAIN fl.seq = DOMAIN st.seq
         /\ SameLife(st.seq[r], fl.seq[r])
         /\ \A q \in DOMAIN st.seq : q # r => fl.seq[q] = st.seq[q]
         /\ fl.waiting = w /\ fl.running = st.running /\ fl.live = st.live
         /\ fl.recving = st.recving /\ fl.sending = st.sending
    <2>1. CASE ~LoadsRemotely(s)
      <3>1. fl = z
        BY <1>14, <2>1
      <3> QED
        BY <1>10, <1>12, <3>1
    <2>2. CASE LoadsRemotely(s)
      <3>1. PICK no : no = FALSE
        OBVIOUS
      <3>2. fl = [z EXCEPT !.seq[r].do_remote_prefill = no]
        BY <1>14, <2>2, <3>1
      <3>3. SameLife(st.seq[r], [z.seq[r] EXCEPT !.do_remote_prefill = no])
        BY <1>10, <1>12 DEF SameLife, SameTokens, IsSeq, SeqFields
      <3>4. fl.seq[r] = [z.seq[r] EXCEPT !.do_remote_prefill = no]
        BY <1>7, <1>12, <3>2 DEF SchedFields
      <3> QED
        BY <1>7, <1>12, <3>2, <3>3, <3>4 DEF SchedFields
    <2> QED
      BY <2>1, <2>2
  <1>16. PICK x : x = Admitted(z, out, r)
    OBVIOUS
  <1>17. ASSUME NumExternalTokens(s, r) > 0 PROVE Ready(st0, x)
    <2>1. PICK l : l = (r :> [first |-> s.num_cached_tokens + 1, blocks |-> s.block_table]) @@ fl.loads
      OBVIOUS
    <2>2. PICK y : y = [fl EXCEPT !.seq[r].status = "WAITING_FOR_REMOTE_KVS",
                                  !.recving = @ \cup {r}, !.loads = l]
      OBVIOUS
    <2>3. x = [st |-> y, out |-> out]
      BY <1>13, <1>14, <1>15, <1>16, <1>17, <2>1, <2>2 DEF Admitted, SchedFields
    <2>4. x.st = y /\ x.out = out
      BY <2>3
    <2>5. /\ DOMAIN y = SchedFields /\ DOMAIN y.seq = DOMAIN st.seq
          /\ \A q \in DOMAIN st.seq : q # r => y.seq[q] = st.seq[q]
          /\ y.seq[r] = [fl.seq[r] EXCEPT !.status = "WAITING_FOR_REMOTE_KVS"]
          /\ y.waiting = w /\ y.running = st.running /\ y.live = st.live
          /\ y.recving = st.recving \cup {r} /\ y.sending = st.sending
      BY <1>7, <1>15, <2>2 DEF SchedFields
    <2>6. LifeStep(st.seq[r], y.seq[r]) /\ y.seq[r].status = "WAITING_FOR_REMOTE_KVS"
      <3>1. PICK t : t = fl.seq[r]
        OBVIOUS
      <3>2. PICK a : a = st.seq[r]
        OBVIOUS
      <3>3. PICK u : u = y.seq[r]
        OBVIOUS
      <3>4. /\ IsSeq(a) /\ a.status = "WAITING" /\ SameLife(a, t)
            /\ u = [t EXCEPT !.status = "WAITING_FOR_REMOTE_KVS"]
        BY <1>7, <1>15, <2>5, <3>1, <3>2, <3>3
      <3>5. LifeStep(a, u) /\ u.status = "WAITING_FOR_REMOTE_KVS"
        BY <3>4, StartedLife
      <3> QED
        BY <3>2, <3>3, <3>5
    <2>7. Tracked(y) \subseteq Tracked(st)
      BY <1>7, <2>5 DEF Tracked
    <2>8. Moves(st, y, r, run, run)
      BY <1>7, <1>8, <2>5, <2>6, <2>7 DEF Moves
    <2>9. ~IsFinished(y.seq[r])
      BY <2>6 DEF IsFinished
    <2>10. Good(st0, y, run, D)
      BY <1>6, <1>7, <2>8, <2>9, GoodMove
    <2> QED
      BY <1>2, <1>3, <1>4, <1>5, <1>6, <2>4, <2>5, <2>10 DEF Ready
  <1>18. ASSUME ~(NumExternalTokens(s, r) > 0) PROVE Ready(st0, x)
    <2>1. PICK v : v = Append(st.running, r)
      OBVIOUS
    <2>2. PICK y : y = [fl EXCEPT !.seq[r].status = "RUNNING", !.running = v]
      OBVIOUS
    <2>3. x = ScheduleRow(y, out, r)
      BY <1>13, <1>14, <1>15, <1>16, <1>18, <2>1, <2>2 DEF Admitted, SchedFields
    <2>4. /\ DOMAIN y = SchedFields /\ DOMAIN y.seq = DOMAIN st.seq
          /\ \A q \in DOMAIN st.seq : q # r => y.seq[q] = st.seq[q]
          /\ y.seq[r] = [fl.seq[r] EXCEPT !.status = "RUNNING"]
          /\ y.waiting = w /\ y.running = v /\ y.live = st.live
          /\ y.recving = st.recving /\ y.sending = st.sending
      BY <1>7, <1>15, <2>2 DEF SchedFields
    <2>5. LifeStep(st.seq[r], y.seq[r]) /\ y.seq[r].status = "RUNNING"
      <3>1. PICK t : t = fl.seq[r]
        OBVIOUS
      <3>2. PICK a : a = st.seq[r]
        OBVIOUS
      <3>3. PICK u : u = y.seq[r]
        OBVIOUS
      <3>4. /\ IsSeq(a) /\ a.status = "WAITING" /\ SameLife(a, t)
            /\ u = [t EXCEPT !.status = "RUNNING"]
        BY <1>7, <1>15, <2>4, <3>1, <3>2, <3>3
      <3>5. LifeStep(a, u) /\ u.status = "RUNNING"
        BY <3>4, StartedLife
      <3> QED
        BY <3>2, <3>3, <3>5
    <2>6. Tracked(y) = Tracked(st)
      BY <2>4 DEF Tracked
    <2>7. Queue(v, DOMAIN st.seq) /\ ToSet(v) = run \cup {r}
      <3>1. r \notin ToSet(st.running)
        BY <1>2, <1>4, <1>7
      <3>2. Queue(v, DOMAIN st.seq) /\ ToSet(v) = ToSet(st.running) \cup {r}
        BY <1>7, <1>8, <2>1, <3>1, QueueAppend
      <3> QED
        BY <1>2, <1>4, <3>2
    <2>8. PICK run2 : run2 = ToSet(v)
      OBVIOUS
    <2>9. Moves(st, y, r, run, run2)
      BY <1>7, <1>8, <2>4, <2>5, <2>6, <2>7, <2>8 DEF Moves
    <2>10. ~IsFinished(y.seq[r])
      BY <2>5 DEF IsFinished
    <2>11. Good(st0, y, run2, D)
      BY <1>6, <1>7, <2>9, <2>10, GoodMove
    <2>12. Shape(y) /\ r \in DOMAIN y.seq
      BY <1>7, <2>4, <2>11, GoodFacts
    <2>13. /\ Touches(y, x.st, r) /\ DOMAIN x.out = OutFields
           /\ x.out.scheduled = Append(out.scheduled, r) /\ x.out.dropped = out.dropped
      BY <1>6, <2>3, <2>12, RowTouches
    <2>14. Good(st0, x.st, run2, D) /\ x.st.running = v
      <3>1. x.st.running = v
        BY <2>4, <2>13 DEF Touches
      <3>2. Good(st0, x.st, run2, D)
        BY <2>11, <2>12, <2>13, GoodTouch
      <3> QED
        BY <3>1, <3>2
    <2>15. PICK sch : sch = Append(out.scheduled, r)
      OBVIOUS
    <2>16. Queue(sch, DOMAIN st0.seq) /\ ToSet(sch) = ToSet(out.scheduled) \cup {r}
      <3>1. /\ Queue(out.scheduled, DOMAIN st0.seq) /\ r \in DOMAIN st0.seq
            /\ r \notin ToSet(out.scheduled)
        BY <1>6, <1>7, <1>8 DEF Planned
      <3> QED
        BY <2>15, <3>1, QueueAppend
    <2>17. Planned(x.out, DOMAIN st0.seq) /\ ToSet(x.out.scheduled) \subseteq run2
      BY <1>6, <2>7, <2>8, <2>13, <2>15, <2>16 DEF Planned
    <2> QED
      BY <1>3, <1>5, <2>8, <2>13, <2>14, <2>17 DEF Ready
  <1>19. Admit(p.st, p.out, r, n) = x
    BY <1>4, <1>5, <1>9, <1>11, <1>16 DEF Admit
  <1>20. Ready(st0, x)
    BY <1>17, <1>18
  <1> QED
    BY <1>19, <1>20

(* The admission loop, with chunked prefill. *)
ChunkRound(a, b, c, p, i) == AdmitNext(p)
ReadyInv(a, b, c, p, i) == Ready(a, p)
ChunkLoop == INSTANCE Loops WITH Round <- ChunkRound, Inv <- ReadyInv

(* The next request is admitted or dropped, or waits on.                   *)
LEMMA NextAdmitted ==
    ASSUME NEW st0, NEW p, Ready(st0, p)
    PROVE  Ready(st0, AdmitNext(p))
  <1>1. PICK r : r = Head(p.st.waiting)
    OBVIOUS
  <1>2. PICK s : s = p.st.seq[r]
    OBVIOUS
  <1>3. PICK n : n = CanAllocate(p.st.bm, s, NumLookaheadTokens)
    OBVIOUS
  <1>4. AdmitNext(p) =
          IF p.st.waiting = << >> \/ StepIsFull(p.out) THEN p
          ELSE IF NeverFits(s) THEN DropWaiting(p.st, p.out, r)
          ELSE IF n = -1 THEN p
          ELSE Admit(p.st, p.out, r, n)
    BY <1>1, <1>2, <1>3 DEF AdmitNext
  <1>5. CASE p.st.waiting = << >> \/ StepIsFull(p.out)
    BY <1>4, <1>5
  <1>6. CASE ~(p.st.waiting = << >> \/ StepIsFull(p.out))
    <2>1. Ready(st0, DropWaiting(p.st, p.out, r))
      BY <1>1, <1>6, WaitingDropped
    <2>2. Ready(st0, Admit(p.st, p.out, r, n))
      BY <1>1, <1>6, HeadAdmitted
    <2> QED
      BY <1>4, <1>6, <2>1, <2>2
  <1> QED
    BY <1>5, <1>6

(* Everything stays in order while requests are admitted.                  *)
LEMMA ChunkedAdmitted ==
    ASSUME NEW st0, NEW p, Ready(st0, p)
    PROVE  Ready(st0, AdmitChunked(p))
  <1>1. PICK k : k = Len(p.st.waiting)
    OBVIOUS
  <1>2. k \in Nat
    BY <1>1, GoodFacts DEF Ready, Queue
  <1>3. ReadyInv(st0, 0, 0, p, 0)
    BY DEF ReadyInv
  <1>4. ASSUME NEW i \in 1..k, NEW q, ReadyInv(st0, 0, 0, q, i - 1)
        PROVE  ReadyInv(st0, 0, 0, ChunkRound(st0, 0, 0, q, i), i)
    BY <1>4, NextAdmitted DEF ReadyInv, ChunkRound
  <1>5. ReadyInv(st0, 0, 0, ChunkLoop!Loop(st0, 0, 0, p, k), k)
    BY <1>2, <1>3, <1>4, CountsUp, ChunkLoop!LoopInvariant
  <1>6. AdmitChunked(p) = ChunkLoop!Loop(st0, 0, 0, p, k)
    BY <1>1 DEF AdmitChunked, Repeat, ChunkLoop!Loop, ChunkRound
  <1> QED
    BY <1>5, <1>6 DEF ReadyInv

(* _schedule_whole_prompts. *)
WholeRound(a, b, c, p, i) == AdmitNextWhole(p)
WholeLoop == INSTANCE Loops WITH Round <- WholeRound, Inv <- ReadyInv

(* The next request is admitted or dropped, or waits on.                   *)
LEMMA NextAdmittedWhole ==
    ASSUME NEW st0, NEW p, Ready(st0, p)
    PROVE  Ready(st0, AdmitNextWhole(p))
  <1>1. PICK r : r = Head(p.st.waiting)
    OBVIOUS
  <1>2. PICK s : s = p.st.seq[r]
    OBVIOUS
  <1>3. PICK n : n = CanAllocate(p.st.bm, s, NumLookaheadTokens)
    OBVIOUS
  <1>4. PICK m : m = IF LoadsRemotely(s) THEN 0 ELSE NumTokens(s) - n * BlockSize
    OBVIOUS
  <1>5. AdmitNextWhole(p) =
          IF p.st.waiting = << >> \/ Len(p.out.scheduled) >= MaxNumSeqs THEN p
          ELSE IF NeverFits(s) THEN DropWaiting(p.st, p.out, r)
          ELSE IF n = -1 THEN p
          ELSE IF m > MaxNumBatchedTokens THEN DropWaiting(p.st, p.out, r)
          ELSE IF m > p.out.budget THEN p
          ELSE Admit(p.st, p.out, r, n)
    BY <1>1, <1>2, <1>3, <1>4 DEF AdmitNextWhole
  <1>6. CASE p.st.waiting = << >> \/ Len(p.out.scheduled) >= MaxNumSeqs
    BY <1>5, <1>6
  <1>7. CASE ~(p.st.waiting = << >> \/ Len(p.out.scheduled) >= MaxNumSeqs)
    <2>1. Ready(st0, DropWaiting(p.st, p.out, r))
      BY <1>1, <1>7, WaitingDropped
    <2>2. Ready(st0, Admit(p.st, p.out, r, n))
      BY <1>1, <1>7, HeadAdmitted
    <2> QED
      BY <1>5, <1>7, <2>1, <2>2
  <1> QED
    BY <1>6, <1>7

(* Everything stays in order while whole prompts are admitted.             *)
LEMMA WholeAdmitted ==
    ASSUME NEW st0, NEW p, Ready(st0, p)
    PROVE  Ready(st0, AdmitWholePrompts(p))
  <1>1. PICK k : k = Len(p.st.waiting)
    OBVIOUS
  <1>2. k \in Nat
    BY <1>1, GoodFacts DEF Ready, Queue
  <1>3. ReadyInv(st0, 0, 0, p, 0)
    BY DEF ReadyInv
  <1>4. ASSUME NEW i \in 1..k, NEW q, ReadyInv(st0, 0, 0, q, i - 1)
        PROVE  ReadyInv(st0, 0, 0, WholeRound(st0, 0, 0, q, i), i)
    BY <1>4, NextAdmittedWhole DEF ReadyInv, WholeRound
  <1>5. ReadyInv(st0, 0, 0, WholeLoop!Loop(st0, 0, 0, p, k), k)
    BY <1>2, <1>3, <1>4, CountsUp, WholeLoop!LoopInvariant
  <1>6. AdmitWholePrompts(p) = WholeLoop!Loop(st0, 0, 0, p, k)
    BY <1>1 DEF AdmitWholePrompts, Repeat, WholeLoop!Loop, WholeRound
  <1> QED
    BY <1>5, <1>6 DEF ReadyInv

(* The policy's order of service changes who comes first, nothing else.    *)
LEMMA UrgencySorts ==
    ASSUME NEW st0, NEW st, NEW run, NEW D, Good(st0, st, run, D), run = ToSet(st.running)
    PROVE  LET x == ByUrgency(st) IN Good(st0, x, run, D) /\ ToSet(x.running) = run
  <1>1. CASE SchedulingPolicy = "fcfs"
    BY <1>1 DEF ByUrgency
  <1>2. CASE SchedulingPolicy # "fcfs"
    <2>1. PICK x : x = ByUrgency(st)
      OBVIOUS
    <2>2. PICK w : w = x.running
      OBVIOUS
    <2>3. Shape(st) /\ DOMAIN st = SchedFields
      BY GoodFacts
    <2>4. Queue(w, DOMAIN st.seq) /\ ToSet(w) = run
      BY <1>2, <2>1, <2>2, <2>3, SortedByUrgency
    <2>5. x = [st EXCEPT !.running = w]
      BY <1>2, <2>1, <2>2, <2>3 DEF ByUrgency, SchedFields
    <2>6. Good(st0, x, run, D)
      BY <2>4, <2>5, GoodDeque
    <2> QED
      BY <2>1, <2>2, <2>4, <2>6
  <1> QED
    BY <1>1, <1>2

(* schedule(), after whole prompts were tried.                             *)
LEMMA RestScheduled ==
    ASSUME NEW st0, NEW p, Ready(st0, p)
    PROVE  Ready(st0, AfterWholePrompts(p))
  <1>1. PICK y : y = ByUrgency(p.st)
    OBVIOUS
  <1>2. PICK o : o = [NewOutput EXCEPT !.dropped = p.out.dropped]
    OBVIOUS
  <1>3. PICK q : q = [st |-> y, out |-> o, still |-> << >>]
    OBVIOUS
  <1>4. q.st = y /\ q.out = o /\ q.still = << >>
    BY <1>3
  <1>5. PICK run : run = ToSet(p.st.running)
    OBVIOUS
  <1>6. PICK D : D = ToSet(p.out.dropped)
    OBVIOUS
  <1>7. Good(st0, p.st, run, D)
    BY <1>5, <1>6 DEF Ready
  <1>8. Good(st0, y, run, D) /\ ToSet(y.running) = run
    BY <1>1, <1>5, <1>7, UrgencySorts
  <1>9. /\ DOMAIN o = OutFields /\ o.scheduled = << >> /\ o.dropped = p.out.dropped
    BY <1>2 DEF NewOutput, OutFields
  <1>10. Planned(o, DOMAIN st0.seq) /\ ToSet(o.scheduled) = {}
    BY <1>9, QueueEmpty DEF Ready, Planned
  <1>11. PICK e : e = << >>
    OBVIOUS
  <1>12. Queue(e, DOMAIN st0.seq) /\ ToSet(e) = {}
    BY <1>11, QueueEmpty
  <1>13. Apart(y.running, e) /\ ToSet(y.running) \cup ToSet(e) = run
    BY <1>8, <1>12 DEF Apart
  <1>14. Good(st0, q.st, ToSet(q.st.running) \cup ToSet(q.still), ToSet(q.out.dropped))
    BY <1>4, <1>6, <1>8, <1>9, <1>11, <1>13
  <1>15. Served(st0, q)
    BY <1>4, <1>10, <1>11, <1>12, <1>13, <1>14 DEF Served
  <1>16. PICK x : x = ServeRunning(q)
    OBVIOUS
  <1>17. Ready(st0, x)
    BY <1>15, <1>16, RunningServed
  <1>18. Ready(st0, AdmitChunked(x))
    BY <1>17, ChunkedAdmitted
  <1>19. Serving(p) = x
    BY <1>1, <1>2, <1>3, <1>16 DEF Serving
  <1>20. Ready(st0, Admitting(x))
    BY <1>17, <1>18 DEF Admitting
  <1> QED
    BY <1>19, <1>20 DEF AfterWholePrompts

(* The scheduler between two calls. *)
Settled(st) == Shape(st) /\ Placed(st, ToSet(st.running))

(* A plan not yet begun.                                                   *)
LEMMA GoodStart ==
    ASSUME NEW st, Settled(st), NEW run, run = ToSet(st.running)
    PROVE  Good(st, st, run, {})
  <1>1. \A r \in DOMAIN st.seq : LifeStep(st.seq[r], st.seq[r])
    BY DEF Settled, Shape, LifeStep, SameTokens, IsSeq
  <1>2. Evolves(st, st, {})
    BY <1>1 DEF Evolves
  <1> QED
    BY <1>2 DEF Settled, Good

(* schedule(): from a scheduler in order, a scheduler in order and a plan. *)
LEMMA ScheduleReady ==
    ASSUME NEW st, Settled(st)
    PROVE  Ready(st, Schedule(st))
  <1>1. PICK p : p = [st |-> st, out |-> NewOutput]
    OBVIOUS
  <1>2. p.st = st /\ p.out = NewOutput
    BY <1>1
  <1>3. PICK run : run = ToSet(st.running)
    OBVIOUS
  <1>4. Good(st, st, run, {})
    BY <1>3, GoodStart
  <1>5. PICK o : o = NewOutput
    OBVIOUS
  <1>6. DOMAIN o = OutFields /\ o.scheduled = << >> /\ o.dropped = << >>
    BY <1>5 DEF NewOutput, OutFields
  <1>7. Planned(o, DOMAIN st.seq) /\ ToSet(o.scheduled) = {} /\ ToSet(o.dropped) = {}
    BY <1>6, QueueEmpty DEF Planned, List
  <1>8. Ready(st, p)
    BY <1>2, <1>3, <1>4, <1>5, <1>7 DEF Ready
  <1>9. Ready(st, AdmitWholePrompts(p))
    BY <1>8, WholeAdmitted
  <1>10. PICK q : q = IF EnableChunkedPrefill THEN p ELSE AdmitWholePrompts(p)
    OBVIOUS
  <1>11. Ready(st, q)
    BY <1>8, <1>9, <1>10
  <1>12. Ready(st, AfterWholePrompts(q))
    BY <1>11, RestScheduled
  <1> QED
    BY <1>1, <1>10, <1>12 DEF Schedule

-----------------------------------------------------------------------------
(* Transfers that end. *)

(* A send ends: its blocks are released.                                   *)
LEMMA SendEnded ==
    ASSUME NEW st0, NEW st, NEW run, NEW D, Good(st0, st, run, D), NEW r \in DOMAIN st.seq
    PROVE  LET x == EndSend(st, r)
           IN  /\ Good(st0, x, run, D) /\ x.running = st.running /\ x.recving = st.recving
  <1>1. PICK y : y = [st EXCEPT !.sending = @ \ {r}]
    OBVIOUS
  <1>2. /\ DOMAIN st = SchedFields /\ Shape(st) /\ Placed(st, run) /\ IsSeq(st.seq[r])
        /\ Queue(st.waiting, DOMAIN st.seq) /\ Queue(st.running, DOMAIN st.seq)
    BY DEF Good, Shape
  <1>3. /\ DOMAIN y = SchedFields /\ y.seq = st.seq /\ y.waiting = st.waiting
        /\ y.running = st.running /\ y.live = st.live /\ y.recving = st.recving
        /\ y.sending = st.sending \ {r}
    BY <1>1, <1>2 DEF SchedFields
  <1>4. LifeStep(st.seq[r], st.seq[r])
    BY <1>2 DEF LifeStep, SameTokens, IsSeq
  <1>5. Tracked(y) \subseteq Tracked(st)
    BY <1>3 DEF Tracked
  <1>6. Moves(st, y, r, run, run)
    BY <1>2, <1>3, <1>4, <1>5 DEF Moves, Placed
  <1>7. ~(IsFinished(y.seq[r]) /\ ~IsFinished(st.seq[r]))
    BY <1>3
  <1>8. Good(st0, y, run, D)
    BY <1>6, <1>7, GoodMove
  <1>9. PICK x : x = ReleaseBlocks(y, r)
    OBVIOUS
  <1>10. Shape(y) /\ r \in DOMAIN y.seq
    BY <1>3, <1>8, GoodFacts
  <1>11. Touches(y, x, r)
    BY <1>9, <1>10, ReleaseTouches
  <1>12. Good(st0, x, run, D)
    BY <1>8, <1>10, <1>11, GoodTouch
  <1>13. x.running = st.running /\ x.recving = st.recving
    BY <1>3, <1>11 DEF Touches
  <1>14. EndSend(st, r) = x
    BY <1>1, <1>9 DEF EndSend
  <1> QED
    BY <1>12, <1>13, <1>14

(* A load ends: an aborted request releases its blocks, another runs.      *)
LEMMA LoadEnded ==
    ASSUME NEW st0, NEW st, NEW run, NEW D, Good(st0, st, run, D), run = ToSet(st.running),
           NEW r \in DOMAIN st.seq, r \in st.recving, NEW loaded
    PROVE  LET x == EndLoad(st, r, loaded)
           IN  /\ Good(st0, x, ToSet(x.running), D)
               /\ run \subseteq ToSet(x.running) /\ x.recving = st.recving \ {r}
  <1>1. PICK gone : gone = [st EXCEPT !.recving = @ \ {r}]
    OBVIOUS
  <1>2. /\ DOMAIN st = SchedFields /\ Shape(st) /\ Placed(st, run) /\ IsSeq(st.seq[r])
        /\ Queue(st.waiting, DOMAIN st.seq) /\ Queue(st.running, DOMAIN st.seq)
    BY DEF Good, Shape
  <1>3. /\ DOMAIN gone = SchedFields /\ gone.seq = st.seq /\ gone.waiting = st.waiting
        /\ gone.running = st.running /\ gone.live = st.live
        /\ gone.recving = st.recving \ {r} /\ gone.sending = st.sending
    BY <1>1, <1>2 DEF SchedFields
  <1>4. PICK x : x = EndLoad(st, r, loaded)
    OBVIOUS
  <1>5. PICK s : s = st.seq[r]
    OBVIOUS
  <1>6. ASSUME IsFinished(s)
        PROVE  /\ Good(st0, x, ToSet(x.running), D)
               /\ run \subseteq ToSet(x.running) /\ x.recving = st.recving \ {r}
    <2>1. x = ReleaseBlocks(gone, r)
      BY <1>1, <1>4, <1>5, <1>6 DEF EndLoad
    <2>2. LifeStep(st.seq[r], st.seq[r])
      BY <1>2 DEF LifeStep, SameTokens, IsSeq
    <2>3. Tracked(gone) \subseteq Tracked(st)
      BY <1>3 DEF Tracked
    <2>4. st.seq[r].status = "FINISHED"
      BY <1>5, <1>6 DEF IsFinished
    <2>5. Moves(st, gone, r, run, run)
      BY <1>2, <1>3, <2>2, <2>3, <2>4 DEF Moves, Placed
    <2>6. ~(IsFinished(gone.seq[r]) /\ ~IsFinished(st.seq[r]))
      BY <1>3
    <2>7. Good(st0, gone, run, D)
      BY <2>5, <2>6, GoodMove
    <2>8. Shape(gone) /\ r \in DOMAIN gone.seq
      BY <1>3, <2>7, GoodFacts
    <2>9. Touches(gone, x, r)
      BY <2>1, <2>8, ReleaseTouches
    <2>10. Good(st0, x, run, D)
      BY <2>7, <2>8, <2>9, GoodTouch
    <2> QED
      BY <1>3, <2>9, <2>10 DEF Touches
  <1>7. ASSUME ~IsFinished(s)
        PROVE  /\ Good(st0, x, ToSet(x.running), D)
               /\ run \subseteq ToSet(x.running) /\ x.recving = st.recving \ {r}
    <2>1. PICK computed : computed = s.num_prompt_tokens - 1
      OBVIOUS
    <2>2. PICK filled : filled = [s EXCEPT !.num_cached_tokens = computed]
      OBVIOUS
    <2>3. PICK hashed : hashed = HashBlocks(st.bm, filled, computed)
      OBVIOUS
    <2>4. IsSeq(s) /\ SameLife(s, filled) /\ IsSeq(filled)
      BY <1>2, <1>5, <2>2 DEF SameLife, SameTokens, IsSeq, SeqFields
    <2>5. SameLife(s, hashed.seq)
      <3>1. SameLife(filled, hashed.seq)
        BY <2>3, <2>4, HashBlocksLife
      <3> QED
        BY <2>4, <3>1, SameLifeTrans
    <2>6. PICK y : y = IF loaded THEN WithBlocks(gone, r, hashed) ELSE gone
      OBVIOUS
    <2>7. /\ DOMAIN y = SchedFields /\ DOMAIN y.seq = DOMAIN st.seq /\ SameLife(s, y.seq[r])
          /\ \A q \in DOMAIN st.seq : q # r => y.seq[q] = st.seq[q]
          /\ y.waiting = st.waiting /\ y.running = st.running /\ y.live = st.live
          /\ y.recving = st.recving \ {r} /\ y.sending = st.sending
      <3>1. CASE loaded
        <4>1. y = WithBlocks(gone, r, hashed)
          BY <2>6, <3>1
        <4> QED
          BY <1>3, <2>5, <4>1 DEF WithBlocks, SchedFields
      <3>2. CASE ~loaded
        <4>1. y = gone
          BY <2>6, <3>2
        <4>2. SameLife(s, s)
          BY <2>4 DEF SameLife, SameTokens
        <4> QED
          BY <1>3, <1>5, <4>1, <4>2
      <3> QED
        BY <3>1, <3>2
    <2>8. PICK v : v = Append(st.running, r)
      OBVIOUS
    <2>9. x = [y EXCEPT !.seq[r].status = "RUNNING", !.running = v]
      <3>1. x = [y EXCEPT !.seq[r].status = "RUNNING", !.running = Append(@, r)]
        BY <1>1, <1>4, <1>5, <1>7, <2>1, <2>2, <2>3, <2>6 DEF EndLoad
      <3> QED
        BY <2>7, <2>8, <3>1 DEF SchedFields
    <2>10. /\ DOMAIN x = SchedFields /\ DOMAIN x.seq = DOMAIN st.seq
           /\ x.seq[r] = [y.seq[r] EXCEPT !.status = "RUNNING"]
           /\ \A q \in DOMAIN st.seq : q # r => x.seq[q] = st.seq[q]
           /\ x.waiting = st.waiting /\ x.running = v /\ x.live = st.live
           /\ x.recving = st.recving \ {r} /\ x.sending = st.sending
      BY <2>7, <2>9 DEF SchedFields
    <2>11. s.status = "WAITING_FOR_REMOTE_KVS" /\ r \notin run /\ r \in st.live
      BY <1>2, <1>5, <1>7 DEF Placed, IsFinished
    <2>12. LifeStep(st.seq[r], x.seq[r]) /\ x.seq[r].status = "RUNNING"
      <3>1. PICK t : t = y.seq[r]
        OBVIOUS
      <3>2. PICK u : u = x.seq[r]
        OBVIOUS
      <3>3. /\ IsSeq(s) /\ s.status = "WAITING_FOR_REMOTE_KVS" /\ SameLife(s, t)
            /\ u = [t EXCEPT !.status = "RUNNING"]
        BY <2>4, <2>7, <2>10, <2>11, <3>1, <3>2
      <3>4. LifeStep(s, u) /\ u.status = "RUNNING"
        BY <3>3, StartedLife
      <3> QED
        BY <1>5, <3>2, <3>4
    <2>13. Queue(v, DOMAIN st.seq) /\ ToSet(v) = run \cup {r}
      <3>1. r \notin ToSet(st.running)
        BY <2>11
      <3>2. Queue(v, DOMAIN st.seq) /\ ToSet(v) = ToSet(st.running) \cup {r}
        BY <1>2, <2>8, <3>1, QueueAppend
      <3> QED
        BY <3>2
    <2>14. Tracked(x) \subseteq Tracked(st)
      BY <2>10 DEF Tracked
    <2>15. PICK run2 : run2 = ToSet(v)
      OBVIOUS
    <2>16. Moves(st, x, r, run, run2)
      <3>1. r \notin ToSet(st.waiting)
        BY <1>2, <1>5, <2>11 DEF Placed
      <3> QED
        BY <1>2, <2>10, <2>11, <2>12, <2>13, <2>14, <2>15, <3>1 DEF Moves
    <2>17. ~IsFinished(x.seq[r])
      BY <2>12 DEF IsFinished
    <2>18. Good(st0, x, run2, D)
      BY <2>16, <2>17, GoodMove
    <2> QED
      BY <2>10, <2>13, <2>15, <2>18
  <1> QED
    BY <1>4, <1>6, <1>7

SendsRound(a, b, c, p, i) == EndSend(p, b[i])
SendsInv(a, b, c, p, i) ==
    Good(a[1], p, ToSet(p.running), a[2]) /\ p.running = a[3] /\ p.recving = a[4]
SendsLoop == INSTANCE Loops WITH Round <- SendsRound, Inv <- SendsInv

(* The sends that ended.                                                   *)
LEMMA SendsEnded ==
    ASSUME NEW st0, NEW st, NEW D, Good(st0, st, ToSet(st.running), D),
           NEW sent, Queue(sent, DOMAIN st0.seq)
    PROVE  LET x == EndSends(st, sent)
           IN  Good(st0, x, ToSet(x.running), D) /\ x.running = st.running /\ x.recving = st.recving
  <1>1. PICK k : k = Len(sent)
    OBVIOUS
  <1>2. k \in Nat /\ \A i \in 1..k : sent[i] \in DOMAIN st0.seq
    BY <1>1 DEF Queue
  <1>3. PICK a : a = <<st0, D, st.running, st.recving>>
    OBVIOUS
  <1>4. a[1] = st0 /\ a[2] = D /\ a[3] = st.running /\ a[4] = st.recving
    BY <1>3
  <1>5. SendsInv(a, sent, 0, st, 0)
    BY <1>4 DEF SendsInv
  <1>6. ASSUME NEW i \in 1..k, NEW q, SendsInv(a, sent, 0, q, i - 1)
        PROVE  SendsInv(a, sent, 0, SendsRound(a, sent, 0, q, i), i)
    <2>1. Good(st0, q, ToSet(q.running), D) /\ q.running = st.running /\ q.recving = st.recving
      BY <1>4, <1>6 DEF SendsInv
    <2>2. PICK r : r = sent[i]
      OBVIOUS
    <2>3. r \in DOMAIN q.seq
      BY <1>2, <2>1, <2>2, GoodFacts
    <2>4. PICK x : x = EndSend(q, r)
      OBVIOUS
    <2>5. PICK run : run = ToSet(q.running)
      OBVIOUS
    <2>6. Good(st0, x, run, D) /\ x.running = q.running /\ x.recving = q.recving
      BY <2>1, <2>3, <2>4, <2>5, SendEnded
    <2>7. SendsInv(a, sent, 0, x, i)
      BY <1>4, <2>1, <2>5, <2>6 DEF SendsInv
    <2> QED
      BY <2>2, <2>4, <2>7 DEF SendsRound
  <1>7. SendsInv(a, sent, 0, SendsLoop!Loop(a, sent, 0, st, k), k)
    BY <1>2, <1>5, <1>6, CountsUp, SendsLoop!LoopInvariant
  <1>8. EndSends(st, sent) = SendsLoop!Loop(a, sent, 0, st, k)
    BY <1>1 DEF EndSends, Repeat, SendsLoop!Loop, SendsRound
  <1> QED
    BY <1>4, <1>7, <1>8 DEF SendsInv

LoadsRound(a, b, c, p, i) == EndLoad(p, b[i], b[i] \in c)
LoadsInv(a, b, c, p, i) ==
    /\ Good(a[1], p, ToSet(p.running), a[2]) /\ a[3] \subseteq ToSet(p.running)
    /\ \A j \in 1..Len(b) : j > i => b[j] \in p.recving
LoadsLoop == INSTANCE Loops WITH Round <- LoadsRound, Inv <- LoadsInv

(* The loads that ended, in any order.                                     *)
LEMMA LoadsEnded ==
    ASSUME NEW st0, NEW st, NEW D, Good(st0, st, ToSet(st.running), D),
           NEW ended, Queue(ended, st.recving), NEW loaded
    PROVE  LET x == EndLoads(st, ended, loaded)
           IN  Good(st0, x, ToSet(x.running), D) /\ ToSet(st.running) \subseteq ToSet(x.running)
  <1>1. PICK k : k = Len(ended)
    OBVIOUS
  <1>2. /\ k \in Nat /\ \A i \in 1..k : ended[i] \in st.recving
        /\ \A i, j \in 1..k : ended[i] = ended[j] => i = j
    BY <1>1 DEF Queue, Injective
  <1>3. PICK a : a = <<st0, D, ToSet(st.running)>>
    OBVIOUS
  <1>4. a[1] = st0 /\ a[2] = D /\ a[3] = ToSet(st.running)
    BY <1>3
  <1>5. LoadsInv(a, ended, loaded, st, 0)
    BY <1>1, <1>2, <1>4 DEF LoadsInv
  <1>6. ASSUME NEW i \in 1..k, NEW q, LoadsInv(a, ended, loaded, q, i - 1)
        PROVE  LoadsInv(a, ended, loaded, LoadsRound(a, ended, loaded, q, i), i)
    <2>1. /\ Good(st0, q, ToSet(q.running), D) /\ ToSet(st.running) \subseteq ToSet(q.running)
          /\ \A j \in 1..k : j > i - 1 => ended[j] \in q.recving
      BY <1>1, <1>4, <1>6 DEF LoadsInv
    <2>2. PICK r : r = ended[i]
      OBVIOUS
    <2>3. r \in q.recving
      BY <1>2, <2>1, <2>2
    <2>4. Shape(q)
      BY <2>1, GoodFacts
    <2>5. r \in DOMAIN q.seq
      BY <2>3, <2>4 DEF Shape, Tracked
    <2>6. PICK ok : ok = (r \in loaded)
      OBVIOUS
    <2>7. PICK x : x = EndLoad(q, r, ok)
      OBVIOUS
    <2>8. PICK run : run = ToSet(q.running)
      OBVIOUS
    <2>9. Good(st0, q, run, D)
      BY <2>1, <2>8
    <2>10. /\ Good(st0, x, ToSet(x.running), D)
           /\ run \subseteq ToSet(x.running) /\ x.recving = q.recving \ {r}
      BY <2>3, <2>5, <2>7, <2>8, <2>9, LoadEnded
    <2>11. \A j \in 1..k : j > i => ended[j] \in x.recving
      <3> SUFFICES ASSUME NEW j \in 1..k, j > i PROVE ended[j] \in x.recving
        OBVIOUS
      <3>1. ended[j] \in q.recving
        BY <1>2, <2>1
      <3>2. ended[j] # r
        BY <1>2, <2>2
      <3> QED
        BY <2>10, <3>1, <3>2
    <2>12. LoadsInv(a, ended, loaded, x, i)
      BY <1>1, <1>4, <2>1, <2>8, <2>10, <2>11 DEF LoadsInv
    <2> QED
      BY <2>2, <2>6, <2>7, <2>12 DEF LoadsRound
  <1>7. LoadsInv(a, ended, loaded, LoadsLoop!Loop(a, ended, loaded, st, k), k)
    BY <1>2, <1>5, <1>6, CountsUp, LoadsLoop!LoopInvariant
  <1>8. EndLoads(st, ended, loaded) = LoadsLoop!Loop(a, ended, loaded, st, k)
    BY <1>1 DEF EndLoads, Repeat, LoadsLoop!Loop, LoadsRound
  <1> QED
    BY <1>4, <1>7, <1>8 DEF LoadsInv

(* update_from_kv_connector_output keeps the scheduler in order and takes  *)
(* nobody out of the deque.                                                *)
LEMMA TransfersEnded ==
    ASSUME NEW st0, NEW st, NEW D, Good(st0, st, ToSet(st.running), D),
           NEW report \in Reports(st)
    PROVE  LET x == UpdateFromKVConnectorOutput(st, report)
           IN  Good(st0, x, ToSet(x.running), D) /\ ToSet(st.running) \subseteq ToSet(x.running)
  <1>1. Queue(report.sent, DOMAIN st0.seq) /\ Queue(report.ended, st.recving)
    <2>1. CASE ~HasConnector
      <3>1. report.sent = << >> /\ report.ended = << >>
        BY <2>1 DEF Reports
      <3> QED
        BY <3>1, QueueEmpty
    <2>2. CASE HasConnector
      <3>1. \E S \in SUBSET st.sending, E \in SUBSET st.recving :
              \E p \in SetToSeqs(S), q \in SetToSeqs(E) : \E L \in SUBSET E :
                report = [sent |-> p, ended |-> q, loaded |-> L]
        BY <2>2 DEF Reports
      <3>2. PICK S \in SUBSET st.sending, E \in SUBSET st.recving :
              \E p \in SetToSeqs(S), q \in SetToSeqs(E) : \E L \in SUBSET E :
                report = [sent |-> p, ended |-> q, loaded |-> L]
        BY <3>1
      <3>3. PICK p \in SetToSeqs(S), q \in SetToSeqs(E), L \in SUBSET E :
              report = [sent |-> p, ended |-> q, loaded |-> L]
        BY <3>2
      <3>4. report.sent = p /\ report.ended = q
        BY <3>3
      <3>5. Shape(st) /\ DOMAIN st.seq = DOMAIN st0.seq
        BY GoodFacts
      <3>6. S \subseteq DOMAIN st0.seq /\ S \subseteq Reqs /\ E \subseteq Reqs
        BY <3>5 DEF Shape, Tracked
      <3>7. IsFiniteSet(S) /\ IsFiniteSet(E)
        BY <3>6, EngineAssumption, FS_Subset
      <3>8. Queue(p, S) /\ Queue(q, E)
        BY <3>7, ListedOnce
      <3>9. Queue(p, DOMAIN st0.seq) /\ Queue(q, st.recving)
        BY <3>6, <3>8 DEF Queue
      <3> QED
        BY <3>4, <3>9
    <2> QED
      BY <2>1, <2>2
  <1>2. PICK y : y = EndSends(st, report.sent)
    OBVIOUS
  <1>3. PICK sent : sent = report.sent
    OBVIOUS
  <1>4. Good(st0, y, ToSet(y.running), D) /\ y.running = st.running /\ y.recving = st.recving
    BY <1>1, <1>2, <1>3, SendsEnded
  <1>5. PICK ended : ended = report.ended
    OBVIOUS
  <1>6. PICK loaded : loaded = report.loaded
    OBVIOUS
  <1>7. PICK x : x = EndLoads(y, ended, loaded)
    OBVIOUS
  <1>8. Good(st0, x, ToSet(x.running), D) /\ ToSet(y.running) \subseteq ToSet(x.running)
    BY <1>1, <1>4, <1>5, <1>7, LoadsEnded
  <1>9. UpdateFromKVConnectorOutput(st, report) = x
    BY <1>2, <1>5, <1>6, <1>7 DEF UpdateFromKVConnectorOutput
  <1> QED
    BY <1>4, <1>8, <1>9

-----------------------------------------------------------------------------
(* Launching a step. *)

(* They know how often their sequences have been preempted. *)
Stamped(st, rows) ==
    \A i \in 1..Len(rows) : rows[i].num_preemptions = st.seq[rows[i].req].num_preemptions

(* A row for r is added. *)
RowFor(rows, more, r, num_preemptions) ==
    \E row : /\ more = Append(rows, row)
             /\ row.req = r /\ row.num_preemptions = num_preemptions

(* advance(), for one sequence: nothing moves; it may get a row.           *)
LEMMA RowAdvanced ==
    ASSUME NEW st, Shape(st), NEW r \in DOMAIN st.seq, NEW rows, NEW acc,
           acc.st = st, acc.rows = rows
    PROVE  LET x == AdvanceRow(acc, r)
           IN  /\ Touches(st, x.st, r)
               /\ x.rows = rows \/ RowFor(rows, x.rows, r, st.seq[r].num_preemptions)
  <1>1. PICK s : s = st.seq[r]
    OBVIOUS
  <1>2. PICK moved : moved = [s EXCEPT !.num_cached_tokens = @ + s.num_scheduled_tokens,
                                       !.num_scheduled_tokens = 0, !.num_spec_tokens = 0]
    OBVIOUS
  <1>3. PICK hashed : hashed = HashBlocks(st.bm, moved, moved.num_cached_tokens)
    OBVIOUS
  <1>4. PICK samp : samp = [ReserveToken(hashed.seq, 1 + s.num_spec_tokens) EXCEPT
                              !.is_prefill = FALSE, !.num_spec_tokens = NumSpeculativeTokens]
    OBVIOUS
  <1>5. PICK res : res = [bm |-> hashed.bm, seq |-> samp]
    OBVIOUS
  <1>6. PICK row : row = [req |-> r, num_preemptions |-> s.num_preemptions,
                          num_draft_tokens |-> s.num_spec_tokens]
    OBVIOUS
  <1>7. IsSeq(s)
    BY <1>1 DEF Shape
  <1>8. SameLife(s, moved) /\ IsSeq(moved)
    BY <1>2, <1>7 DEF SameLife, SameTokens, IsSeq, SeqFields
  <1>9. SameLife(s, hashed.seq)
    <2>1. SameLife(moved, hashed.seq)
      BY <1>3, <1>8, HashBlocksLife
    <2> QED
      BY <1>8, <2>1, SameLifeTrans
  <1>10. SameLife(s, samp)
    <2>1. PICK h : h = hashed.seq
      OBVIOUS
    <2>2. PICK m : m = h.num_pending_tokens + (1 + s.num_spec_tokens)
      OBVIOUS
    <2>3. PICK no : no = FALSE
      OBVIOUS
    <2>4. PICK g : g = [h EXCEPT !.num_pending_tokens = m]
      OBVIOUS
    <2>5. samp = [g EXCEPT !.is_prefill = no, !.num_spec_tokens = NumSpeculativeTokens]
      BY <1>4, <2>1, <2>2, <2>3, <2>4 DEF ReserveToken
    <2>6. SameLife(s, g)
      BY <1>9, <2>1, <2>4 DEF SameLife, SameTokens, IsSeq, SeqFields
    <2> QED
      BY <2>5, <2>6 DEF SameLife, SameTokens, IsSeq, SeqFields
  <1>11. res.seq = samp
    BY <1>5
  <1>12. PICK y : y = WithBlocks(st, r, res)
    OBVIOUS
  <1>13. PICK z : z = WithBlocks(st, r, hashed)
    OBVIOUS
  <1>14. Touches(st, y, r)
    BY <1>1, <1>10, <1>11, <1>12, WithBlocksTouches
  <1>15. Touches(st, z, r)
    BY <1>1, <1>9, <1>13, WithBlocksTouches
  <1>16. PICK x : x = AdvanceRow(acc, r)
    OBVIOUS
  <1>17. PICK more : more = Append(rows, row)
    OBVIOUS
  <1>18. \/ x = [st |-> y, rows |-> more]
         \/ x = [st |-> z, rows |-> rows]
    BY <1>1, <1>2, <1>3, <1>4, <1>5, <1>6, <1>12, <1>13, <1>16, <1>17 DEF AdvanceRow
  <1>19. CASE x = [st |-> y, rows |-> more]
    <2>1. x.st = y /\ x.rows = more
      BY <1>19
    <2>2. Touches(st, x.st, r)
      BY <1>14, <2>1
    <2>3. RowFor(rows, x.rows, r, st.seq[r].num_preemptions)
      <3>1. row.req = r /\ row.num_preemptions = s.num_preemptions
        BY <1>6
      <3> QED
        BY <1>1, <1>17, <2>1, <3>1 DEF RowFor
    <2> QED
      BY <1>16, <2>2, <2>3
  <1>20. CASE x = [st |-> z, rows |-> rows]
    <2>1. x.st = z /\ x.rows = rows
      BY <1>20
    <2> QED
      BY <1>15, <1>16, <2>1
  <1> QED
    BY <1>18, <1>19, <1>20

AdvanceRound(a, b, c, p, i) == AdvanceRow(p, b[i])
AdvanceInv(a, b, c, p, i) ==
    /\ Good(a[1], p.st, a[2], a[3]) /\ p.st.running = a[4]
    /\ Listed(p.rows, b, i) /\ Stamped(p.st, p.rows)
AdvanceLoop == INSTANCE Loops WITH Round <- AdvanceRound, Inv <- AdvanceInv

(* advance(): nothing moves, and the rows are those of some of the step.   *)
LEMMA StepAdvanced ==
    ASSUME NEW st0, NEW st, NEW run, NEW D, Good(st0, st, run, D),
           NEW scheduled, Queue(scheduled, DOMAIN st0.seq)
    PROVE  LET x == Advance(st, scheduled)
           IN  /\ Good(st0, x.st, run, D) /\ x.st.running = st.running
               /\ Listed(x.rows, scheduled, Len(scheduled)) /\ Stamped(x.st, x.rows)
  <1>1. PICK k : k = Len(scheduled)
    OBVIOUS
  <1>2. k \in Nat /\ \A i \in 1..k : scheduled[i] \in DOMAIN st0.seq
    BY <1>1 DEF Queue
  <1>3. PICK a : a = <<st0, run, D, st.running>>
    OBVIOUS
  <1>4. a[1] = st0 /\ a[2] = run /\ a[3] = D /\ a[4] = st.running
    BY <1>3
  <1>5. PICK start : start = [st |-> st, rows |-> << >>]
    OBVIOUS
  <1>6. AdvanceInv(a, scheduled, 0, start, 0)
    <2>1. start.st = st /\ start.rows = << >>
      BY <1>5
    <2>2. Listed(<< >>, scheduled, 0) /\ Stamped(st, << >>)
      BY DEF Listed, Stamped, IsList
    <2> QED
      BY <1>4, <2>1, <2>2 DEF AdvanceInv
  <1>7. ASSUME NEW i \in 1..k, NEW q, AdvanceInv(a, scheduled, 0, q, i - 1)
        PROVE  AdvanceInv(a, scheduled, 0, AdvanceRound(a, scheduled, 0, q, i), i)
    <2>1. /\ Good(st0, q.st, run, D) /\ q.st.running = st.running
          /\ Listed(q.rows, scheduled, i - 1) /\ Stamped(q.st, q.rows)
      BY <1>4, <1>7 DEF AdvanceInv
    <2>2. PICK r : r = scheduled[i]
      OBVIOUS
    <2>3. PICK y : y = q.st
      OBVIOUS
    <2>4. PICK rows : rows = q.rows
      OBVIOUS
    <2>5. Shape(y) /\ DOMAIN y.seq = DOMAIN st0.seq /\ r \in DOMAIN y.seq
      BY <1>2, <2>1, <2>2, <2>3, GoodFacts
    <2>6. PICK x : x = AdvanceRow(q, r)
      OBVIOUS
    <2>7. /\ Touches(y, x.st, r)
          /\ x.rows = rows \/ RowFor(rows, x.rows, r, y.seq[r].num_preemptions)
      BY <2>3, <2>4, <2>5, <2>6, RowAdvanced
    <2>8. Good(st0, x.st, run, D) /\ x.st.running = st.running
      <3>1. Good(st0, x.st, run, D)
        BY <2>1, <2>3, <2>5, <2>7, GoodTouch
      <3> QED
        BY <2>1, <2>3, <2>7, <3>1 DEF Touches
    <2>9. \A o \in DOMAIN y.seq : x.st.seq[o].num_preemptions = y.seq[o].num_preemptions
      BY <2>7 DEF Touches, SameLife
    <2>10. /\ IsList(rows)
           /\ \A j \in 1..Len(rows) :
                /\ rows[j].req \in DOMAIN y.seq
                /\ rows[j].num_preemptions = y.seq[rows[j].req].num_preemptions
      <3>1. /\ IsList(rows)
            /\ \A j \in 1..Len(rows) : \E m \in 1..(i - 1) : rows[j].req = scheduled[m]
        BY <2>1, <2>4 DEF Listed
      <3>2. \A m \in 1..(i - 1) : scheduled[m] \in DOMAIN y.seq
        BY <1>2, <2>5
      <3> QED
        BY <2>1, <2>3, <2>4, <3>1, <3>2 DEF Stamped
    <2>11. Listed(x.rows, scheduled, i) /\ Stamped(x.st, x.rows)
      <3>1. CASE x.rows = rows
        <4>1. Stamped(x.st, rows)
          BY <2>9, <2>10 DEF Stamped
        <4>2. Listed(rows, scheduled, i)
          <5>1. \A m \in 1..(i - 1) : m \in 1..i
            BY <1>2
          <5> QED
            BY <2>1, <2>4, <5>1 DEF Listed
        <4> QED
          BY <3>1, <4>1, <4>2
      <3>2. CASE RowFor(rows, x.rows, r, y.seq[r].num_preemptions)
        <4>1. PICK row : /\ x.rows = Append(rows, row) /\ row.req = r
                         /\ row.num_preemptions = y.seq[r].num_preemptions
          BY <3>2 DEF RowFor
        <4>2. PICK more : more = Append(rows, row)
          OBVIOUS
        <4>3. row.req = r /\ row.num_preemptions = y.seq[r].num_preemptions
          BY <4>1
        <4>4. more = Append(rows, row)
          BY <4>2
        <4>5. x.rows = more
          BY <4>1, <4>2
        <4>6. Listed(more, scheduled, i)
          BY <1>1, <2>1, <2>2, <2>4, <4>3, <4>4, RowListed
        <4>7. \A j \in 1..Len(more) : more[j] = row \/ \E m \in 1..Len(rows) : more[j] = rows[m]
          <5>1. /\ Len(rows) \in Nat /\ Len(more) = Len(rows) + 1
                /\ \A m \in 1..Len(rows) : more[m] = rows[m]
                /\ more[Len(rows) + 1] = row
            BY <2>10, <4>4, MoreRows DEF OneMore
          <5> QED
            BY <5>1
        <4>8. Stamped(x.st, more)
          <5> SUFFICES ASSUME NEW j \in 1..Len(more)
                       PROVE  more[j].num_preemptions = x.st.seq[more[j].req].num_preemptions
            BY DEF Stamped
          <5>1. CASE more[j] = row
            BY <2>5, <2>9, <4>3, <5>1
          <5>2. CASE \E m \in 1..Len(rows) : more[j] = rows[m]
            BY <2>9, <2>10, <5>2 DEF Stamped
          <5> QED
            BY <4>7, <5>1, <5>2
        <4> QED
          BY <4>5, <4>6, <4>8
      <3> QED
        BY <2>7, <3>1, <3>2
    <2>12. AdvanceInv(a, scheduled, 0, x, i)
      BY <1>4, <2>8, <2>11 DEF AdvanceInv
    <2> QED
      BY <2>2, <2>6, <2>12 DEF AdvanceRound
  <1>8. AdvanceInv(a, scheduled, 0, AdvanceLoop!Loop(a, scheduled, 0, start, k), k)
    BY <1>2, <1>6, <1>7, CountsUp, AdvanceLoop!LoopInvariant
  <1>9. Advance(st, scheduled) = AdvanceLoop!Loop(a, scheduled, 0, start, k)
    BY <1>1, <1>5 DEF Advance, Repeat, AdvanceLoop!Loop, AdvanceRound
  <1> QED
    BY <1>1, <1>4, <1>8, <1>9 DEF AdvanceInv

(* What a sampler returns are tokens.                                      *)
LEMMA SampledTokens ==
    ASSUME NEW st, NEW scheduled, NEW sampled \in Samples(st, scheduled),
           NEW r \in ToSet(scheduled)
    PROVE  sampled[r] \in Seq(Vocab)
  <1>1. PICK n : sampled[r] \in SampleLists(n)
    BY DEF Samples
  <1>2. PICK k \in 0..n : sampled[r] \in [1..(k + 1) -> Vocab]
    BY <1>1 DEF SampleLists
  <1>3. k + 1 \in Nat
    BY <1>2
  <1> QED
    BY <1>2, <1>3

(* A row in flight, as the scheduler will find it: its request has arrived *)
(* and was never preempted less often; unless it is void, it is running.   *)
RowFits(st, row) ==
    /\ row.req \in DOMAIN st.seq
    /\ row.tokens \in Seq(Vocab)
    /\ row.num_preemptions \in Nat
    /\ row.num_preemptions <= st.seq[row.req].num_preemptions
    /\ ~RowIsVoid(st, row) => st.seq[row.req].status = "RUNNING"

RowsFit(st, rows) ==
    /\ Len(rows) \in Nat
    /\ \A i \in 1..Len(rows) : RowFits(st, rows[i])
    /\ \A i, j \in 1..Len(rows) : rows[i].req = rows[j].req => i = j

(* The rows of a step just launched fit.                                   *)
LEMMA FlightFits ==
    ASSUME NEW st, Settled(st), NEW S, NEW st1, NEW scheduled, Queue(scheduled, S),
           ToSet(scheduled) \subseteq ToSet(st.running),
           NEW rows, Listed(rows, scheduled, Len(scheduled)), Stamped(st, rows),
           NEW sampled, \A r \in ToSet(scheduled) : sampled[r] \in Seq(Vocab)
    PROVE  RowsFit(st, Flight(st1, scheduled, rows, sampled).rows)
  <1>1. PICK f : f = Flight(st1, scheduled, rows, sampled)
    OBVIOUS
  <1>2. CASE scheduled = << >>
    <2>1. f.rows = << >>
      BY <1>1, <1>2 DEF Flight, NoStep
    <2> QED
      BY <1>1, <2>1 DEF RowsFit
  <1>3. CASE scheduled # << >>
    <2>1. PICK n \in Nat : n = Len(rows) /\ DOMAIN rows = 1..n
      BY DEF Listed, IsList
    <2> DEFINE R(i) == [req |-> rows[i].req, num_preemptions |-> rows[i].num_preemptions,
                        num_draft_tokens |-> rows[i].num_draft_tokens,
                        tokens |-> sampled[rows[i].req]]
    <2>2. f.rows = [i \in 1..n |-> R(i)]
      BY <1>1, <1>3, <2>1 DEF Flight
    <2>3. \A i \in 1..n : /\ R(i).req = rows[i].req
                          /\ R(i).num_preemptions = rows[i].num_preemptions
                          /\ R(i).tokens = sampled[rows[i].req]
      OBVIOUS
    <2> HIDE DEF R
    <2>4. PICK g : g = f.rows
      OBVIOUS
    <2>5. Len(g) = n /\ \A i \in 1..n : g[i] = R(i)
      BY <2>2, <2>4
    <2>6. ASSUME NEW i \in 1..n
          PROVE  RowFits(st, g[i])
      <3>1. PICK j \in 1..Len(scheduled) : rows[i].req = scheduled[j]
        BY <2>1 DEF Listed
      <3>2. PICK r : r = scheduled[j]
        OBVIOUS
      <3>3. r \in ToSet(scheduled)
        BY <3>2 DEF Queue, ToSet
      <3>4. Queue(st.running, DOMAIN st.seq)
        BY DEF Settled, Shape
      <3>5. r \in DOMAIN st.seq
        BY <3>3, <3>4 DEF Queue, ToSet
      <3>6. st.seq[r].status = "RUNNING" /\ st.seq[r].num_preemptions \in Nat
        BY <3>3, <3>5 DEF Settled, Placed, Shape, IsSeq
      <3>7. g[i].req = r /\ g[i].num_preemptions = st.seq[r].num_preemptions
        BY <2>1, <2>3, <2>5, <3>1, <3>2 DEF Stamped
      <3>8. g[i].tokens \in Seq(Vocab)
        BY <2>3, <2>5, <3>1, <3>2, <3>3
      <3>9. st.seq[r].num_preemptions <= st.seq[r].num_preemptions
        BY <3>6
      <3> QED
        BY <3>5, <3>6, <3>7, <3>8, <3>9 DEF RowFits
    <2>7. \A i, j \in 1..n : g[i].req = g[j].req => i = j
      BY <2>1, <2>3, <2>5 DEF Listed
    <2>8. RowsFit(st, g)
      BY <2>5, <2>6, <2>7 DEF RowsFit
    <2> QED
      BY <1>1, <2>4, <2>8
  <1> QED
    BY <1>2, <1>3

(* What a launch leaves behind. *)
Launched(st, l) ==
    /\ Settled(l.st)
    /\ Evolves(st, l.st, ToSet(l.dropped))
    /\ ToSet(l.dropped) \subseteq DOMAIN st.seq
    /\ RowsFit(l.st, l.flight.rows)

(* _launch: everyone is where its status says, and the rows in flight are  *)
(* of running sequences.                                                   *)
LEMMA LaunchSettles ==
    ASSUME NEW st, Settled(st), NEW rows, NEW l \in Launches(st, rows)
    PROVE  Launched(st, l)
  <1>1. PICK sc : sc = Schedule(st)
    OBVIOUS
  <1>2. Ready(st, sc)
    BY <1>1, ScheduleReady
  <1>3. l \in LaunchScheduled(sc, rows)
    BY <1>1 DEF Launches
  <1>4. PICK report \in Reports(sc.st), sampled \in Samples(sc.st, sc.out.scheduled) :
          l = RunAndAdvance(UpdateFromKVConnectorOutput(sc.st, report), sc.out, rows, sampled,
                            LoadMemory(kv, sc.st, report))
    BY <1>3 DEF LaunchScheduled
  <1>5. PICK x : x = UpdateFromKVConnectorOutput(sc.st, report)
    OBVIOUS
  <1>6. PICK D : D = ToSet(sc.out.dropped)
    OBVIOUS
  <1>7. PICK y : y = sc.st
    OBVIOUS
  <1>8. PICK scheduled : scheduled = sc.out.scheduled
    OBVIOUS
  <1>9. /\ Good(st, y, ToSet(y.running), D) /\ Queue(scheduled, DOMAIN st.seq)
        /\ ToSet(scheduled) \subseteq ToSet(y.running)
    BY <1>2, <1>6, <1>7, <1>8 DEF Ready, Planned
  <1>10. Good(st, x, ToSet(x.running), D) /\ ToSet(y.running) \subseteq ToSet(x.running)
    BY <1>5, <1>7, <1>9, TransfersEnded
  <1>11. PICK run : run = ToSet(x.running)
    OBVIOUS
  <1>12. PICK adv : adv = Advance(x, scheduled)
    OBVIOUS
  <1>13. /\ Good(st, adv.st, run, D) /\ adv.st.running = x.running
         /\ Listed(adv.rows, scheduled, Len(scheduled)) /\ Stamped(adv.st, adv.rows)
    <2>1. Good(st, x, run, D)
      BY <1>10, <1>11
    <2> QED
      BY <1>9, <1>12, <2>1, StepAdvanced
  <1>14. PICK z : z = adv.st
    OBVIOUS
  <1>15. Settled(z) /\ Evolves(st, z, D)
    BY <1>11, <1>13, <1>14 DEF Good, Settled
  <1>16. PICK arows : arows = adv.rows
    OBVIOUS
  <1>17. PICK f : f = Flight(x, scheduled, arows, sampled)
    OBVIOUS
  <1>18. \A r \in ToSet(scheduled) : sampled[r] \in Seq(Vocab)
    BY <1>8, SampledTokens
  <1>19. RowsFit(z, f.rows)
    <2>1. /\ ToSet(scheduled) \subseteq ToSet(z.running) /\ Stamped(z, arows)
          /\ Listed(arows, scheduled, Len(scheduled))
      BY <1>9, <1>10, <1>13, <1>14, <1>16
    <2> QED
      BY <1>9, <1>15, <1>17, <1>18, <2>1, FlightFits
  <1>20. l.st = z /\ l.dropped = sc.out.dropped /\ l.flight = f
    BY <1>4, <1>5, <1>8, <1>12, <1>14, <1>16, <1>17 DEF RunAndAdvance
  <1>21. D \subseteq DOMAIN st.seq
    <2>1. List(sc.out.dropped, DOMAIN st.seq)
      BY <1>2 DEF Ready, Planned
    <2> QED
      BY <1>6, <2>1 DEF List, ToSet
  <1> QED
    BY <1>6, <1>15, <1>19, <1>20, <1>21 DEF Launched

(* Rows in flight still fit after the next step was launched.              *)
LEMMA RowsFitOn ==
    ASSUME NEW st, NEW x, NEW D, NEW rows, RowsFit(st, rows), Shape(st), Evolves(st, x, D)
    PROVE  RowsFit(x, rows)
  <1>1. ASSUME NEW i \in 1..Len(rows)
        PROVE  RowFits(x, rows[i])
    <2>1. PICK row : row = rows[i]
      OBVIOUS
    <2>2. PICK r : r = row.req
      OBVIOUS
    <2>3. /\ r \in DOMAIN st.seq /\ row.tokens \in Seq(Vocab) /\ row.num_preemptions \in Nat
          /\ row.num_preemptions <= st.seq[r].num_preemptions
          /\ ~RowIsVoid(st, row) => st.seq[r].status = "RUNNING"
      BY <2>1, <2>2 DEF RowsFit, RowFits
    <2>4. PICK s : s = st.seq[r]
      OBVIOUS
    <2>5. PICK t : t = x.seq[r]
      OBVIOUS
    <2>6. r \in DOMAIN x.seq /\ LifeStep(s, t) /\ IsSeq(s)
      BY <2>3, <2>4, <2>5 DEF Evolves, Shape
    <2>7. /\ s.num_preemptions \in Nat /\ t.num_preemptions \in Nat
          /\ t.num_preemptions >= s.num_preemptions
          /\ IsFinished(s) => IsFinished(t)
          /\ s.status = "RUNNING" /\ t.num_preemptions = s.num_preemptions /\ ~IsFinished(t)
               => t.status = "RUNNING"
      BY <2>6 DEF LifeStep, SameTokens, IsSeq
    <2>8. row.num_preemptions <= t.num_preemptions
      BY <2>3, <2>4, <2>7
    <2>9. ASSUME ~RowIsVoid(x, row)
          PROVE  t.status = "RUNNING"
      <3>1. ~IsFinished(t) /\ t.num_preemptions = row.num_preemptions
        BY <2>2, <2>5, <2>9 DEF RowIsVoid
      <3>2. s.num_preemptions = row.num_preemptions /\ ~IsFinished(s)
        BY <2>3, <2>4, <2>7, <3>1
      <3>3. ~RowIsVoid(st, row)
        BY <2>2, <2>4, <3>2 DEF RowIsVoid
      <3> QED
        BY <2>3, <2>4, <2>7, <3>1, <3>2, <3>3
    <2> QED
      BY <2>1, <2>2, <2>3, <2>5, <2>6, <2>8, <2>9 DEF RowFits
  <1> QED
    BY <1>1 DEF RowsFit

-----------------------------------------------------------------------------
(* Tokens and ends. *)

(* x is st with another sequence for r, moved to where its status says. *)
Resettles(st, x, r) ==
    /\ DOMAIN x = SchedFields
    /\ DOMAIN x.seq = DOMAIN st.seq
    /\ \A q \in DOMAIN st.seq : q # r => x.seq[q] = st.seq[q]
    /\ IsSeq(x.seq[r]) /\ x.seq[r].arrival = st.seq[r].arrival
    /\ Queue(x.waiting, DOMAIN st.seq) /\ Queue(x.running, DOMAIN st.seq)
    /\ Tracked(x) \subseteq Tracked(st)
    /\ ToSet(x.waiting) \ {r} = ToSet(st.waiting) \ {r}
    /\ ToSet(x.running) \ {r} = ToSet(st.running) \ {r}
    /\ x.live \ {r} = st.live \ {r}
    /\ x.recving \ {r} = st.recving \ {r}
    /\ r \in ToSet(x.waiting) <=> x.seq[r].status = "WAITING"
    /\ r \in ToSet(x.running) <=> x.seq[r].status = "RUNNING"
    /\ r \in x.recving /\ r \in x.live <=> x.seq[r].status = "WAITING_FOR_REMOTE_KVS"
    /\ r \in x.live <=> x.seq[r].status # "FINISHED"

(* Such a change keeps everyone where its status says.                     *)
LEMMA SettledMove ==
    ASSUME NEW st, NEW x, NEW r \in DOMAIN st.seq, Settled(st), Resettles(st, x, r)
    PROVE  Settled(x)
  <1>1. Shape(x)
    <2>1. \A q \in DOMAIN st.seq : IsSeq(x.seq[q]) /\ x.seq[q].arrival = st.seq[q].arrival
      BY DEF Settled, Shape, Resettles
    <2>2. DOMAIN x.seq = DOMAIN st.seq /\ Tracked(x) \subseteq DOMAIN st.seq
      BY DEF Settled, Shape, Resettles
    <2>3. /\ DOMAIN x = SchedFields
          /\ Queue(x.waiting, DOMAIN st.seq) /\ Queue(x.running, DOMAIN st.seq)
      BY DEF Resettles
    <2> QED
      BY <2>1, <2>2, <2>3 DEF Settled, Shape
  <1>2. Placed(x, ToSet(x.running))
    <2> SUFFICES ASSUME NEW q \in DOMAIN st.seq
                 PROVE  /\ q \in ToSet(x.waiting) <=> x.seq[q].status = "WAITING"
                        /\ q \in ToSet(x.running) <=> x.seq[q].status = "RUNNING"
                        /\ q \in x.recving /\ q \in x.live
                             <=> x.seq[q].status = "WAITING_FOR_REMOTE_KVS"
                        /\ q \in x.live <=> x.seq[q].status # "FINISHED"
      BY DEF Placed, Resettles
    <2>1. CASE q = r
      BY <2>1 DEF Resettles
    <2>2. CASE q # r
      <3>1. /\ x.seq[q] = st.seq[q]
            /\ q \in ToSet(x.waiting) <=> q \in ToSet(st.waiting)
            /\ q \in ToSet(x.running) <=> q \in ToSet(st.running)
            /\ q \in x.live <=> q \in st.live
            /\ q \in x.recving <=> q \in st.recving
        BY <2>2 DEF Resettles
      <3>2. /\ q \in ToSet(st.waiting) <=> st.seq[q].status = "WAITING"
            /\ q \in ToSet(st.running) <=> st.seq[q].status = "RUNNING"
            /\ q \in st.recving /\ q \in st.live
                 <=> st.seq[q].status = "WAITING_FOR_REMOTE_KVS"
            /\ q \in st.live <=> st.seq[q].status # "FINISHED"
        BY DEF Settled, Placed
      <3> QED
        BY <3>1, <3>2
    <2> QED
      BY <2>1, <2>2
  <1> QED
    BY <1>1, <1>2 DEF Settled

(* free: the blocks of r are held for a send, or released. *)
Frees(st, x, r) ==
    /\ DOMAIN x = SchedFields
    /\ DOMAIN x.seq = DOMAIN st.seq
    /\ \A q \in DOMAIN st.seq : q # r => x.seq[q] = st.seq[q]
    /\ SameLife(st.seq[r], x.seq[r])
    /\ x.waiting = st.waiting /\ x.running = st.running /\ x.live = st.live
    /\ x.recving = st.recving /\ x.sending \subseteq st.sending \cup {r}

(* free moves nothing but the blocks.                                      *)
LEMMA FreeMoves ==
    ASSUME NEW st, DOMAIN st = SchedFields, NEW r \in DOMAIN st.seq, IsSeq(st.seq[r])
    PROVE  Frees(st, Free(st, r), r)
  <1>1. PICK s : s = st.seq[r]
    OBVIOUS
  <1>2. CASE HandsOver(s)
    <2>1. PICK l : l = (r :> SubSeq(s.block_table, 1,
                                    Min({CeilDiv(s.num_prompt_tokens, BlockSize),
                                         Len(s.block_table)}))) @@ st.sends
      OBVIOUS
    <2>2. PICK x : x = [st EXCEPT !.sending = @ \cup {r}, !.sends = l]
      OBVIOUS
    <2>3. Free(st, r) = x
      BY <1>1, <1>2, <2>1, <2>2 DEF Free, SchedFields
    <2>4. SameLife(s, s)
      BY <1>1 DEF SameLife, SameTokens
    <2>5. Frees(st, x, r)
      BY <1>1, <2>2, <2>4 DEF Frees, SchedFields
    <2> QED
      BY <2>3, <2>5
  <1>3. CASE ~HandsOver(s)
    <2>1. PICK res : res = Deallocate(st.bm, s)
      OBVIOUS
    <2>2. PICK x : x = WithBlocks(st, r, res)
      OBVIOUS
    <2>3. Free(st, r) = x
      BY <1>1, <1>3, <2>1, <2>2 DEF Free, ReleaseBlocks
    <2>4. SameLife(s, res.seq)
      BY <1>1, <2>1, DeallocateLife
    <2>5. Frees(st, x, r)
      BY <1>1, <2>2, <2>4 DEF Frees, WithBlocks, SchedFields
    <2> QED
      BY <2>3, <2>5
  <1> QED
    BY <1>2, <1>3

(* How many tokens a completion may have that ended so, or has not ended.  *)
EndsSo(r, s, reason) ==
    /\ reason \in {NoReason, "length", "stop"}
    /\ NumCompletionTokens(s) <= MaxTokens[r]
    /\ reason = NoReason => NumCompletionTokens(s) < MaxTokens[r]
    /\ reason = "length" => NumCompletionTokens(s) = MaxTokens[r]
    /\ reason = "stop" => s.num_new_tokens > 0 /\ Last(s.token_ids) = Eos

(* s0 and the tokens committed so far. *)
Committing(s0, r, s, reason) ==
    /\ IsSeq(s)
    /\ s.status = s0.status /\ s.finish_reason = s0.finish_reason
    /\ s.num_preemptions = s0.num_preemptions /\ s.arrival = s0.arrival
    /\ s.num_prompt_tokens = s0.num_prompt_tokens
    /\ Grown(s0.token_ids, s.token_ids, s.num_new_tokens)
    /\ EndsSo(r, s, reason)

CommitRound(a, b, c, p, i) == CommitNext(p, b, c[i])
CommitInv(a, b, c, p, i) == Committing(a, b, p.s, p.reason)
CommitLoop == INSTANCE Loops WITH Round <- CommitRound, Inv <- CommitInv

(* One token more, unless one has ended the completion.                    *)
LEMMA NextCommitted ==
    ASSUME NEW s0, s0.token_ids \in Seq(Vocab), NEW r \in Reqs, NEW p, NEW token \in Vocab,
           Committing(s0, r, p.s, p.reason)
    PROVE  LET x == CommitNext(p, r, token) IN Committing(s0, r, x.s, x.reason)
  <1>1. CASE p.reason # NoReason
    BY <1>1 DEF CommitNext
  <1>2. CASE p.reason = NoReason
    <2>1. PICK s : s = p.s
      OBVIOUS
    <2>2. PICK t : t = Append(s.token_ids, token)
      OBVIOUS
    <2>3. PICK c : c = [CommitToken(s, token) EXCEPT !.num_new_tokens = @ + 1]
      OBVIOUS
    <2>4. PICK why : why = StopReason(c, r, token)
      OBVIOUS
    <2>5. PICK x : x = [s |-> c, reason |-> why]
      OBVIOUS
    <2>6. CommitNext(p, r, token) = x
      BY <1>2, <2>1, <2>3, <2>4, <2>5 DEF CommitNext
    <2>7. x.s = c /\ x.reason = why
      BY <2>5
    <2>8. IsSeq(s) /\ s.token_ids \in Seq(Vocab) /\ DOMAIN s = SeqFields
      BY <2>1 DEF Committing, IsSeq
    <2>9. /\ DOMAIN c = SeqFields /\ c.token_ids = t /\ c.num_new_tokens = s.num_new_tokens + 1
          /\ c.status = s.status /\ c.finish_reason = s.finish_reason
          /\ c.num_preemptions = s.num_preemptions /\ c.arrival = s.arrival
          /\ c.num_prompt_tokens = s.num_prompt_tokens
      BY <2>2, <2>3, <2>8 DEF CommitToken, SeqFields
    <2>10. /\ t \in Seq(Vocab) /\ Len(t) = Len(s.token_ids) + 1 /\ t[Len(t)] = token
           /\ \A j \in 1..Len(s.token_ids) : t[j] = s.token_ids[j]
      BY <2>2, <2>8
    <2>11. IsSeq(c)
      BY <2>8, <2>9, <2>10 DEF IsSeq
    <2>12. Grown(s0.token_ids, c.token_ids, c.num_new_tokens)
      <3>1. /\ Len(s.token_ids) = Len(s0.token_ids) + s.num_new_tokens
            /\ \A j \in 1..Len(s0.token_ids) : s.token_ids[j] = s0.token_ids[j]
        BY <2>1 DEF Committing, Grown
      <3>2. s.num_new_tokens \in Nat /\ Len(s0.token_ids) \in Nat /\ Len(s.token_ids) \in Nat
        BY <2>8 DEF IsSeq
      <3> QED
        BY <2>9, <2>10, <3>1, <3>2 DEF Grown
    <2>13. EndsSo(r, c, why)
      <3>1. /\ Len(s.token_ids) \in Nat /\ s.num_prompt_tokens \in Nat /\ s.num_new_tokens \in Nat
            /\ MaxTokens[r] \in Nat
        BY <2>8, SchedulerAssumption DEF IsSeq
      <3>2. NumCompletionTokens(s) < MaxTokens[r]
        BY <1>2, <2>1 DEF Committing, EndsSo
      <3>3. Len(s.token_ids) - s.num_prompt_tokens < MaxTokens[r]
        BY <3>2 DEF NumCompletionTokens, NumTokens
      <3>4. NumCompletionTokens(c) = Len(s.token_ids) + 1 - s.num_prompt_tokens
        <4>1. NumCompletionTokens(c) = Len(c.token_ids) - c.num_prompt_tokens
          BY DEF NumCompletionTokens, NumTokens
        <4>2. Len(c.token_ids) = Len(s.token_ids) + 1
          BY <2>9, <2>10
        <4>3. c.num_prompt_tokens = s.num_prompt_tokens
          BY <2>9
        <4>4. PICK n \in Nat : n = Len(s.token_ids)
          BY <3>1
        <4>5. PICK m \in Nat : m = s.num_prompt_tokens
          BY <3>1
        <4>6. PICK k : k = NumCompletionTokens(c)
          OBVIOUS
        <4>7. k = (n + 1) - m
          BY <4>1, <4>2, <4>3, <4>4, <4>5, <4>6
        <4> QED
          BY <4>4, <4>5, <4>6, <4>7
      <3>5. NumCompletionTokens(c) <= MaxTokens[r] /\ NumCompletionTokens(c) \in Int
        BY <3>1, <3>3, <3>4
      <3>6. Last(c.token_ids) = token
        BY <2>9, <2>10 DEF Last
      <3>7. c.num_new_tokens > 0
        BY <2>9, <3>1
      <3>8. \/ why = "stop" /\ token = Eos
            \/ why = "length" /\ NumCompletionTokens(c) = MaxTokens[r]
            \/ why = NoReason /\ NumCompletionTokens(c) # MaxTokens[r]
        BY <2>4 DEF StopReason
      <3> QED
        BY <3>1, <3>5, <3>6, <3>7, <3>8 DEF EndsSo, NoReason
    <2>14. Committing(s0, r, c, why)
      BY <2>1, <2>9, <2>11, <2>12, <2>13 DEF Committing
    <2> QED
      BY <2>6, <2>7, <2>14
  <1> QED
    BY <1>1, <1>2

(* The tokens of a row, committed until one ends the completion.           *)
LEMMA RowCommitted ==
    ASSUME NEW s, IsSeq(s), NEW r \in Reqs, NEW tokens \in Seq(Vocab),
           NumCompletionTokens(s) < MaxTokens[r]
    PROVE  LET x == CommitRow(s, r, tokens) IN Committing(s, r, x.s, x.reason)
  <1>1. PICK s0 : s0 = [s EXCEPT !.num_new_tokens = 0]
    OBVIOUS
  <1>2. PICK start : start = [s |-> s0, reason |-> NoReason]
    OBVIOUS
  <1>3. start.s = s0 /\ start.reason = NoReason
    BY <1>2
  <1>4. /\ IsSeq(s0) /\ s0.token_ids = s.token_ids /\ s0.num_new_tokens = 0
        /\ s0.status = s.status /\ s0.finish_reason = s.finish_reason
        /\ s0.num_preemptions = s.num_preemptions /\ s0.arrival = s.arrival
        /\ s0.num_prompt_tokens = s.num_prompt_tokens
    BY <1>1 DEF IsSeq, SeqFields
  <1>5. CommitInv(s, r, tokens, start, 0)
    <2>1. /\ Len(s.token_ids) \in Nat /\ s.num_prompt_tokens \in Nat /\ MaxTokens[r] \in Nat
          /\ s.token_ids \in Seq(Vocab)
      BY SchedulerAssumption DEF IsSeq
    <2>2. Grown(s.token_ids, s0.token_ids, s0.num_new_tokens)
      BY <1>4, <2>1 DEF Grown
    <2>3. NumCompletionTokens(s0) = NumCompletionTokens(s) /\ NumCompletionTokens(s) \in Int
      BY <1>4, <2>1 DEF NumCompletionTokens, NumTokens
    <2>4. EndsSo(r, s0, NoReason)
      BY <2>1, <2>3 DEF EndsSo, NoReason
    <2> QED
      BY <1>3, <1>4, <2>2, <2>4 DEF CommitInv, Committing
  <1>6. PICK k : k = Len(tokens)
    OBVIOUS
  <1>7. k \in Nat /\ \A i \in 1..k : tokens[i] \in Vocab
    BY <1>6
  <1>8. s.token_ids \in Seq(Vocab)
    BY DEF IsSeq
  <1>9. ASSUME NEW i \in 1..k, NEW q, CommitInv(s, r, tokens, q, i - 1)
        PROVE  CommitInv(s, r, tokens, CommitRound(s, r, tokens, q, i), i)
    <2>1. PICK token \in Vocab : token = tokens[i]
      BY <1>7
    <2>2. PICK x : x = CommitNext(q, r, token)
      OBVIOUS
    <2>3. Committing(s, r, x.s, x.reason)
      BY <1>8, <1>9, <2>2, NextCommitted DEF CommitInv
    <2> QED
      BY <2>1, <2>2, <2>3 DEF CommitInv, CommitRound
  <1>10. CommitInv(s, r, tokens, CommitLoop!Loop(s, r, tokens, start, k), k)
    BY <1>5, <1>7, <1>9, CountsUp, CommitLoop!LoopInvariant
  <1>11. CommitRow(s, r, tokens) = CommitLoop!Loop(s, r, tokens, start, k)
    BY <1>1, <1>2, <1>6 DEF CommitRow, Repeat, CommitLoop!Loop, CommitRound
  <1> QED
    BY <1>10, <1>11 DEF CommitInv

(* What reconciling a row does to its sequence: tokens, and perhaps the    *)
(* end, for a reason that is true.                                         *)
Commits(r, s, t) ==
    /\ IsSeq(t)
    /\ t.num_preemptions = s.num_preemptions /\ t.arrival = s.arrival
    /\ t.num_prompt_tokens = s.num_prompt_tokens
    /\ Grown(s.token_ids, t.token_ids, t.num_new_tokens)
    /\ \/ t.status = "RUNNING" /\ t.finish_reason = s.finish_reason /\ EndsSo(r, t, NoReason)
       \/ t.status = "FINISHED" /\ t.finish_reason # NoReason /\ EndsSo(r, t, t.finish_reason)

(* A sequence with the same tokens and the same life ends as well.         *)
LEMMA SameCommits ==
    ASSUME NEW r, NEW s, NEW g, NEW c, NEW t, NEW reason, SameLife(s, g), Committing(g, r, c, reason),
           reason = NoReason, s.status = "RUNNING", SameLife(c, t)
    PROVE  Commits(r, s, t) /\ t.status = "RUNNING"
  BY DEF Commits, Committing, SameLife, SameTokens, EndsSo, NumCompletionTokens, NumTokens

(* Every live sequence is short of its limit. *)
ShortOfLimit(st) ==
    \A r \in DOMAIN st.seq :
        ~IsFinished(st.seq[r]) => NumCompletionTokens(st.seq[r]) < MaxTokens[r]

(* One row reconciled: x is st with the tokens of r. *)
Steps(st, x, r) ==
    /\ Settled(x)
    /\ DOMAIN x.seq = DOMAIN st.seq /\ Tracked(x) \subseteq Tracked(st)
    /\ \A q \in DOMAIN st.seq : q # r => x.seq[q] = st.seq[q]
    /\ Commits(r, st.seq[r], x.seq[r])

(* reconcile(), for a row that counts.                                     *)
LEMMA RowReconciled ==
    ASSUME NEW st, Settled(st), NEW row, RowFits(st, row), ~RowIsVoid(st, row),
           NumCompletionTokens(st.seq[row.req]) < MaxTokens[row.req], NEW acc, acc.st = st
    PROVE  LET x == ReconcileRow(acc, row)
           IN  Steps(st, x.st, row.req) /\ x.stepped = Append(acc.stepped, row.req)
  <1>1. PICK r : r = row.req
    OBVIOUS
  <1>2. PICK s : s = st.seq[r]
    OBVIOUS
  <1>3. /\ r \in DOMAIN st.seq /\ r \in Reqs /\ row.tokens \in Seq(Vocab) /\ s.status = "RUNNING"
        /\ IsSeq(s) /\ DOMAIN st = SchedFields
        /\ Queue(st.waiting, DOMAIN st.seq) /\ Queue(st.running, DOMAIN st.seq)
    BY <1>1, <1>2 DEF RowFits, Settled, Shape
  <1>4. /\ r \in ToSet(st.running) /\ r \notin ToSet(st.waiting) /\ r \in st.live
        /\ r \notin st.recving
    BY <1>2, <1>3 DEF Settled, Placed
  <1>5. PICK rejected : rejected = row.num_draft_tokens - (Len(row.tokens) - 1)
    OBVIOUS
  <1>6. PICK g : g = GiveBack(s, rejected)
    OBVIOUS
  <1>7. SameLife(s, g) /\ IsSeq(g) /\ NumCompletionTokens(g) = NumCompletionTokens(s)
    BY <1>3, <1>6 DEF GiveBack, SameLife, SameTokens, IsSeq, SeqFields, NumCompletionTokens, NumTokens
  <1>8. PICK tokens \in Seq(Vocab) : tokens = row.tokens
    BY <1>3
  <1>9. PICK c : c = CommitRow(g, r, tokens)
    OBVIOUS
  <1>10. PICK cs : cs = c.s
    OBVIOUS
  <1>11. PICK why : why = c.reason
    OBVIOUS
  <1>12. Committing(g, r, cs, why)
    BY <1>1, <1>2, <1>3, <1>7, <1>8, <1>9, <1>10, <1>11, RowCommitted
  <1>13. IsSeq(cs) /\ cs.status = "RUNNING"
    BY <1>3, <1>7, <1>12 DEF Committing, SameLife
  <1>14. PICK x : x = ReconcileRow(acc, row)
    OBVIOUS
  <1>15. ASSUME why = NoReason
         PROVE  Steps(st, x.st, r) /\ x.stepped = Append(acc.stepped, r)
    <2>1. PICK t : t = IF NumSpeculativeTokens > 0 /\ cs.num_pending_tokens = 0
                       THEN [cs EXCEPT !.num_spec_tokens = NumSpeculativeTokens] ELSE cs
      OBVIOUS
    <2>2. PICK y : y = [st EXCEPT !.seq[r] = t]
      OBVIOUS
    <2>3. PICK m : m = Append(acc.stepped, r)
      OBVIOUS
    <2>4. x = [st |-> y, stepped |-> m]
      BY <1>1, <1>2, <1>5, <1>6, <1>8, <1>9, <1>10, <1>11, <1>14, <1>15, <2>1, <2>2, <2>3
         DEF ReconcileRow
    <2>5. SameLife(cs, t)
      BY <1>13, <2>1 DEF SameLife, SameTokens, IsSeq, SeqFields
    <2>6. Commits(r, s, t) /\ t.status = "RUNNING"
      BY <1>3, <1>7, <1>12, <1>15, <2>5, SameCommits
    <2>7. /\ DOMAIN y = SchedFields /\ DOMAIN y.seq = DOMAIN st.seq /\ y.seq[r] = t
          /\ \A q \in DOMAIN st.seq : q # r => y.seq[q] = st.seq[q]
          /\ y.waiting = st.waiting /\ y.running = st.running /\ y.live = st.live
          /\ y.recving = st.recving /\ y.sending = st.sending
      BY <1>3, <2>2 DEF SchedFields
    <2>8. IsSeq(t) /\ t.arrival = s.arrival
      BY <2>6 DEF Commits
    <2>9. Tracked(y) = Tracked(st)
      BY <2>7 DEF Tracked
    <2>10. Resettles(st, y, r)
      BY <1>2, <1>3, <1>4, <2>6, <2>7, <2>8, <2>9 DEF Resettles
    <2>11. Settled(y)
      BY <1>3, <2>10, SettledMove
    <2>12. Steps(st, y, r)
      BY <1>2, <2>6, <2>7, <2>9, <2>11 DEF Steps
    <2> QED
      BY <2>3, <2>4, <2>12
  <1>16. ASSUME why # NoReason
         PROVE  Steps(st, x.st, r) /\ x.stepped = Append(acc.stepped, r)
    <2>1. PICK w : w = Without(st.running, r)
      OBVIOUS
    <2>2. PICK d : d = DropPending(cs)
      OBVIOUS
    <2>3. PICK y1 : y1 = [st EXCEPT !.seq[r] = d, !.running = w]
      OBVIOUS
    <2>4. PICK y2 : y2 = Drop(y1, r, why)
      OBVIOUS
    <2>5. PICK y : y = Free(y2, r)
      OBVIOUS
    <2>6. PICK m : m = Append(acc.stepped, r)
      OBVIOUS
    <2>7. x = [st |-> y, stepped |-> m]
      <3>1. y1 = [st EXCEPT !.seq[r] = DropPending(c.s), !.running = Without(@, r)]
        BY <1>3, <1>10, <2>1, <2>2, <2>3 DEF SchedFields
      <3> QED
        BY <1>1, <1>2, <1>5, <1>6, <1>8, <1>9, <1>11, <1>14, <1>16, <2>4, <2>5, <2>6, <3>1
           DEF ReconcileRow
    <2>8. Queue(w, DOMAIN st.seq) /\ ToSet(w) = ToSet(st.running) \ {r}
      BY <1>3, <2>1, QueueWithout
    <2>9. SameLife(cs, d) /\ DOMAIN d = SeqFields
      BY <1>13, <2>2 DEF DropPending, SameLife, SameTokens, IsSeq, SeqFields
    <2>10. /\ DOMAIN y1 = SchedFields /\ DOMAIN y1.seq = DOMAIN st.seq /\ y1.seq[r] = d
           /\ \A q \in DOMAIN st.seq : q # r => y1.seq[q] = st.seq[q]
           /\ y1.waiting = st.waiting /\ y1.running = w /\ y1.live = st.live
           /\ y1.recving = st.recving /\ y1.sending = st.sending
      BY <1>3, <2>3 DEF SchedFields
    <2>11. PICK e : e = y2.seq[r]
      OBVIOUS
    <2>12. /\ DOMAIN y2 = SchedFields /\ DOMAIN y2.seq = DOMAIN st.seq
           /\ \A q \in DOMAIN st.seq : q # r => y2.seq[q] = st.seq[q]
           /\ y2.waiting = st.waiting /\ y2.running = w /\ y2.live = st.live \ {r}
           /\ y2.recving = st.recving /\ y2.sending = st.sending
      BY <1>3, <2>4, <2>10 DEF Drop, Finish, SchedFields
    <2>13. e = DropPending([[d EXCEPT !.status = "FINISHED"] EXCEPT !.finish_reason = why])
      BY <1>3, <2>4, <2>9, <2>10, <2>11 DEF Drop, Finish, SchedFields, SeqFields
    <2>14. /\ DOMAIN e = SeqFields /\ e.status = "FINISHED" /\ e.finish_reason = why
           /\ e.token_ids = d.token_ids /\ e.num_prompt_tokens = d.num_prompt_tokens
           /\ e.num_new_tokens = d.num_new_tokens /\ e.num_preemptions = d.num_preemptions
           /\ e.arrival = d.arrival
      BY <2>9, <2>13 DEF DropPending, SeqFields
    <2>15. IsSeq(e)
      BY <2>9, <2>14 DEF SameLife, SameTokens, IsSeq, Status
    <2>16. PICK t : t = y.seq[r]
      OBVIOUS
    <2>17. Frees(y2, y, r)
      BY <1>3, <2>5, <2>11, <2>12, <2>15, FreeMoves
    <2>18. SameLife(e, t)
      BY <2>11, <2>16, <2>17 DEF Frees
    <2>19. /\ IsSeq(t) /\ t.status = "FINISHED" /\ t.finish_reason = why
           /\ t.token_ids = cs.token_ids /\ t.num_prompt_tokens = cs.num_prompt_tokens
           /\ t.num_new_tokens = cs.num_new_tokens /\ t.num_preemptions = cs.num_preemptions
           /\ t.arrival = cs.arrival
      BY <2>9, <2>14, <2>18 DEF SameLife, SameTokens
    <2>20. Commits(r, s, t)
      <3>1. /\ Grown(s.token_ids, t.token_ids, t.num_new_tokens)
            /\ t.num_preemptions = s.num_preemptions /\ t.arrival = s.arrival
            /\ t.num_prompt_tokens = s.num_prompt_tokens
        BY <1>7, <1>12, <2>19 DEF Committing, SameLife, SameTokens
      <3>2. EndsSo(r, t, why)
        BY <1>12, <2>19 DEF Committing, EndsSo, NumCompletionTokens, NumTokens
      <3> QED
        BY <1>16, <2>19, <3>1, <3>2 DEF Commits
    <2>21. /\ DOMAIN y = SchedFields /\ DOMAIN y.seq = DOMAIN st.seq
           /\ \A q \in DOMAIN st.seq : q # r => y.seq[q] = st.seq[q]
           /\ y.waiting = st.waiting /\ y.running = w /\ y.live = st.live \ {r}
           /\ y.recving = st.recving /\ y.sending \subseteq st.sending \cup {r}
      BY <2>12, <2>17 DEF Frees
    <2>22. Tracked(y) \subseteq Tracked(st)
      BY <1>4, <2>21 DEF Tracked
    <2>23. Resettles(st, y, r)
      <3>1. t.arrival = s.arrival
        BY <2>20 DEF Commits
      <3> QED
        BY <1>2, <1>3, <1>4, <2>8, <2>16, <2>19, <2>21, <2>22, <3>1 DEF Resettles
    <2>24. Settled(y)
      BY <1>3, <2>23, SettledMove
    <2>25. Steps(st, y, r)
      BY <1>2, <2>16, <2>20, <2>21, <2>22, <2>24 DEF Steps
    <2> QED
      BY <2>6, <2>7, <2>25
  <1> QED
    BY <1>1, <1>14, <1>15, <1>16

(* After the first i rows: the stepped have their tokens, the others are   *)
(* as they were.                                                           *)
Reconciled(st0, rows, st, stepped, i) ==
    /\ Settled(st)
    /\ DOMAIN st.seq = DOMAIN st0.seq /\ Tracked(st) \subseteq Tracked(st0)
    /\ List(stepped, DOMAIN st0.seq)
    /\ \A r \in DOMAIN st0.seq :
        IF r \in ToSet(stepped)
        THEN /\ Commits(r, st0.seq[r], st.seq[r])
             /\ \E j \in 1..i : rows[j].req = r /\ ~RowIsVoid(st0, rows[j])
        ELSE st.seq[r] = st0.seq[r]

ReconcileRound(a, b, c, p, i) == ReconcileRow(p, b[i])
ReconcileInv(a, b, c, p, i) == Reconciled(a, b, p.st, p.stepped, i)
ReconcileLoop == INSTANCE Loops WITH Round <- ReconcileRound, Inv <- ReconcileInv

(* One row more is reconciled.                                             *)
LEMMA NextReconciled ==
    ASSUME NEW st0, Settled(st0), ShortOfLimit(st0), NEW rows, RowsFit(st0, rows),
           NEW i \in 1..Len(rows), NEW p, Reconciled(st0, rows, p.st, p.stepped, i - 1)
    PROVE  LET x == ReconcileRow(p, rows[i]) IN Reconciled(st0, rows, x.st, x.stepped, i)
  <1>1. PICK row : row = rows[i]
    OBVIOUS
  <1>2. PICK r : r = row.req
    OBVIOUS
  <1>3. PICK st : st = p.st
    OBVIOUS
  <1>4. PICK old : old = p.stepped
    OBVIOUS
  <1>5. /\ Settled(st) /\ DOMAIN st.seq = DOMAIN st0.seq /\ Tracked(st) \subseteq Tracked(st0)
        /\ List(old, DOMAIN st0.seq)
        /\ \A q \in DOMAIN st0.seq :
             IF q \in ToSet(old)
             THEN /\ Commits(q, st0.seq[q], st.seq[q])
                  /\ \E j \in 1..(i - 1) : rows[j].req = q /\ ~RowIsVoid(st0, rows[j])
             ELSE st.seq[q] = st0.seq[q]
    BY <1>3, <1>4 DEF Reconciled
  <1>6. Len(rows) \in Nat /\ \A j \in 1..Len(rows) : rows[j].req = r => j = i
    BY <1>1, <1>2 DEF RowsFit
  <1>7. RowFits(st0, row) /\ r \in DOMAIN st0.seq
    BY <1>1, <1>2 DEF RowsFit, RowFits
  <1>8. r \notin ToSet(old) /\ st.seq[r] = st0.seq[r]
    <2>1. r \notin ToSet(old)
      <3> SUFFICES ASSUME r \in ToSet(old) PROVE FALSE
        OBVIOUS
      <3>1. PICK j \in 1..(i - 1) : rows[j].req = r
        BY <1>5, <1>7
      <3>2. j \in 1..Len(rows) /\ j # i
        BY <1>6
      <3> QED
        BY <1>6, <3>1, <3>2
    <2> QED
      BY <1>5, <1>7, <2>1
  <1>9. \A j \in 1..(i - 1) : j \in 1..i
    BY <1>6
  <1>10. PICK x : x = ReconcileRow(p, row)
    OBVIOUS
  <1>11. RowIsVoid(st, row) <=> RowIsVoid(st0, row)
    BY <1>2, <1>8 DEF RowIsVoid
  <1>12. CASE RowIsVoid(st, row)
    <2>1. x = p
      BY <1>3, <1>10, <1>12 DEF ReconcileRow
    <2>2. \A q \in DOMAIN st0.seq :
             IF q \in ToSet(old)
             THEN /\ Commits(q, st0.seq[q], st.seq[q])
                  /\ \E j \in 1..i : rows[j].req = q /\ ~RowIsVoid(st0, rows[j])
             ELSE st.seq[q] = st0.seq[q]
      BY <1>5, <1>9
    <2>3. Reconciled(st0, rows, st, old, i)
      BY <1>5, <2>2 DEF Reconciled
    <2> QED
      BY <1>1, <1>3, <1>4, <1>10, <2>1, <2>3
  <1>13. CASE ~RowIsVoid(st, row)
    <2>1. RowFits(st, row)
      BY <1>2, <1>5, <1>7, <1>8, <1>11 DEF RowFits
    <2>2. ~IsFinished(st0.seq[r])
      BY <1>2, <1>8, <1>13 DEF RowIsVoid
    <2>3. NumCompletionTokens(st.seq[row.req]) < MaxTokens[row.req]
      BY <1>2, <1>7, <1>8, <2>2 DEF ShortOfLimit
    <2>4. Steps(st, x.st, row.req) /\ x.stepped = Append(p.stepped, row.req)
      BY <1>3, <1>5, <1>10, <1>13, <2>1, <2>3, RowReconciled
    <2>5. PICK z : z = x.st
      OBVIOUS
    <2>6. PICK new : new = Append(old, r)
      OBVIOUS
    <2>7. Steps(st, z, r) /\ x.stepped = new
      BY <1>2, <1>4, <2>4, <2>5, <2>6
    <2>8. PICK S : S = DOMAIN st0.seq
      OBVIOUS
    <2>9. List(old, S) /\ r \in S
      BY <1>5, <1>7, <2>8
    <2>10. List(new, S) /\ Adds(old, r, new)
      BY <2>6, <2>9, ListAppend
    <2>11. ToSet(new) = ToSet(old) \cup {r}
      BY <2>10 DEF Adds
    <2>12. /\ Settled(z) /\ DOMAIN z.seq = DOMAIN st0.seq /\ Tracked(z) \subseteq Tracked(st0)
           /\ \A q \in DOMAIN st0.seq : q # r => z.seq[q] = st.seq[q]
           /\ Commits(r, st0.seq[r], z.seq[r])
      BY <1>5, <1>8, <2>7 DEF Steps
    <2>13. ASSUME NEW q \in DOMAIN st0.seq
           PROVE  IF q \in ToSet(new)
                  THEN /\ Commits(q, st0.seq[q], z.seq[q])
                       /\ \E j \in 1..i : rows[j].req = q /\ ~RowIsVoid(st0, rows[j])
                  ELSE z.seq[q] = st0.seq[q]
      <3>1. CASE q = r
        <4>1. i \in 1..i
          BY <1>6
        <4>2. rows[i].req = r /\ ~RowIsVoid(st0, rows[i])
          BY <1>1, <1>2, <1>11, <1>13
        <4> QED
          BY <2>11, <2>12, <3>1, <4>1, <4>2
      <3>2. CASE q # r
        <4>1. q \in ToSet(new) <=> q \in ToSet(old)
          BY <2>11, <3>2
        <4>2. z.seq[q] = st.seq[q]
          BY <2>12, <3>2
        <4> QED
          BY <1>5, <1>9, <4>1, <4>2
      <3> QED
        BY <3>1, <3>2
    <2>14. Reconciled(st0, rows, z, new, i)
      BY <2>8, <2>10, <2>12, <2>13 DEF Reconciled
    <2> QED
      BY <1>1, <1>10, <2>5, <2>7, <2>14
  <1> QED
    BY <1>12, <1>13

(* reconcile(): exactly the rows that still count have their tokens.       *)
LEMMA StepReconciled ==
    ASSUME NEW st0, Settled(st0), ShortOfLimit(st0), NEW rows, RowsFit(st0, rows)
    PROVE  LET x == Reconcile(st0, rows)
           IN  Reconciled(st0, rows, x.st, x.stepped, Len(rows))
  <1>1. PICK k : k = Len(rows)
    OBVIOUS
  <1>2. k \in Nat
    BY <1>1 DEF RowsFit
  <1>3. PICK start : start = [st |-> st0, stepped |-> << >>]
    OBVIOUS
  <1>4. ReconcileInv(st0, rows, 0, start, 0)
    <2>1. start.st = st0 /\ start.stepped = << >>
      BY <1>3
    <2>2. List(<< >>, DOMAIN st0.seq) /\ ToSet(<< >>) = {}
      BY QueueEmpty DEF List
    <2>3. PICK e : e = << >>
      OBVIOUS
    <2>4. List(e, DOMAIN st0.seq) /\ ToSet(e) = {}
      BY <2>2, <2>3
    <2>5. Reconciled(st0, rows, st0, e, 0)
      BY <2>4 DEF Reconciled
    <2> QED
      BY <2>1, <2>3, <2>5 DEF ReconcileInv
  <1>5. ASSUME NEW i \in 1..k, NEW q, ReconcileInv(st0, rows, 0, q, i - 1)
        PROVE  ReconcileInv(st0, rows, 0, ReconcileRound(st0, rows, 0, q, i), i)
    BY <1>1, <1>5, NextReconciled DEF ReconcileInv, ReconcileRound
  <1>6. ReconcileInv(st0, rows, 0, ReconcileLoop!Loop(st0, rows, 0, start, k), k)
    BY <1>2, <1>4, <1>5, CountsUp, ReconcileLoop!LoopInvariant
  <1>7. Reconcile(st0, rows) = ReconcileLoop!Loop(st0, rows, 0, start, k)
    BY <1>1, <1>3 DEF Reconcile, Repeat, ReconcileLoop!Loop, ReconcileRound
  <1> QED
    BY <1>1, <1>6, <1>7 DEF ReconcileInv

-----------------------------------------------------------------------------
(* What the clients are told. *)

ClientFields == {"tokens", "finals", "handover", "aborted"}

(* What the client c of r knows of its sequence s: the tokens, and the one *)
(* last output of a completion that was not aborted.                       *)
Told(r, s, c) ==
    /\ s.token_ids = Prompt[r] \o c.tokens
    /\ s.num_prompt_tokens = Len(Prompt[r])
    /\ c.tokens \in Seq(Vocab)
    /\ Len(c.tokens) <= MaxTokens[r]
    /\ IsFinished(s) =>
        /\ c.finals = IF c.aborted THEN 0 ELSE 1
        /\ s.finish_reason = "length" => Len(c.tokens) = MaxTokens[r]
        /\ (s.finish_reason = "stop" /\ ~c.aborted) => Last(c.tokens) = Eos
    /\ ~IsFinished(s) =>
        /\ c.finals = 0 /\ ~c.aborted
        /\ s.finish_reason = NoReason
        /\ Len(c.tokens) < MaxTokens[r]

(* The client of a request that has not arrived. *)
Untold(c) == c.tokens = << >> /\ c.finals = 0 /\ ~c.aborted

(* The completion of a sequence its client was told of.                    *)
LEMMA ToldTokens ==
    ASSUME NEW r \in Reqs, NEW s, NEW c, Told(r, s, c)
    PROVE  NumCompletionTokens(s) = Len(c.tokens) /\ Prompt[r] \in Seq(Vocab)
  <1>1. Prompt[r] \in Seq(Vocab)
    BY EngineAssumption
  <1>2. PICK p : p = Prompt[r]
    OBVIOUS
  <1>3. PICK d : d = c.tokens
    OBVIOUS
  <1>4. p \in Seq(Vocab) /\ d \in Seq(Vocab) /\ s.token_ids = p \o d /\ s.num_prompt_tokens = Len(p)
    BY <1>1, <1>2, <1>3 DEF Told
  <1>5. Len(p \o d) = Len(p) + Len(d) /\ Len(p) \in Nat /\ Len(d) \in Nat
    BY <1>4, Joined DEF List, Joins, Parts
  <1>6. NumCompletionTokens(s) = Len(p \o d) - Len(p)
    BY <1>4 DEF NumCompletionTokens, NumTokens
  <1> QED
    BY <1>1, <1>3, <1>5, <1>6

(* A launch that ends nobody tells nobody anything.                        *)
LEMMA ToldOn ==
    ASSUME NEW r \in Reqs, NEW s, NEW t, NEW c, Told(r, s, c), LifeStep(s, t),
           IsFinished(t) => IsFinished(s)
    PROVE  Told(r, t, c)
  BY DEF Told, LifeStep, SameTokens

(* A dropped request gets its last output.                                 *)
LEMMA ToldDropped ==
    ASSUME NEW r \in Reqs, NEW s, NEW t, NEW c, DOMAIN c = ClientFields, Told(r, s, c),
           LifeStep(s, t), IsFinished(t), ~IsFinished(s), NEW d,
           d = [c EXCEPT !.finals = @ + 1]
    PROVE  Told(r, t, d) /\ DOMAIN d = ClientFields
  <1>1. /\ DOMAIN d = ClientFields /\ d.tokens = c.tokens /\ d.finals = c.finals + 1
        /\ d.aborted = c.aborted
    BY DEF ClientFields
  <1>2. c.finals = 0 /\ ~c.aborted /\ t.finish_reason = "capacity"
    BY DEF Told, LifeStep
  <1>3. d.finals = 1 /\ ~d.aborted
    BY <1>1, <1>2
  <1>4. t.token_ids = s.token_ids /\ t.num_prompt_tokens = s.num_prompt_tokens
    BY DEF LifeStep, SameTokens
  <1> QED
    BY <1>1, <1>2, <1>3, <1>4 DEF Told

(* The output of a reconciled request, as it is at the end of the step. *)
OutputTo(c, s) ==
    [c EXCEPT !.tokens = @ \o SubSeq(s.token_ids, NumTokens(s) - s.num_new_tokens + 1, NumTokens(s)),
              !.finals = IF IsFinished(s) THEN @ + 1 ELSE @,
              !.handover = @ \/ (IsFinished(s) /\ HandsOver(s))]

(* A reconciled request is told its new tokens, and its end if it came.    *)
LEMMA ToldStepped ==
    ASSUME NEW r \in Reqs, NEW s, NEW t, NEW u, NEW c, DOMAIN c = ClientFields, Told(r, s, c),
           ~IsFinished(s), Commits(r, s, t), LifeStep(t, u), NEW d, d = OutputTo(c, u)
    PROVE  Told(r, u, d) /\ DOMAIN d = ClientFields
  <1>1. PICK new : new = c.tokens \o SubSeq(u.token_ids, NumTokens(u) - u.num_new_tokens + 1, NumTokens(u))
    OBVIOUS
  <1>2. PICK fin : fin = IF IsFinished(u) THEN c.finals + 1 ELSE c.finals
    OBVIOUS
  <1>3. PICK hand : hand = (c.handover \/ (IsFinished(u) /\ HandsOver(u)))
    OBVIOUS
  <1>4. d = [c EXCEPT !.tokens = new, !.finals = fin, !.handover = hand]
    BY <1>1, <1>2, <1>3 DEF OutputTo, ClientFields
  <1>5. /\ DOMAIN d = ClientFields /\ d.tokens = new /\ d.finals = fin /\ d.aborted = c.aborted
    BY <1>4 DEF ClientFields
  <1>6. /\ IsSeq(t) /\ IsSeq(u) /\ u.token_ids = t.token_ids /\ u.num_new_tokens = t.num_new_tokens
        /\ u.num_prompt_tokens = s.num_prompt_tokens
    BY DEF Commits, LifeStep, SameTokens
  <1>7. PICK p : p = Prompt[r]
    OBVIOUS
  <1>8. PICK old : old = c.tokens
    OBVIOUS
  <1>9. PICK v : v = u.token_ids
    OBVIOUS
  <1>10. PICK k : k = u.num_new_tokens
    OBVIOUS
  <1>11. PICK x : x = s.token_ids
    OBVIOUS
  <1>12. /\ p \in Seq(Vocab) /\ old \in Seq(Vocab) /\ x = p \o old /\ v \in Seq(Vocab) /\ k \in Nat
         /\ Grown(x, v, k)
    BY <1>6, <1>7, <1>8, <1>9, <1>10, <1>11, ToldTokens DEF Told, IsSeq, Commits
  <1>13. new = old \o SubSeq(v, Len(v) - k + 1, Len(v))
    BY <1>1, <1>8, <1>9, <1>10 DEF NumTokens
  <1>14. /\ new \in Seq(Vocab) /\ v = p \o new /\ Len(v) = Len(p) + Len(new)
         /\ k > 0 => Last(new) = Last(v)
    <2> DEFINE L(q) == List(q, Vocab)
    <2>1. L(p) /\ L(old) /\ L(v) /\ Joins(p, old, x) /\ Extends(old, v, k, new)
      BY <1>12, <1>13 DEF List, Joins, Extends
    <2>2. L(new) /\ Joins(p, new, v) /\ (k > 0 => Last(new) = Last(v))
      BY <1>12, <2>1, GrownTokens
    <2>3. Parts(p, new, v)
      BY <2>1, <2>2, Joined
    <2> QED
      BY <2>2, <2>3 DEF List, Joins, Parts
  <1>15. /\ Len(new) \in Nat /\ MaxTokens[r] \in Nat
         /\ NumCompletionTokens(t) = Len(new)
    <2>1. NumCompletionTokens(t) = Len(v) - s.num_prompt_tokens
      BY <1>6, <1>9 DEF NumCompletionTokens, NumTokens, Commits
    <2>2. s.num_prompt_tokens = Len(p)
      BY <1>7 DEF Told
    <2>3. Len(v) = Len(p) + Len(new) /\ Len(p) \in Nat /\ Len(new) \in Nat
      BY <1>12, <1>14
    <2>4. MaxTokens[r] \in Nat
      BY SchedulerAssumption
    <2> QED
      BY <2>1, <2>2, <2>3, <2>4
  <1>16. c.finals = 0 /\ ~c.aborted /\ s.finish_reason = NoReason
    BY DEF Told
  <1>17. Len(new) <= MaxTokens[r]
    BY <1>15 DEF Commits, EndsSo
  <1>18. ASSUME IsFinished(u)
         PROVE  /\ d.finals = 1
                /\ u.finish_reason = "length" => Len(new) = MaxTokens[r]
                /\ u.finish_reason = "stop" => Last(new) = Eos
    <2>1. d.finals = 1
      BY <1>2, <1>5, <1>16, <1>18
    <2>2. CASE t.status = "RUNNING"
      <3>1. u.finish_reason = "capacity"
        BY <1>18, <2>2 DEF LifeStep, IsFinished
      <3> QED
        BY <2>1, <3>1
    <2>3. CASE t.status = "FINISHED"
      <3>1. u.finish_reason = t.finish_reason /\ EndsSo(r, t, t.finish_reason)
        BY <2>3 DEF LifeStep, IsFinished, Commits
      <3>2. u.finish_reason = "length" => Len(new) = MaxTokens[r]
        BY <1>15, <3>1 DEF EndsSo
      <3>3. u.finish_reason = "stop" => k > 0 /\ Last(v) = Eos
        BY <1>6, <1>9, <1>10, <3>1 DEF EndsSo
      <3> QED
        BY <1>14, <2>1, <3>2, <3>3
    <2> QED
      BY <2>2, <2>3 DEF Commits
  <1>19. ASSUME ~IsFinished(u)
         PROVE  d.finals = 0 /\ u.finish_reason = NoReason /\ Len(new) < MaxTokens[r]
    <2>1. t.status = "RUNNING" /\ t.finish_reason = NoReason /\ EndsSo(r, t, NoReason)
      BY <1>16, <1>19 DEF Commits, LifeStep, IsFinished
    <2>2. u.finish_reason = NoReason
      BY <1>19, <2>1 DEF LifeStep
    <2>3. Len(new) < MaxTokens[r]
      BY <1>15, <2>1 DEF EndsSo
    <2> QED
      BY <1>2, <1>5, <1>16, <1>19, <2>2, <2>3
  <1>20. u.token_ids = Prompt[r] \o d.tokens /\ u.num_prompt_tokens = Len(Prompt[r])
    BY <1>5, <1>6, <1>7, <1>9, <1>14 DEF Told
  <1>21. ~d.aborted
    BY <1>5, <1>16
  <1> QED
    BY <1>5, <1>14, <1>17, <1>18, <1>19, <1>20, <1>21 DEF Told

-----------------------------------------------------------------------------
(* The engine, between its steps. *)

(* No two tracked requests have one id. *)
Unique(st) == \A r, q \in Tracked(st) : RequestId[r] = RequestId[q] => r = q

(* Every client knows what its sequence says. *)
Informed(st, cl) ==
    \A r \in Reqs :
        /\ DOMAIN cl[r] = ClientFields
        /\ IF r \in DOMAIN st.seq THEN Told(r, st.seq[r], cl[r]) ELSE Untold(cl[r])

Life(st, rows, cl) ==
    /\ Settled(st)
    /\ Unique(st)
    /\ RowsFit(st, rows)
    /\ DOMAIN cl = Reqs
    /\ Informed(st, cl)

(* The inductive invariant. *)
LifeInv == Life(sched, in_flight.rows, clients)

(* It holds before the first request.                                      *)
LEMMA InitLife ==
    Init => LifeInv
  <1> SUFFICES ASSUME Init PROVE LifeInv
    OBVIOUS
  <1>1. PICK st : st = sched
    OBVIOUS
  <1>2. PICK e : e = << >>
    OBVIOUS
  <1>3. PICK bm : bm = InitBlockManager
    OBVIOUS
  <1>4. st = [waiting |-> e, running |-> e, recving |-> {}, sending |-> {}, live |-> {},
              seq |-> e, bm |-> bm, loads |-> e, sends |-> e]
    BY <1>1, <1>2, <1>3 DEF Init, InitScheduler
  <1>5. /\ DOMAIN st = SchedFields /\ st.waiting = e /\ st.running = e /\ st.recving = {}
        /\ st.sending = {} /\ st.live = {} /\ st.seq = e
    BY <1>4 DEF SchedFields
  <1>6. DOMAIN e = {} /\ \A S : Queue(e, S)
    BY <1>2, QueueEmpty
  <1>7. Settled(st)
    BY <1>5, <1>6 DEF Settled, Shape, Placed, Tracked
  <1>8. Unique(st)
    BY <1>5 DEF Unique, Tracked
  <1>9. PICK rows : rows = in_flight.rows
    OBVIOUS
  <1>10. RowsFit(st, rows)
    <2>1. rows = << >>
      BY <1>9 DEF Init, NoStep
    <2> QED
      BY <2>1 DEF RowsFit
  <1>11. PICK cl : cl = clients
    OBVIOUS
  <1>12. PICK no : no = FALSE
    OBVIOUS
  <1>13. PICK c : c = [tokens |-> << >>, finals |-> 0, handover |-> no, aborted |-> no]
    OBVIOUS
  <1>14. DOMAIN cl = Reqs /\ \A r \in Reqs : cl[r] = c
    BY <1>11, <1>12, <1>13 DEF Init
  <1>15. DOMAIN c = ClientFields /\ c.tokens = << >> /\ c.finals = 0 /\ c.aborted = no
    BY <1>13 DEF ClientFields
  <1>16. Untold(c)
    BY <1>12, <1>15 DEF Untold
  <1>17. Informed(st, cl)
    BY <1>5, <1>6, <1>14, <1>15, <1>16 DEF Informed
  <1> QED
    BY <1>1, <1>7, <1>8, <1>9, <1>10, <1>11, <1>14, <1>17 DEF LifeInv, Life

(* How a request joins the waiting queue.                                  *)
LEMMA AddWaits ==
    ASSUME NEW st, DOMAIN st = SchedFields, NEW S, Queue(st.waiting, S), NEW r \in S,
           r \notin ToSet(st.waiting)
    PROVE  LET x == PolicyAdd(st, r)
           IN  /\ DOMAIN x = SchedFields
               /\ Queue(x.waiting, S) /\ ToSet(x.waiting) = ToSet(st.waiting) \cup {r}
               /\ x.running = st.running /\ x.live = st.live /\ x.seq = st.seq
               /\ x.recving = st.recving /\ x.sending = st.sending
  <1>1. CASE SchedulingPolicy = "fcfs"
    <2>1. PICK w : w = Append(st.waiting, r)
      OBVIOUS
    <2>2. Queue(w, S) /\ ToSet(w) = ToSet(st.waiting) \cup {r}
      BY <2>1, QueueAppend
    <2>3. PolicyAdd(st, r) = [st EXCEPT !.waiting = w]
      BY <1>1, <2>1 DEF PolicyAdd
    <2> QED
      BY <2>2, <2>3 DEF SchedFields
  <1>2. CASE SchedulingPolicy # "fcfs"
    <2>1. PolicyAdd(st, r) = PolicyPush(st, r)
      BY <1>2 DEF PolicyAdd
    <2> QED
      BY <2>1, PushWaits
  <1> QED
    BY <1>1, <1>2

(* The sequence of a new request, and what its client knows of it.         *)
LEMMA NewTold ==
    ASSUME NEW r \in Reqs, NEW n \in Nat, NEW c, Untold(c), NEW s,
           s = NewSequence(Prompt[r], n, Transfer[r])
    PROVE  IsSeq(s) /\ s.arrival = n /\ s.status = "WAITING" /\ Told(r, s, c)
  <1>1. PICK p \in Seq(Vocab) : p = Prompt[r]
    BY EngineAssumption
  <1>2. PICK k \in Nat : k = Len(p)
    OBVIOUS
  <1>3. PICK f : f = Transfer[r].do_remote_prefill
    OBVIOUS
  <1>4. PICK g : g = Transfer[r].do_remote_decode
    OBVIOUS
  <1>5. PICK e : e = << >>
    OBVIOUS
  <1>6. PICK yes : yes = TRUE
    OBVIOUS
  <1>7. s = [status               |-> "WAITING",
             token_ids            |-> p,
             num_prompt_tokens    |-> k,
             num_cached_tokens    |-> 0,
             num_pending_tokens   |-> 0,
             num_published_blocks |-> 0,
             num_scheduled_tokens |-> 0,
             num_new_tokens       |-> 0,
             num_spec_tokens      |-> 0,
             is_prefill           |-> yes,
             block_table          |-> e,
             finish_reason        |-> NoReason,
             num_preemptions      |-> 0,
             arrival              |-> n,
             do_remote_prefill    |-> f,
             do_remote_decode     |-> g]
    BY <1>1, <1>2, <1>3, <1>4, <1>5, <1>6 DEF NewSequence
  <1>8. /\ DOMAIN s = SeqFields /\ s.status = "WAITING" /\ s.token_ids = p
        /\ s.num_prompt_tokens = k /\ s.num_new_tokens = 0 /\ s.finish_reason = NoReason
        /\ s.num_preemptions = 0 /\ s.arrival = n
    BY <1>7 DEF SeqFields
  <1>9. IsSeq(s)
    BY <1>8 DEF IsSeq, Status
  <1>10. p = p \o << >>
    BY ConcatEmptySeq
  <1>11. MaxTokens[r] \in Nat /\ 0 < MaxTokens[r]
    BY SchedulerAssumption
  <1>12. c.tokens = << >> /\ c.finals = 0 /\ ~c.aborted
    BY DEF Untold
  <1>13. Len(<< >>) = 0 /\ << >> \in Seq(Vocab)
    OBVIOUS
  <1>14. s.token_ids = Prompt[r] \o c.tokens /\ s.num_prompt_tokens = Len(Prompt[r])
    BY <1>1, <1>2, <1>8, <1>10, <1>12
  <1>15. /\ c.tokens \in Seq(Vocab) /\ Len(c.tokens) < MaxTokens[r]
         /\ Len(c.tokens) <= MaxTokens[r]
    BY <1>11, <1>12, <1>13
  <1>16. ~IsFinished(s)
    BY <1>8 DEF IsFinished
  <1> QED
    BY <1>8, <1>9, <1>12, <1>14, <1>15, <1>16 DEF Told

(* add_request: a request whose id nobody has waits, with nothing told.    *)
LEMMA AddLife ==
    ASSUME NEW st, NEW rows, NEW cl, Life(st, rows, cl), NEW r \in Reqs, r \notin DOMAIN st.seq,
           ~IdTaken(st, RequestId[r]), NEW x, x = AddSequence(st, r)
    PROVE  Life(x, rows, cl) /\ \A q \in DOMAIN st.seq : x.seq[q] = st.seq[q]
  <1>1. PICK D : D = DOMAIN st.seq
    OBVIOUS
  <1>2. PICK E : E = D \cup {r}
    OBVIOUS
  <1>3. /\ Settled(st) /\ DOMAIN st = SchedFields /\ D \subseteq Reqs
        /\ \A q \in D : IsSeq(st.seq[q]) /\ st.seq[q].arrival <= Cardinality(D)
        /\ \A q, p \in D : st.seq[q].arrival = st.seq[p].arrival => q = p
        /\ Queue(st.waiting, D) /\ Queue(st.running, D) /\ Tracked(st) \subseteq D
    BY <1>1 DEF Life, Settled, Shape
  <1>4. /\ IsFiniteSet(D) /\ Cardinality(D) \in Nat /\ Cardinality(E) = Cardinality(D) + 1
        /\ E \subseteq Reqs
    <2>1. IsFiniteSet(D)
      BY <1>3, EngineAssumption, FS_Subset
    <2> QED
      BY <1>1, <1>2, <1>3, <2>1, FS_AddElement, FS_CardinalityType
  <1>5. PICK n \in Nat : n = Cardinality(D) + 1
    BY <1>4
  <1>6. PICK s : s = NewSequence(Prompt[r], n, Transfer[r])
    OBVIOUS
  <1>7. Untold(cl[r])
    BY DEF Life, Informed
  <1>8. IsSeq(s) /\ s.arrival = n /\ s.status = "WAITING" /\ Told(r, s, cl[r])
    BY <1>6, <1>7, NewTold
  <1>9. PICK f : f = [q \in E |-> IF q = r THEN s ELSE st.seq[q]]
    OBVIOUS
  <1>10. PICK y : y = [st EXCEPT !.seq = f, !.live = @ \cup {r}]
    OBVIOUS
  <1>11. x = PolicyAdd(y, r)
    BY <1>1, <1>2, <1>3, <1>5, <1>6, <1>9, <1>10 DEF AddSequence, SchedFields
  <1>12. /\ DOMAIN y = SchedFields /\ y.seq = f /\ y.live = st.live \cup {r}
         /\ y.waiting = st.waiting /\ y.running = st.running /\ y.recving = st.recving
         /\ y.sending = st.sending
    BY <1>3, <1>10 DEF SchedFields
  <1>13. Queue(y.waiting, E) /\ Queue(y.running, E)
    <2>1. \A t : Queue(t, D) => Queue(t, E)
      BY <1>2 DEF Queue
    <2> QED
      BY <1>3, <1>12, <2>1
  <1>14. r \in E /\ r \notin D /\ r \notin ToSet(st.waiting) /\ r \notin ToSet(st.running)
    BY <1>1, <1>2, <1>3 DEF Queue, ToSet
  <1>15. /\ DOMAIN x = SchedFields
         /\ Queue(x.waiting, E) /\ ToSet(x.waiting) = ToSet(st.waiting) \cup {r}
         /\ x.running = st.running /\ x.live = st.live \cup {r} /\ x.seq = f
         /\ x.recving = st.recving /\ x.sending = st.sending
    BY <1>11, <1>12, <1>13, <1>14, AddWaits
  <1>16. DOMAIN x.seq = E /\ x.seq[r] = s /\ \A q \in D : x.seq[q] = st.seq[q]
    BY <1>2, <1>9, <1>14, <1>15
  <1>17. Tracked(x) = Tracked(st) \cup {r}
    BY <1>15 DEF Tracked
  <1>18. Shape(x)
    <2>1. \A q \in E : IsSeq(x.seq[q])
      BY <1>2, <1>3, <1>8, <1>16
    <2>2. ASSUME NEW q \in E PROVE x.seq[q].arrival <= Cardinality(E)
      <3>1. CASE q = r
        BY <1>4, <1>5, <1>8, <1>16, <3>1
      <3>2. CASE q \in D
        <4>1. st.seq[q].arrival \in Nat /\ st.seq[q].arrival <= Cardinality(D)
          BY <1>3, <3>2 DEF IsSeq
        <4> QED
          BY <1>4, <1>16, <3>2, <4>1
      <3> QED
        BY <1>2, <3>1, <3>2
    <2>3. ASSUME NEW q \in E, NEW p \in E, x.seq[q].arrival = x.seq[p].arrival
          PROVE  q = p
      <3>1. \A t \in D : x.seq[t].arrival # n
        BY <1>3, <1>4, <1>5, <1>16 DEF IsSeq
      <3>2. x.seq[r].arrival = n
        BY <1>8, <1>16
      <3> QED
        BY <1>2, <1>3, <1>16, <2>3, <3>1, <3>2
    <2>4. Queue(x.running, E) /\ Tracked(x) \subseteq E
      BY <1>2, <1>3, <1>12, <1>13, <1>15, <1>17
    <2> QED
      BY <1>4, <1>15, <1>16, <2>1, <2>2, <2>3, <2>4 DEF Shape
  <1>19. Placed(x, ToSet(x.running))
    <2> SUFFICES ASSUME NEW q \in E
                 PROVE  /\ q \in ToSet(x.waiting) <=> x.seq[q].status = "WAITING"
                        /\ q \in ToSet(x.running) <=> x.seq[q].status = "RUNNING"
                        /\ q \in x.recving /\ q \in x.live
                             <=> x.seq[q].status = "WAITING_FOR_REMOTE_KVS"
                        /\ q \in x.live <=> x.seq[q].status # "FINISHED"
      BY <1>16 DEF Placed
    <2>1. CASE q = r
      <3>1. r \notin st.recving
        BY <1>3, <1>14 DEF Tracked
      <3> QED
        BY <1>8, <1>14, <1>15, <1>16, <2>1, <3>1
    <2>2. CASE q # r
      <3>1. q \in D
        BY <1>2, <2>2
      <3>2. /\ q \in ToSet(st.waiting) <=> st.seq[q].status = "WAITING"
            /\ q \in ToSet(st.running) <=> st.seq[q].status = "RUNNING"
            /\ q \in st.recving /\ q \in st.live <=> st.seq[q].status = "WAITING_FOR_REMOTE_KVS"
            /\ q \in st.live <=> st.seq[q].status # "FINISHED"
        BY <1>1, <1>3, <3>1 DEF Settled, Placed
      <3>3. x.seq[q] = st.seq[q]
        BY <1>16, <3>1
      <3> QED
        BY <1>15, <2>2, <3>2, <3>3
    <2> QED
      BY <2>1, <2>2
  <1>20. Unique(x)
    <2>1. \A q \in Tracked(st) : RequestId[q] # RequestId[r]
      BY DEF IdTaken, Tracked
    <2> QED
      BY <1>17, <2>1 DEF Life, Unique
  <1>21. RowsFit(x, rows)
    <2>1. ASSUME NEW i \in 1..Len(rows) PROVE RowFits(x, rows[i])
      <3>1. RowFits(st, rows[i])
        BY DEF Life, RowsFit
      <3>2. PICK row : row = rows[i]
        OBVIOUS
      <3>3. row.req \in D /\ x.seq[row.req] = st.seq[row.req] /\ row.req \in DOMAIN x.seq
        BY <1>1, <1>2, <1>16, <3>1, <3>2 DEF RowFits
      <3> QED
        BY <3>1, <3>2, <3>3 DEF RowFits, RowIsVoid
    <2> QED
      BY <2>1 DEF Life, RowsFit
  <1>22. Informed(x, cl)
    BY <1>1, <1>2, <1>8, <1>16 DEF Life, Informed
  <1> QED
    BY <1>1, <1>16, <1>18, <1>19, <1>20, <1>21, <1>22 DEF Life, Settled

(* How a request is aborted. *)
Aborts(st, x, r, reason) ==
    /\ Resettles(st, x, r)
    /\ SameTokens(st.seq[r], x.seq[r])
    /\ x.seq[r].num_preemptions = st.seq[r].num_preemptions
    /\ x.seq[r].status = "FINISHED" /\ x.seq[r].finish_reason = reason

(* abort, of a request that is loading: its blocks stay.                   *)
LEMMA LoadingAborted ==
    ASSUME NEW st, Settled(st), NEW r \in st.live, NEW reason,
           st.seq[r].status = "WAITING_FOR_REMOTE_KVS", NEW x, x = Abort(st, r, reason)
    PROVE  Aborts(st, x, r, reason)
  <1>1. PICK s : s = st.seq[r]
    OBVIOUS
  <1>2. /\ DOMAIN st = SchedFields /\ r \in DOMAIN st.seq /\ IsSeq(s) /\ DOMAIN s = SeqFields
        /\ Queue(st.waiting, DOMAIN st.seq) /\ Queue(st.running, DOMAIN st.seq)
    BY <1>1 DEF Settled, Shape, Tracked, IsSeq
  <1>3. r \notin ToSet(st.waiting) /\ r \notin ToSet(st.running)
    BY <1>1, <1>2 DEF Settled, Placed
  <1>4. PICK y : y = [st EXCEPT !.live = @ \ {r}]
    OBVIOUS
  <1>5. x = Finish(y, r, reason)
    BY <1>4 DEF Abort
  <1>6. /\ DOMAIN y = SchedFields /\ y.seq = st.seq /\ y.live = st.live \ {r}
        /\ y.waiting = st.waiting /\ y.running = st.running /\ y.recving = st.recving
        /\ y.sending = st.sending
    BY <1>2, <1>4 DEF SchedFields
  <1>7. PICK t : t = x.seq[r]
    OBVIOUS
  <1>8. /\ DOMAIN x = SchedFields /\ DOMAIN x.seq = DOMAIN st.seq
        /\ \A q \in DOMAIN st.seq : q # r => x.seq[q] = st.seq[q]
        /\ x.waiting = st.waiting /\ x.running = st.running /\ x.live = st.live \ {r}
        /\ x.recving = st.recving /\ x.sending = st.sending
    BY <1>2, <1>5, <1>6 DEF Finish, SchedFields
  <1>9. t = [[s EXCEPT !.status = "FINISHED"] EXCEPT !.finish_reason = reason]
    <2>1. r \in DOMAIN y.seq /\ y.seq[r] = s /\ DOMAIN s = SeqFields
      BY <1>1, <1>2, <1>6
    <2>2. DOMAIN y = SchedFields
      BY <1>6
    <2> QED
      BY <1>5, <1>7, <2>1, <2>2 DEF Finish, SchedFields, SeqFields
  <1>10. /\ DOMAIN t = SeqFields /\ t.status = "FINISHED" /\ t.finish_reason = reason
         /\ t.token_ids = s.token_ids /\ t.num_prompt_tokens = s.num_prompt_tokens
         /\ t.num_new_tokens = s.num_new_tokens /\ t.num_preemptions = s.num_preemptions
         /\ t.arrival = s.arrival
    BY <1>2, <1>9 DEF SeqFields
  <1>11. IsSeq(t)
    BY <1>2, <1>10 DEF IsSeq, Status
  <1>12. SameTokens(s, t)
    BY <1>10, <1>11 DEF SameTokens
  <1>13. Tracked(x) \subseteq Tracked(st)
    BY <1>8 DEF Tracked
  <1>14. Resettles(st, x, r)
    BY <1>1, <1>2, <1>3, <1>7, <1>8, <1>10, <1>11, <1>13 DEF Resettles
  <1> QED
    BY <1>1, <1>7, <1>10, <1>12, <1>14 DEF Aborts

(* abort, of a request that waits or runs: it leaves its queue and its     *)
(* blocks.                                                                 *)
LEMMA QueuedAborted ==
    ASSUME NEW st, Settled(st), NEW r \in st.live, NEW reason,
           st.seq[r].status # "WAITING_FOR_REMOTE_KVS", NEW x, x = Abort(st, r, reason)
    PROVE  Aborts(st, x, r, reason)
  <1>1. PICK s : s = st.seq[r]
    OBVIOUS
  <1>2. /\ DOMAIN st = SchedFields /\ r \in DOMAIN st.seq /\ IsSeq(s) /\ DOMAIN s = SeqFields
        /\ Queue(st.waiting, DOMAIN st.seq) /\ Queue(st.running, DOMAIN st.seq)
    BY <1>1 DEF Settled, Shape, Tracked, IsSeq
  <1>3. /\ r \in ToSet(st.waiting) <=> s.status = "WAITING"
        /\ r \in ToSet(st.running) <=> s.status = "RUNNING"
        /\ r \notin st.recving
    BY <1>1, <1>2 DEF Settled, Placed
  <1>4. PICK g : g = [st EXCEPT !.live = @ \ {r}]
    OBVIOUS
  <1>5. /\ DOMAIN g = SchedFields /\ g.seq = st.seq /\ g.live = st.live \ {r}
        /\ g.waiting = st.waiting /\ g.running = st.running /\ g.recving = st.recving
        /\ g.sending = st.sending
    BY <1>2, <1>4 DEF SchedFields
  <1>6. PICK w : w = Without(st.waiting, r)
    OBVIOUS
  <1>7. PICK v : v = Without(st.running, r)
    OBVIOUS
  <1>8. /\ Queue(w, DOMAIN st.seq) /\ ToSet(w) = ToSet(st.waiting) \ {r}
        /\ Queue(v, DOMAIN st.seq) /\ ToSet(v) = ToSet(st.running) \ {r}
    BY <1>2, <1>6, <1>7, QueueWithout
  <1>9. PICK dq : dq = IF s.status = "WAITING" THEN [g EXCEPT !.waiting = w]
                       ELSE [g EXCEPT !.running = v]
    OBVIOUS
  <1>10. /\ DOMAIN dq = SchedFields /\ dq.seq = st.seq /\ dq.live = st.live \ {r}
         /\ dq.recving = st.recving /\ dq.sending = st.sending
         /\ Queue(dq.waiting, DOMAIN st.seq) /\ ToSet(dq.waiting) = ToSet(st.waiting) \ {r}
         /\ Queue(dq.running, DOMAIN st.seq) /\ ToSet(dq.running) = ToSet(st.running) \ {r}
    <2>1. CASE s.status = "WAITING"
      <3>1. dq = [g EXCEPT !.waiting = w]
        BY <1>9, <2>1
      <3>2. /\ DOMAIN dq = SchedFields /\ dq.seq = st.seq /\ dq.live = st.live \ {r}
            /\ dq.recving = st.recving /\ dq.sending = st.sending
            /\ dq.waiting = w /\ dq.running = st.running
        BY <1>5, <3>1 DEF SchedFields
      <3>3. r \notin ToSet(st.running)
        BY <1>3, <2>1
      <3> QED
        BY <1>2, <1>8, <3>2, <3>3
    <2>2. CASE s.status # "WAITING"
      <3>1. dq = [g EXCEPT !.running = v]
        BY <1>9, <2>2
      <3>2. /\ DOMAIN dq = SchedFields /\ dq.seq = st.seq /\ dq.live = st.live \ {r}
            /\ dq.recving = st.recving /\ dq.sending = st.sending
            /\ dq.waiting = st.waiting /\ dq.running = v
        BY <1>5, <3>1 DEF SchedFields
      <3>3. r \notin ToSet(st.waiting)
        BY <1>3, <2>2
      <3> QED
        BY <1>2, <1>8, <3>2, <3>3
    <2> QED
      BY <2>1, <2>2
  <1>11. PICK d : d = DropPending(s)
    OBVIOUS
  <1>12. PICK y1 : y1 = [dq EXCEPT !.seq[r] = d]
    OBVIOUS
  <1>13. PICK y : y = Finish(y1, r, reason)
    OBVIOUS
  <1>14. x = Free(y, r)
    <2>1. y1 = [dq EXCEPT !.seq[r] = DropPending(@)]
      BY <1>1, <1>2, <1>10, <1>11, <1>12 DEF SchedFields
    <2>2. dq = IF st.seq[r].status = "WAITING" THEN [g EXCEPT !.waiting = Without(@, r)]
               ELSE [g EXCEPT !.running = Without(@, r)]
      BY <1>1, <1>5, <1>6, <1>7, <1>9 DEF SchedFields
    <2> QED
      BY <1>4, <1>13, <2>1, <2>2 DEF Abort
  <1>15. SameLife(s, d) /\ DOMAIN d = SeqFields
    BY <1>2, <1>11 DEF DropPending, SameLife, SameTokens, IsSeq, SeqFields
  <1>16. /\ DOMAIN y1 = SchedFields /\ DOMAIN y1.seq = DOMAIN st.seq /\ y1.seq[r] = d
         /\ \A q \in DOMAIN st.seq : q # r => y1.seq[q] = st.seq[q]
         /\ y1.waiting = dq.waiting /\ y1.running = dq.running /\ y1.live = dq.live
         /\ y1.recving = dq.recving /\ y1.sending = dq.sending
    BY <1>2, <1>10, <1>12 DEF SchedFields
  <1>17. PICK e : e = y.seq[r]
    OBVIOUS
  <1>18. /\ DOMAIN y = SchedFields /\ DOMAIN y.seq = DOMAIN st.seq
         /\ \A q \in DOMAIN st.seq : q # r => y.seq[q] = st.seq[q]
         /\ y.waiting = dq.waiting /\ y.running = dq.running /\ y.live = dq.live
         /\ y.recving = dq.recving /\ y.sending = dq.sending
    BY <1>2, <1>13, <1>16 DEF Finish, SchedFields
  <1>19. e = [[d EXCEPT !.status = "FINISHED"] EXCEPT !.finish_reason = reason]
    BY <1>2, <1>13, <1>15, <1>16, <1>17 DEF Finish, SchedFields, SeqFields
  <1>20. /\ DOMAIN e = SeqFields /\ e.status = "FINISHED" /\ e.finish_reason = reason
         /\ e.token_ids = d.token_ids /\ e.num_prompt_tokens = d.num_prompt_tokens
         /\ e.num_new_tokens = d.num_new_tokens /\ e.num_preemptions = d.num_preemptions
         /\ e.arrival = d.arrival
    BY <1>15, <1>19 DEF SeqFields
  <1>21. IsSeq(e)
    BY <1>15, <1>20 DEF SameLife, SameTokens, IsSeq, Status
  <1>22. Frees(y, x, r)
    BY <1>2, <1>14, <1>17, <1>18, <1>21, FreeMoves
  <1>23. PICK t : t = x.seq[r]
    OBVIOUS
  <1>24. SameLife(e, t)
    BY <1>17, <1>22, <1>23 DEF Frees
  <1>25. /\ IsSeq(t) /\ t.status = "FINISHED" /\ t.finish_reason = reason
         /\ SameTokens(s, t) /\ t.num_preemptions = s.num_preemptions /\ t.arrival = s.arrival
    BY <1>15, <1>20, <1>24 DEF SameLife, SameTokens
  <1>26. /\ DOMAIN x = SchedFields /\ DOMAIN x.seq = DOMAIN st.seq
         /\ \A q \in DOMAIN st.seq : q # r => x.seq[q] = st.seq[q]
         /\ x.waiting = dq.waiting /\ x.running = dq.running /\ x.live = st.live \ {r}
         /\ x.recving = st.recving /\ x.sending \subseteq st.sending \cup {r}
    BY <1>10, <1>18, <1>22 DEF Frees
  <1>27. Tracked(x) \subseteq Tracked(st)
    BY <1>26 DEF Tracked
  <1>28. Resettles(st, x, r)
    BY <1>1, <1>3, <1>10, <1>23, <1>25, <1>26, <1>27 DEF Resettles
  <1> QED
    BY <1>1, <1>23, <1>25, <1>28 DEF Aborts

(* The clients once r has been aborted. *)
Silenced(cl, r) == [cl EXCEPT ![r].aborted = TRUE]

(* abort_request: the request ends where it was, and its client gets       *)
(* nothing more.                                                           *)
LEMMA AbortLife ==
    ASSUME NEW st, NEW rows, NEW cl, Life(st, rows, cl), NEW r \in st.live,
           NEW reason \in {"abort", "stop"}, NEW x, x = Abort(st, r, reason),
           NEW dl, dl = Silenced(cl, r)
    PROVE  /\ Life(x, rows, dl)
           /\ \A q \in DOMAIN st.seq : IsSeq(x.seq[q]) /\ x.seq[q].token_ids = st.seq[q].token_ids
  <1>1. Settled(st) /\ r \in DOMAIN st.seq /\ r \in Reqs
    BY DEF Life, Settled, Shape, Tracked
  <1>2. Aborts(st, x, r, reason)
    BY <1>1, LoadingAborted, QueuedAborted
  <1>3. Resettles(st, x, r)
    BY <1>2 DEF Aborts
  <1>4. Settled(x)
    BY <1>1, <1>3, SettledMove
  <1>5. PICK s : s = st.seq[r]
    OBVIOUS
  <1>6. PICK t : t = x.seq[r]
    OBVIOUS
  <1>7. /\ IsSeq(t) /\ t.token_ids = s.token_ids /\ t.num_prompt_tokens = s.num_prompt_tokens
        /\ t.num_preemptions = s.num_preemptions /\ IsFinished(t) /\ t.finish_reason = reason
    BY <1>2, <1>5, <1>6 DEF Aborts, SameTokens, IsFinished
  <1>8. /\ DOMAIN x.seq = DOMAIN st.seq /\ Tracked(x) \subseteq Tracked(st)
        /\ \A q \in DOMAIN st.seq : q # r => x.seq[q] = st.seq[q]
    BY <1>3 DEF Resettles
  <1>9. Unique(x)
    BY <1>8 DEF Life, Unique
  <1>10. RowsFit(x, rows)
    <2>1. ASSUME NEW i \in 1..Len(rows) PROVE RowFits(x, rows[i])
      <3>1. PICK row : row = rows[i]
        OBVIOUS
      <3>2. RowFits(st, row)
        BY <3>1 DEF Life, RowsFit
      <3>3. CASE row.req = r
        <4>1. RowIsVoid(x, row)
          BY <1>6, <1>7, <3>3 DEF RowIsVoid
        <4> QED
          BY <1>5, <1>6, <1>7, <1>8, <3>1, <3>2, <3>3, <4>1 DEF RowFits
      <3>4. CASE row.req # r
        <4>1. row.req \in DOMAIN x.seq /\ x.seq[row.req] = st.seq[row.req]
          BY <1>8, <3>2, <3>4 DEF RowFits
        <4> QED
          BY <3>1, <3>2, <4>1 DEF RowFits, RowIsVoid
      <3> QED
        BY <3>3, <3>4
    <2> QED
      BY <2>1 DEF Life, RowsFit
  <1>11. PICK yes : yes = TRUE
    OBVIOUS
  <1>12. PICK c : c = cl[r]
    OBVIOUS
  <1>13. PICK d : d = [c EXCEPT !.aborted = yes]
    OBVIOUS
  <1>14. DOMAIN cl = Reqs /\ DOMAIN c = ClientFields /\ Told(r, s, c) /\ ~IsFinished(s)
    <2>1. ~IsFinished(s)
      BY <1>1, <1>5 DEF Settled, Placed, IsFinished
    <2> QED
      BY <1>1, <1>5, <1>12, <2>1 DEF Life, Informed
  <1>15. dl = [cl EXCEPT ![r] = d]
    BY <1>1, <1>11, <1>12, <1>13, <1>14 DEF ClientFields, Silenced
  <1>16. DOMAIN dl = Reqs /\ dl[r] = d /\ \A q \in Reqs : q # r => dl[q] = cl[q]
    BY <1>1, <1>14, <1>15
  <1>17. /\ DOMAIN d = ClientFields /\ d.tokens = c.tokens /\ d.finals = c.finals
         /\ d.aborted = yes
    BY <1>13, <1>14 DEF ClientFields
  <1>18. Told(r, t, d)
    <2>1. d.aborted
      BY <1>11, <1>17
    <2>2. d.finals = 0
      BY <1>14, <1>17 DEF Told
    <2>3. t.finish_reason # "length"
      BY <1>7
    <2>4. /\ t.token_ids = Prompt[r] \o d.tokens /\ t.num_prompt_tokens = Len(Prompt[r])
          /\ d.tokens \in Seq(Vocab) /\ Len(d.tokens) <= MaxTokens[r]
      BY <1>7, <1>14, <1>17 DEF Told
    <2> QED
      BY <1>7, <2>1, <2>2, <2>3, <2>4 DEF Told
  <1>19. Informed(x, dl)
    <2> SUFFICES ASSUME NEW q \in Reqs
                 PROVE  /\ DOMAIN dl[q] = ClientFields
                        /\ IF q \in DOMAIN x.seq THEN Told(q, x.seq[q], dl[q]) ELSE Untold(dl[q])
      BY DEF Informed
    <2>1. CASE q = r
      BY <1>1, <1>6, <1>8, <1>16, <1>17, <1>18, <2>1
    <2>2. CASE q # r
      <3>1. dl[q] = cl[q] /\ DOMAIN cl[q] = ClientFields
        BY <1>16, <2>2 DEF Life, Informed
      <3>2. q \in DOMAIN st.seq => x.seq[q] = st.seq[q]
        BY <1>8, <2>2
      <3>3. IF q \in DOMAIN st.seq THEN Told(q, st.seq[q], cl[q]) ELSE Untold(cl[q])
        BY DEF Life, Informed
      <3> QED
        BY <1>8, <3>1, <3>2, <3>3
    <2> QED
      BY <2>1, <2>2
  <1>20. \A q \in DOMAIN st.seq : IsSeq(x.seq[q]) /\ x.seq[q].token_ids = st.seq[q].token_ids
    <2>1. \A q \in DOMAIN st.seq : IsSeq(st.seq[q])
      BY <1>1 DEF Settled, Shape
    <2> QED
      BY <1>5, <1>6, <1>7, <1>8, <2>1
  <1> QED
    BY <1>4, <1>9, <1>10, <1>16, <1>19, <1>20 DEF Life

-----------------------------------------------------------------------------
(* The steps. *)

(* What a step hands to the client of r.                                   *)
LEMMA Delivered ==
    ASSUME NEW cl, cl = clients, NEW st, NEW stepped, NEW dropped, NEW dl,
           dl = Deliver(st, stepped, dropped)
    PROVE  /\ DOMAIN dl = Reqs
           /\ \A r \in Reqs :
                dl[r] = IF r \in ToSet(stepped) THEN OutputTo(cl[r], st.seq[r])
                        ELSE IF r \in ToSet(dropped) THEN [cl[r] EXCEPT !.finals = @ + 1]
                        ELSE cl[r]
  BY DEF Deliver, OutputTo

(* t has the tokens of s and perhaps more; none more, if s had finished or *)
(* the step in flight was voided.                                          *)
Longer(s, t) ==
    /\ IsPrefix(s.token_ids, t.token_ids)
    /\ (\/ IsFinished(s)
        \/ AsyncScheduling /\ s.num_preemptions # t.num_preemptions)
          => t.token_ids = s.token_ids

(* What has no new tokens.                                                 *)
LEMMA SameIsLonger ==
    ASSUME NEW s, NEW t, t.token_ids = s.token_ids
    PROVE  Longer(s, t)
  BY DEF Longer, IsPrefix

(* Every live sequence is short of its limit, because its client is.       *)
LEMMA InformedShort ==
    ASSUME NEW st, NEW cl, Informed(st, cl), DOMAIN st.seq \subseteq Reqs
    PROVE  ShortOfLimit(st)
  <1> SUFFICES ASSUME NEW r \in DOMAIN st.seq, ~IsFinished(st.seq[r])
               PROVE  NumCompletionTokens(st.seq[r]) < MaxTokens[r]
    BY DEF ShortOfLimit
  <1>1. PICK s : s = st.seq[r]
    OBVIOUS
  <1>2. PICK c : c = cl[r]
    OBVIOUS
  <1>3. r \in Reqs /\ Told(r, s, c)
    BY <1>1, <1>2 DEF Informed
  <1>4. NumCompletionTokens(s) = Len(c.tokens)
    BY <1>3, ToldTokens
  <1>5. Len(c.tokens) < MaxTokens[r]
    BY <1>1, <1>3 DEF Told
  <1> QED
    BY <1>1, <1>4, <1>5

(* And still after a launch, which commits nothing.                        *)
LEMMA ShortOn ==
    ASSUME NEW st, NEW x, NEW D, ShortOfLimit(st), Evolves(st, x, D)
    PROVE  ShortOfLimit(x)
  <1> SUFFICES ASSUME NEW r \in DOMAIN st.seq, ~IsFinished(x.seq[r])
               PROVE  NumCompletionTokens(x.seq[r]) < MaxTokens[r]
    BY DEF ShortOfLimit, Evolves
  <1>1. LifeStep(st.seq[r], x.seq[r])
    BY DEF Evolves
  <1>2. ~IsFinished(st.seq[r]) /\ NumCompletionTokens(x.seq[r]) = NumCompletionTokens(st.seq[r])
    BY <1>1 DEF LifeStep, SameTokens, NumCompletionTokens, NumTokens
  <1> QED
    BY <1>2 DEF ShortOfLimit

(* Those a step reconciles were running, and had not been preempted since  *)
(* their row was launched.                                                 *)
LEMMA SteppedRan ==
    ASSUME NEW st, NEW rows, RowsFit(st, rows), NEW x, NEW stepped,
           Reconciled(st, rows, x, stepped, Len(rows)), NEW r \in DOMAIN st.seq,
           r \in ToSet(stepped)
    PROVE  /\ Commits(r, st.seq[r], x.seq[r]) /\ ~IsFinished(st.seq[r])
           /\ \E j \in 1..Len(rows) : /\ rows[j].req = r
                                      /\ rows[j].num_preemptions = st.seq[r].num_preemptions
  BY DEF Reconciled, RowIsVoid

(* The rows just launched fit what reconciling the ones before leaves.     *)
LEMMA NewRowsFit ==
    ASSUME NEW st, NEW new, RowsFit(st, new), NEW rows, RowsFit(st, rows), NEW x, NEW stepped,
           Reconciled(st, rows, x, stepped, Len(rows))
    PROVE  RowsFit(x, new)
  <1>1. ASSUME NEW i \in 1..Len(new) PROVE RowFits(x, new[i])
    <2>1. PICK row : row = new[i]
      OBVIOUS
    <2>2. PICK r : r = row.req
      OBVIOUS
    <2>3. RowFits(st, row) /\ r \in DOMAIN st.seq
      BY <2>1, <2>2 DEF RowsFit, RowFits
    <2>4. r \in DOMAIN x.seq
      BY <2>3 DEF Reconciled
    <2>5. CASE r \in ToSet(stepped)
      <3>1. Commits(r, st.seq[r], x.seq[r])
        BY <2>3, <2>5, SteppedRan
      <3>2. /\ x.seq[r].num_preemptions = st.seq[r].num_preemptions
            /\ x.seq[r].status = "RUNNING" \/ IsFinished(x.seq[r])
        BY <3>1 DEF Commits, IsFinished
      <3> QED
        BY <2>1, <2>2, <2>3, <2>4, <3>2 DEF RowFits, RowIsVoid
    <2>6. CASE r \notin ToSet(stepped)
      <3>1. x.seq[r] = st.seq[r]
        BY <2>3, <2>6 DEF Reconciled
      <3> QED
        BY <2>1, <2>2, <2>3, <2>4, <3>1 DEF RowFits, RowIsVoid
    <2> QED
      BY <2>5, <2>6
  <1> QED
    BY <1>1 DEF RowsFit

(* step() with async_scheduling.                                           *)
LEMMA AsyncLife ==
    ASSUME NEW st, NEW rows, NEW cl, cl = clients, Life(st, rows, cl), NEW l \in Launches(st, rows),
           NEW rec, rec = Reconcile(l.st, rows), NEW dl,
           dl = Deliver(rec.st, rec.stepped, l.dropped)
    PROVE  /\ Life(rec.st, l.flight.rows, dl)
           /\ \A r \in DOMAIN st.seq : Longer(st.seq[r], rec.st.seq[r])
  <1>1. Settled(st) /\ Shape(st) /\ DOMAIN st.seq \subseteq Reqs /\ RowsFit(st, rows)
    BY DEF Life, Settled, Shape
  <1>2. PICK y : y = l.st
    OBVIOUS
  <1>3. PICK D : D = ToSet(l.dropped)
    OBVIOUS
  <1>4. PICK new : new = l.flight.rows
    OBVIOUS
  <1>5. Settled(y) /\ Evolves(st, y, D) /\ D \subseteq DOMAIN st.seq /\ RowsFit(y, new)
    BY <1>1, <1>2, <1>3, <1>4, LaunchSettles DEF Launched
  <1>6. RowsFit(y, rows)
    BY <1>1, <1>5, RowsFitOn
  <1>7. ShortOfLimit(st)
    BY <1>1, InformedShort DEF Life
  <1>8. ShortOfLimit(y)
    BY <1>5, <1>7, ShortOn
  <1>9. PICK x : x = rec.st
    OBVIOUS
  <1>10. PICK stepped : stepped = rec.stepped
    OBVIOUS
  <1>12. Reconciled(y, rows, x, stepped, Len(rows))
    BY <1>2, <1>5, <1>6, <1>8, <1>9, <1>10, StepReconciled
  <1>13. Settled(x) /\ RowsFit(x, new)
    BY <1>5, <1>6, <1>12, NewRowsFit DEF Reconciled
  <1>14. /\ DOMAIN y.seq = DOMAIN st.seq /\ DOMAIN x.seq = DOMAIN st.seq
         /\ Tracked(x) \subseteq Tracked(st)
    BY <1>5, <1>12 DEF Evolves, Reconciled
  <1>15. Unique(x)
    BY <1>14 DEF Life, Unique
  <1>16. PICK dropped : dropped = l.dropped
    OBVIOUS
  <1>17. /\ DOMAIN dl = Reqs
         /\ \A r \in Reqs :
              dl[r] = IF r \in ToSet(stepped) THEN OutputTo(cl[r], x.seq[r])
                      ELSE IF r \in ToSet(dropped) THEN [cl[r] EXCEPT !.finals = @ + 1]
                      ELSE cl[r]
    BY <1>9, <1>10, <1>16, Delivered
  <1>18. ASSUME NEW r \in DOMAIN st.seq
         PROVE  /\ DOMAIN dl[r] = ClientFields /\ Told(r, x.seq[r], dl[r])
                /\ Longer(st.seq[r], x.seq[r])
    <2>1. PICK s : s = st.seq[r]
      OBVIOUS
    <2>2. PICK t : t = y.seq[r]
      OBVIOUS
    <2>3. PICK u : u = x.seq[r]
      OBVIOUS
    <2>4. PICK c : c = cl[r]
      OBVIOUS
    <2>5. PICK d : d = dl[r]
      OBVIOUS
    <2>6. /\ r \in Reqs /\ IsSeq(s) /\ IsSeq(t) /\ IsSeq(u) /\ LifeStep(s, t)
          /\ r \in D <=> IsFinished(t) /\ ~IsFinished(s)
      BY <1>1, <1>5, <1>13, <1>14, <2>1, <2>2, <2>3 DEF Evolves, Settled, Shape
    <2>7. DOMAIN c = ClientFields /\ Told(r, s, c)
      BY <2>1, <2>4, <2>6 DEF Life, Informed
    <2>8. CASE r \in ToSet(stepped)
      <3>1. /\ Commits(r, t, u) /\ ~IsFinished(t)
            /\ \E j \in 1..Len(rows) : rows[j].req = r /\ rows[j].num_preemptions = t.num_preemptions
        BY <1>6, <1>12, <1>14, <2>2, <2>3, <2>8, SteppedRan
      <3>2. Told(r, t, c)
        BY <2>6, <2>7, <3>1, ToldOn
      <3>3. LifeStep(u, u)
        BY <2>6 DEF LifeStep, SameTokens, IsSeq
      <3>4. d = OutputTo(c, u)
        BY <1>17, <2>3, <2>4, <2>5, <2>6, <2>8
      <3>5. Told(r, u, d) /\ DOMAIN d = ClientFields
        BY <2>6, <2>7, <3>1, <3>2, <3>3, <3>4, ToldStepped
      <3>6. u.num_preemptions = s.num_preemptions
        <4>1. PICK j \in 1..Len(rows) : rows[j].req = r /\ rows[j].num_preemptions = t.num_preemptions
          BY <3>1
        <4>2. /\ rows[j].num_preemptions <= s.num_preemptions
          BY <1>1, <2>1, <4>1 DEF RowsFit, RowFits
        <4>3. /\ s.num_preemptions \in Nat /\ t.num_preemptions \in Nat
              /\ s.num_preemptions <= t.num_preemptions
          BY <2>6 DEF IsSeq, LifeStep
        <4>4. s.num_preemptions = t.num_preemptions
          BY <4>1, <4>2, <4>3
        <4> QED
          BY <3>1, <4>4 DEF Commits
      <3>7. ~IsFinished(s) /\ t.token_ids = s.token_ids
        BY <2>6, <3>1 DEF LifeStep, SameTokens
      <3>8. IsPrefix(s.token_ids, u.token_ids)
        <4>1. PICK n \in Nat : n = u.num_new_tokens
          BY <2>6 DEF IsSeq
        <4>2. PICK a \in Seq(Vocab) : a = s.token_ids
          BY <2>6 DEF IsSeq
        <4>3. PICK b \in Seq(Vocab) : b = u.token_ids
          BY <2>6 DEF IsSeq
        <4>4. Grown(a, b, n)
          BY <3>1, <3>7, <4>1, <4>2, <4>3 DEF Commits
        <4>5. IsPrefix(a, b)
          BY <4>4, GrownIsPrefix
        <4> QED
          BY <4>2, <4>3, <4>5
      <3>9. Longer(s, u)
        BY <3>6, <3>7, <3>8 DEF Longer
      <3> QED
        BY <2>1, <2>3, <2>5, <3>5, <3>9
    <2>9. CASE r \notin ToSet(stepped)
      <3>1. u = t
        BY <1>12, <1>14, <2>2, <2>3, <2>9 DEF Reconciled
      <3>2. Longer(s, u)
        BY <2>6, <3>1, SameIsLonger DEF LifeStep, SameTokens
      <3>3. ASSUME r \in D PROVE Told(r, u, d) /\ DOMAIN d = ClientFields
        <4>1. d = [c EXCEPT !.finals = @ + 1]
          BY <1>3, <1>16, <1>17, <2>4, <2>5, <2>6, <2>9, <3>3
        <4> QED
          BY <2>6, <2>7, <3>1, <3>3, <4>1, ToldDropped
      <3>4. ASSUME r \notin D PROVE Told(r, u, d) /\ DOMAIN d = ClientFields
        <4>1. d = c
          BY <1>3, <1>16, <1>17, <2>4, <2>5, <2>6, <2>9, <3>4
        <4> QED
          BY <2>6, <2>7, <3>1, <3>4, <4>1, ToldOn
      <3> QED
        BY <2>1, <2>3, <2>5, <3>2, <3>3, <3>4
    <2> QED
      BY <2>8, <2>9
  <1>19. ASSUME NEW r \in Reqs, r \notin DOMAIN st.seq
         PROVE  DOMAIN dl[r] = ClientFields /\ Untold(dl[r])
    <2>1. r \notin ToSet(stepped)
      BY <1>12, <1>14, <1>19 DEF Reconciled, List, ToSet
    <2>2. r \notin D
      BY <1>5, <1>19
    <2>3. dl[r] = cl[r]
      BY <1>3, <1>16, <1>17, <2>1, <2>2
    <2> QED
      BY <1>19, <2>3 DEF Life, Informed
  <1>20. Informed(x, dl)
    BY <1>14, <1>18, <1>19 DEF Informed
  <1>21. Life(x, new, dl)
    BY <1>13, <1>15, <1>17, <1>20 DEF Life
  <1> QED
    BY <1>4, <1>9, <1>18, <1>21

(* step() without it.                                                      *)
LEMMA SyncLife ==
    ASSUME NEW st, NEW rows, NEW cl, cl = clients, Life(st, rows, cl), ~AsyncScheduling,
           NEW rec, rec = Reconcile(st, rows), NEW l \in Launches(rec.st, << >>), NEW dl,
           dl = Deliver(l.st, rec.stepped, l.dropped)
    PROVE  /\ Life(l.st, l.flight.rows, dl)
           /\ \A r \in DOMAIN st.seq : Longer(st.seq[r], l.st.seq[r])
  <1>1. Settled(st) /\ DOMAIN st.seq \subseteq Reqs /\ RowsFit(st, rows)
    BY DEF Life, Settled, Shape
  <1>2. PICK y : y = rec.st
    OBVIOUS
  <1>3. PICK stepped : stepped = rec.stepped
    OBVIOUS
  <1>4. ShortOfLimit(st)
    BY <1>1, InformedShort DEF Life
  <1>5. Reconciled(st, rows, y, stepped, Len(rows))
    BY <1>1, <1>2, <1>3, <1>4, StepReconciled
  <1>6. Settled(y) /\ DOMAIN y.seq = DOMAIN st.seq /\ Tracked(y) \subseteq Tracked(st)
    BY <1>5 DEF Reconciled
  <1>7. PICK x : x = l.st
    OBVIOUS
  <1>8. PICK D : D = ToSet(l.dropped)
    OBVIOUS
  <1>9. PICK new : new = l.flight.rows
    OBVIOUS
  <1>10. Settled(x) /\ Evolves(y, x, D) /\ D \subseteq DOMAIN y.seq /\ RowsFit(x, new)
    <2>1. PICK e : e = << >>
      OBVIOUS
    <2>2. l \in Launches(y, e)
      BY <1>2, <2>1
    <2>3. Launched(y, l)
      BY <1>6, <2>2, LaunchSettles
    <2> QED
      BY <1>7, <1>8, <1>9, <2>3 DEF Launched
  <1>11. DOMAIN x.seq = DOMAIN st.seq /\ Tracked(x) \subseteq Tracked(st)
    BY <1>6, <1>10 DEF Evolves
  <1>12. Unique(x)
    BY <1>11 DEF Life, Unique
  <1>13. PICK dropped : dropped = l.dropped
    OBVIOUS
  <1>14. /\ DOMAIN dl = Reqs
         /\ \A r \in Reqs :
              dl[r] = IF r \in ToSet(stepped) THEN OutputTo(cl[r], x.seq[r])
                      ELSE IF r \in ToSet(dropped) THEN [cl[r] EXCEPT !.finals = @ + 1]
                      ELSE cl[r]
    BY <1>3, <1>7, <1>13, Delivered
  <1>15. ASSUME NEW r \in DOMAIN st.seq
         PROVE  /\ DOMAIN dl[r] = ClientFields /\ Told(r, x.seq[r], dl[r])
                /\ Longer(st.seq[r], x.seq[r])
    <2>1. PICK s : s = st.seq[r]
      OBVIOUS
    <2>2. PICK t : t = y.seq[r]
      OBVIOUS
    <2>3. PICK u : u = x.seq[r]
      OBVIOUS
    <2>4. PICK c : c = cl[r]
      OBVIOUS
    <2>5. PICK d : d = dl[r]
      OBVIOUS
    <2>6. /\ r \in Reqs /\ IsSeq(s) /\ IsSeq(t) /\ IsSeq(u) /\ LifeStep(t, u)
          /\ r \in D <=> IsFinished(u) /\ ~IsFinished(t)
      BY <1>1, <1>6, <1>10, <1>11, <2>1, <2>2, <2>3 DEF Evolves, Settled, Shape
    <2>7. DOMAIN c = ClientFields /\ Told(r, s, c) /\ u.token_ids = t.token_ids
      BY <2>1, <2>4, <2>6 DEF Life, Informed, LifeStep, SameTokens
    <2>8. CASE r \in ToSet(stepped)
      <3>1. Commits(r, s, t) /\ ~IsFinished(s)
        BY <1>1, <1>5, <2>1, <2>2, <2>8, SteppedRan
      <3>2. d = OutputTo(c, u)
        BY <1>14, <2>3, <2>4, <2>5, <2>6, <2>8
      <3>3. Told(r, u, d) /\ DOMAIN d = ClientFields
        BY <2>6, <2>7, <3>1, <3>2, ToldStepped
      <3>4. IsPrefix(s.token_ids, u.token_ids)
        <4>1. PICK n \in Nat : n = t.num_new_tokens
          BY <2>6 DEF IsSeq
        <4>2. PICK a \in Seq(Vocab) : a = s.token_ids
          BY <2>6 DEF IsSeq
        <4>3. PICK b \in Seq(Vocab) : b = u.token_ids
          BY <2>6 DEF IsSeq
        <4>4. Grown(a, b, n)
          BY <2>7, <3>1, <4>1, <4>2, <4>3 DEF Commits
        <4>5. IsPrefix(a, b)
          BY <4>4, GrownIsPrefix
        <4> QED
          BY <4>2, <4>3, <4>5
      <3>5. Longer(s, u)
        BY <3>1, <3>4 DEF Longer
      <3> QED
        BY <2>1, <2>3, <2>5, <3>3, <3>5
    <2>9. CASE r \notin ToSet(stepped)
      <3>1. t = s
        BY <1>5, <2>1, <2>2, <2>9 DEF Reconciled
      <3>2. Longer(s, u)
        BY <2>7, <3>1, SameIsLonger
      <3>3. ASSUME r \in D PROVE Told(r, u, d) /\ DOMAIN d = ClientFields
        <4>1. d = [c EXCEPT !.finals = @ + 1]
          BY <1>8, <1>13, <1>14, <2>4, <2>5, <2>6, <2>9, <3>3
        <4> QED
          BY <2>6, <2>7, <3>1, <3>3, <4>1, ToldDropped
      <3>4. ASSUME r \notin D PROVE Told(r, u, d) /\ DOMAIN d = ClientFields
        <4>1. d = c
          BY <1>8, <1>13, <1>14, <2>4, <2>5, <2>6, <2>9, <3>4
        <4> QED
          BY <2>6, <2>7, <3>1, <3>4, <4>1, ToldOn
      <3> QED
        BY <2>1, <2>3, <2>5, <3>2, <3>3, <3>4
    <2> QED
      BY <2>8, <2>9
  <1>16. ASSUME NEW r \in Reqs, r \notin DOMAIN st.seq
         PROVE  DOMAIN dl[r] = ClientFields /\ Untold(dl[r])
    <2>1. r \notin ToSet(stepped)
      BY <1>5, <1>16 DEF Reconciled, List, ToSet
    <2>2. r \notin D
      BY <1>6, <1>10, <1>16
    <2>3. dl[r] = cl[r]
      BY <1>8, <1>13, <1>14, <2>1, <2>2
    <2> QED
      BY <1>16, <2>3 DEF Life, Informed
  <1>17. Informed(x, dl)
    BY <1>11, <1>15, <1>16 DEF Informed
  <1>18. Life(x, new, dl)
    BY <1>10, <1>12, <1>14, <1>17 DEF Life
  <1> QED
    BY <1>7, <1>9, <1>15, <1>18

-----------------------------------------------------------------------------
(* Whatever the engine does, it keeps the invariant, and nobody loses a    *)
(* token.                                                                  *)
LEMMA NextLife ==
    ASSUME LifeInv, Next
    PROVE  LifeInv' /\ \A r \in Arrived : Longer(sched.seq[r], sched'.seq[r])
  <1>1. PICK st : st = sched
    OBVIOUS
  <1>2. PICK rows : rows = in_flight.rows
    OBVIOUS
  <1>3. PICK cl : cl = clients
    OBVIOUS
  <1>4. PICK x : x = sched'
    OBVIOUS
  <1>5. PICK new : new = in_flight'.rows
    OBVIOUS
  <1>6. PICK dl : dl = clients'
    OBVIOUS
  <1>7. Life(st, rows, cl)
    BY <1>1, <1>2, <1>3 DEF LifeInv
  <1> SUFFICES Life(x, new, dl) /\ \A r \in DOMAIN st.seq : Longer(st.seq[r], x.seq[r])
    BY <1>1, <1>4, <1>5, <1>6 DEF LifeInv, Arrived
  <1>8. ASSUME NEW r \in Reqs, AddRequest(r)
        PROVE  Life(x, new, dl) /\ \A q \in DOMAIN st.seq : Longer(st.seq[q], x.seq[q])
    <2>1. /\ r \notin DOMAIN st.seq /\ ~IdTaken(st, RequestId[r]) /\ x = AddSequence(st, r)
          /\ new = rows /\ dl = cl
      BY <1>1, <1>2, <1>3, <1>4, <1>5, <1>6, <1>8 DEF AddRequest
    <2>2. Life(x, rows, cl) /\ \A q \in DOMAIN st.seq : x.seq[q] = st.seq[q]
      BY <1>7, <2>1, AddLife
    <2> QED
      BY <2>1, <2>2, SameIsLonger
  <1>9. ASSUME NEW r \in Reqs, NEW reason \in {"abort", "stop"}, AbortRequest(r, reason)
        PROVE  Life(x, new, dl) /\ \A q \in DOMAIN st.seq : Longer(st.seq[q], x.seq[q])
    <2>1. /\ r \in st.live /\ x = Abort(st, r, reason) /\ new = rows
          /\ dl = Silenced(cl, r)
      BY <1>1, <1>2, <1>3, <1>4, <1>5, <1>6, <1>9 DEF AbortRequest, Silenced
    <2>2. /\ Life(x, rows, dl)
          /\ \A q \in DOMAIN st.seq : x.seq[q].token_ids = st.seq[q].token_ids
      BY <1>7, <2>1, AbortLife
    <2> QED
      BY <2>1, <2>2, SameIsLonger
  <1>10. ASSUME StepAsync
         PROVE  Life(x, new, dl) /\ \A q \in DOMAIN st.seq : Longer(st.seq[q], x.seq[q])
    <2>1. PICK l \in Launches(sched, in_flight.rows) :
            \E rec \in {Reconcile(l.st, in_flight.rows)} :
              /\ sched' = rec.st /\ in_flight' = l.flight
              /\ clients' = Deliver(rec.st, rec.stepped, l.dropped)
      BY <1>10 DEF StepAsync
    <2>2. PICK rec : /\ rec = Reconcile(l.st, in_flight.rows)
                     /\ sched' = rec.st /\ in_flight' = l.flight
                     /\ clients' = Deliver(rec.st, rec.stepped, l.dropped)
      BY <2>1
    <2>3. l \in Launches(st, rows)
      BY <1>1, <1>2, <2>1
    <2>4. rec = Reconcile(l.st, rows)
      BY <1>2, <2>2
    <2>5. dl = Deliver(rec.st, rec.stepped, l.dropped) /\ x = rec.st /\ new = l.flight.rows
      BY <1>4, <1>5, <1>6, <2>2
    <2>6. /\ Life(rec.st, l.flight.rows, dl)
          /\ \A q \in DOMAIN st.seq : Longer(st.seq[q], rec.st.seq[q])
      BY <1>3, <1>7, <2>3, <2>4, <2>5, AsyncLife
    <2> QED
      BY <2>5, <2>6
  <1>11. ASSUME StepSync
         PROVE  Life(x, new, dl) /\ \A q \in DOMAIN st.seq : Longer(st.seq[q], x.seq[q])
    <2>1. PICK rec \in {Reconcile(sched, in_flight.rows)} :
            \E l \in Launches(rec.st, << >>) :
              /\ sched' = l.st /\ in_flight' = l.flight
              /\ clients' = Deliver(l.st, rec.stepped, l.dropped)
      BY <1>11 DEF StepSync
    <2>2. PICK l \in Launches(rec.st, << >>) :
              /\ sched' = l.st /\ in_flight' = l.flight
              /\ clients' = Deliver(l.st, rec.stepped, l.dropped)
      BY <2>1
    <2>3. rec = Reconcile(st, rows)
      BY <1>1, <1>2, <2>1
    <2>4. dl = Deliver(l.st, rec.stepped, l.dropped) /\ x = l.st /\ new = l.flight.rows
      BY <1>4, <1>5, <1>6, <2>2
    <2>5. ~AsyncScheduling
      BY <1>11 DEF StepSync
    <2>6. /\ Life(l.st, l.flight.rows, dl)
          /\ \A q \in DOMAIN st.seq : Longer(st.seq[q], l.st.seq[q])
      BY <1>3, <1>7, <2>2, <2>3, <2>4, <2>5, SyncLife
    <2> QED
      BY <2>4, <2>6
  <1> QED
    BY <1>8, <1>9, <1>10, <1>11 DEF Next

(* The invariant holds in every state of the engine.                       *)
THEOREM LifeInvariant == Spec => []LifeInv
  <1>1. Init => LifeInv
    BY InitLife
  <1>2. LifeInv /\ [Next]_vars => LifeInv'
    <2> SUFFICES ASSUME LifeInv, [Next]_vars PROVE LifeInv'
      OBVIOUS
    <2>1. CASE Next
      BY <2>1, NextLife
    <2>2. CASE UNCHANGED vars
      BY <2>2 DEF vars, LifeInv
    <2> QED
      BY <2>1, <2>2
  <1> QED
    BY <1>1, <1>2, PTL DEF Spec

(* A queue repeats nobody.                                                 *)
LEMMA QueueIsInjective ==
    ASSUME NEW S, NEW q, Queue(q, S)
    PROVE  IsInjective(q)
  <1>1. DOMAIN q = 1..Len(q)
    BY DEF Queue
  <1> QED
    BY <1>1 DEF Queue, Injective, IsInjective

(* scheduler.py keeps every live request in the one of waiting, running    *)
(* and recving that its status names, and every finished one in none but   *)
(* where it may own blocks; ids come back only when their dict entries are *)
(* gone.                                                                   *)
THEOREM EngineOneQueue == Spec => []OneQueue
  <1>1. LifeInv => OneQueue
    <2> SUFFICES ASSUME LifeInv PROVE OneQueue
      OBVIOUS
    <2>1. PICK st : st = sched
      OBVIOUS
    <2>2. Settled(st) /\ Unique(st)
      BY <2>1 DEF LifeInv, Life
    <2>3. Queue(st.waiting, DOMAIN st.seq) /\ Queue(st.running, DOMAIN st.seq)
      BY <2>2 DEF Settled, Shape
    <2>4. IsInjective(st.waiting) /\ IsInjective(st.running)
      BY <2>3, QueueIsInjective
    <2>5. \A r, q \in st.live \cup st.recving \cup st.sending :
            RequestId[r] = RequestId[q] => r = q
      BY <2>2 DEF Unique, Tracked
    <2>6. Placed(st, ToSet(st.running))
      BY <2>2 DEF Settled
    <2> QED
      BY <2>1, <2>4, <2>5, <2>6 DEF OneQueue, Placed, Arrived, Running
  <1> QED
    BY <1>1, LifeInvariant, PTL

(* What a client has been delivered is what reconcile() has committed,     *)
(* each token once and in order, and never more than max_tokens.           *)
THEOREM EngineDelivers == Spec => []DeliveredIsCommitted
  <1>1. LifeInv => DeliveredIsCommitted
    <2> SUFFICES ASSUME LifeInv, NEW r \in Arrived
                 PROVE  /\ sched.seq[r].token_ids = Prompt[r] \o clients[r].tokens
                        /\ Len(clients[r].tokens) <= MaxTokens[r]
      BY DEF DeliveredIsCommitted
    <2>1. Told(r, sched.seq[r], clients[r])
      BY DEF LifeInv, Life, Informed, Arrived, Settled, Shape
    <2> QED
      BY <2>1 DEF Told
  <1> QED
    BY <1>1, LifeInvariant, PTL

(* step() hands out one last output for a request that finishes, also one  *)
(* that is reconciled and dropped in the same step, and none for an abort. *)
THEOREM EngineOneFinal == Spec => []OneFinalOutput
  <1>1. LifeInv => OneFinalOutput
    <2> SUFFICES ASSUME LifeInv, NEW r \in Reqs
                 PROVE  clients[r].finals =
                          IF r \in Arrived /\ IsFinished(sched.seq[r]) /\ ~clients[r].aborted
                          THEN 1 ELSE 0
      BY DEF OneFinalOutput
    <2>1. IF r \in Arrived THEN Told(r, sched.seq[r], clients[r]) ELSE Untold(clients[r])
      BY DEF LifeInv, Life, Informed, Arrived
    <2>2. CASE r \in Arrived
      <3>1. Told(r, sched.seq[r], clients[r])
        BY <2>1, <2>2
      <3> QED
        BY <2>2, <3>1 DEF Told
    <2>3. CASE r \notin Arrived
      BY <2>1, <2>3 DEF Untold
    <2> QED
      BY <2>2, <2>3
  <1> QED
    BY <1>1, LifeInvariant, PTL

(* A completion ends with "length" only at max_tokens, and with "stop" of  *)
(* its own accord only after an end-of-sequence token.                     *)
THEOREM EngineReasons == Spec => []ReasonIsTrue
  <1>1. LifeInv => ReasonIsTrue
    <2> SUFFICES ASSUME LifeInv, NEW r \in Arrived
                 PROVE  /\ sched.seq[r].finish_reason = "length" =>
                             Len(clients[r].tokens) = MaxTokens[r]
                        /\ (sched.seq[r].finish_reason = "stop" /\ ~clients[r].aborted) =>
                             Last(clients[r].tokens) = Eos
      BY DEF ReasonIsTrue
    <2>1. Told(r, sched.seq[r], clients[r])
      BY DEF LifeInv, Life, Informed, Arrived, Settled, Shape
    <2> QED
      BY <2>1 DEF Told, NoReason
  <1> QED
    BY <1>1, LifeInvariant, PTL

(* No step takes a committed token back, touches a finished request, or,   *)
(* with async_scheduling, commits what a preempted one had in flight.      *)
THEOREM EngineTokensGrow == Spec => TokensOnlyGrow
  <1> DEFINE A == \A r \in Arrived :
                    LET s == sched.seq[r]
                        t == sched'.seq[r]
                    IN  /\ IsPrefix(s.token_ids, t.token_ids)
                        /\ (\/ IsFinished(s)
                            \/ AsyncScheduling /\ s.num_preemptions # t.num_preemptions)
                               => t.token_ids = s.token_ids
  <1>1. LifeInv /\ [Next]_vars => [A]_vars
    <2> SUFFICES ASSUME LifeInv, Next PROVE A
      OBVIOUS
    <2>1. \A r \in Arrived : Longer(sched.seq[r], sched'.seq[r])
      BY NextLife
    <2> QED
      BY <2>1 DEF Longer
  <1>2. Spec => [][A]_vars
    <2> HIDE DEF A
    <2> QED
      BY <1>1, LifeInvariant, PTL DEF Spec
  <1> QED
    BY <1>2 DEF TokensOnlyGrow

-----------------------------------------------------------------------------
(***************************************************************************)
(* The counters of the sequences and the batch of a step.                  *)
(***************************************************************************)

(* Whether the rows of every step compute something: not all of those that *)
(* _schedule_whole_prompts admits for a load which then does not start.    *)
Exact == EnableChunkedPrefill \/ ~HasConnector

(* The counters of a sequence; on says that it has a row in the step that  *)
(* is being planned.                                                       *)
Counted(s, on) ==
    /\ s.is_prefill \in BOOLEAN
    /\ s.num_cached_tokens \in Nat /\ s.num_pending_tokens \in Nat
    /\ s.num_spec_tokens \in Nat /\ s.num_scheduled_tokens \in Nat
    /\ s.num_prompt_tokens > 0 /\ s.num_prompt_tokens <= NumTokens(s)
    /\ IsFinished(s) => s.num_pending_tokens = 0
    /\ ~IsFinished(s) /\ s.is_prefill =>
        /\ s.num_pending_tokens = 0 /\ s.num_spec_tokens = 0
        /\ s.num_cached_tokens < NumTokens(s)
    /\ ~IsFinished(s) /\ ~s.is_prefill =>
        /\ s.status = "RUNNING"
        /\ s.num_cached_tokens = NumPlannedTokens(s) - 1
    /\ ~on => s.num_scheduled_tokens = 0
    /\ on =>
        /\ s.status = "RUNNING"
        /\ s.is_prefill => s.num_cached_tokens + s.num_scheduled_tokens <= NumTokens(s)
        /\ ~s.is_prefill => s.num_scheduled_tokens = 1 + s.num_spec_tokens
        /\ Exact => s.num_scheduled_tokens > 0

(* A launch, until it advances, reserves nothing: it drops the             *)
(* reservations of those it preempts or ends and leaves the others alone.  *)
Reserves(s, t) ==
    IF IsFinished(t) \/ t.num_preemptions # s.num_preemptions
    THEN t.num_pending_tokens = 0
    ELSE t.num_pending_tokens = s.num_pending_tokens

(* f adds up the tokens of the rows of a step. *)
SumsUp(f, st, scheduled) ==
    /\ DOMAIN f = 0..Len(scheduled)
    /\ \A i \in 0..Len(scheduled) : f[i] \in Nat
    /\ f[0] = 0
    /\ \A i \in 1..Len(scheduled) : f[i] = f[i - 1] + st.seq[scheduled[i]].num_scheduled_tokens

(* What is left of the budget is what the rows have not used of it. *)
Booked(st, out) ==
    /\ out.budget \in Nat
    /\ Len(out.scheduled) <= MaxNumSeqs
    /\ \E f : /\ SumsUp(f, st, out.scheduled)
              /\ f[Len(out.scheduled)] + out.budget = MaxNumBatchedTokens

(* What a launch that began in st0 keeps true of the counters. *)
Kept(st0, st, out) ==
    /\ \A q \in DOMAIN st.seq :
        /\ Counted(st.seq[q], q \in ToSet(out.scheduled))
        /\ Reserves(st0.seq[q], st.seq[q])
    /\ \A q \in st.sending \cap DOMAIN st.seq : IsFinished(st.seq[q])
    /\ Booked(st, out)

(* x is st with another sequence for r, and nobody more to send.           *)
Alters(st, x, r) ==
    /\ DOMAIN x.seq = DOMAIN st.seq
    /\ \A q \in DOMAIN st.seq : q # r => x.seq[q] = st.seq[q]
    /\ x.sending \subseteq st.sending

(* Two steps of a launch reserve as one.                                   *)
LEMMA ReservesTrans ==
    ASSUME NEW s, NEW t, NEW u, IsSeq(s), LifeStep(s, t), LifeStep(t, u), Reserves(s, t), Reserves(t, u)
    PROVE  Reserves(s, u)
  BY DEF IsSeq, LifeStep, SameTokens, Reserves

(* The budget stands while the rows keep their tokens.                     *)
LEMMA BookedOn ==
    ASSUME NEW st, NEW x, NEW out, NEW out2, NEW S, Queue(out.scheduled, S), Booked(st, out),
           out2.scheduled = out.scheduled, out2.budget = out.budget,
           \A q \in ToSet(out.scheduled) :
              x.seq[q].num_scheduled_tokens = st.seq[q].num_scheduled_tokens
    PROVE  Booked(x, out2)
  <1>1. PICK f : /\ SumsUp(f, st, out.scheduled)
                 /\ f[Len(out.scheduled)] + out.budget = MaxNumBatchedTokens
    BY DEF Booked
  <1>2. \A i \in 1..Len(out.scheduled) : out.scheduled[i] \in ToSet(out.scheduled)
    BY DEF Queue, ToSet
  <1>3. SumsUp(f, x, out2.scheduled)
    BY <1>1, <1>2 DEF SumsUp
  <1> QED
    BY <1>1, <1>3 DEF Booked

(* A row of n tokens for r. *)
Charges(st, x, out, out2, r, n) ==
    /\ n \in Nat /\ n <= out.budget /\ Len(out.scheduled) < MaxNumSeqs
    /\ out2.scheduled = Append(out.scheduled, r) /\ out2.budget = out.budget - n
    /\ x.seq[r].num_scheduled_tokens = n
    /\ \A q \in ToSet(out.scheduled) :
          x.seq[q].num_scheduled_tokens = st.seq[q].num_scheduled_tokens

(* A row takes its tokens from the budget.                                 *)
LEMMA BookedMore ==
    ASSUME NEW st, NEW x, NEW out, NEW out2, NEW S, Queue(out.scheduled, S), Booked(st, out),
           NEW r, NEW n, Charges(st, x, out, out2, r, n)
    PROVE  Booked(x, out2)
  <1> USE DEF Charges
  <1>1. PICK f : /\ SumsUp(f, st, out.scheduled)
                 /\ f[Len(out.scheduled)] + out.budget = MaxNumBatchedTokens
    BY DEF Booked
  <1>2. PICK old : old = out.scheduled
    OBVIOUS
  <1>3. PICK new : new = out2.scheduled
    OBVIOUS
  <1>4. old \in Seq(S) /\ new = Append(old, r)
    BY <1>2, <1>3 DEF Queue
  <1>5. PICK k : k = Len(old)
    OBVIOUS
  <1>6. /\ k \in Nat /\ Len(new) = k + 1 /\ new[k + 1] = r
        /\ \A i \in 1..k : new[i] = old[i] /\ old[i] \in ToSet(old)
    BY <1>4, <1>5 DEF ToSet
  <1>7. PICK g : g = [i \in 0..(k + 1) |-> IF i = k + 1 THEN f[k] + n ELSE f[i]]
    OBVIOUS
  <1>8. /\ f[k] \in Nat /\ f[0] = 0 /\ \A i \in 0..k : f[i] \in Nat
        /\ \A i \in 1..k : f[i] = f[i - 1] + st.seq[old[i]].num_scheduled_tokens
    BY <1>1, <1>2, <1>5, <1>6 DEF SumsUp
  <1>9. SumsUp(g, x, new)
    <2>1. DOMAIN g = 0..Len(new) /\ g[0] = 0 /\ \A i \in 0..Len(new) : g[i] \in Nat
      BY <1>6, <1>7, <1>8
    <2>2. ASSUME NEW i \in 1..Len(new)
          PROVE  g[i] = g[i - 1] + x.seq[new[i]].num_scheduled_tokens
      <3>1. CASE i = k + 1
        BY <1>6, <1>7, <1>8, <3>1
      <3>2. CASE i \in 1..k
        <4>1. g[i] = f[i] /\ g[i - 1] = f[i - 1] /\ new[i] = old[i] /\ old[i] \in ToSet(old)
          BY <1>6, <1>7, <3>2
        <4>2. x.seq[old[i]].num_scheduled_tokens = st.seq[old[i]].num_scheduled_tokens
          BY <1>2, <4>1
        <4> QED
          BY <1>8, <3>2, <4>1, <4>2
      <3> QED
        BY <1>6, <3>1, <3>2
    <2> QED
      BY <2>1, <2>2 DEF SumsUp
  <1>10. g[Len(new)] + out2.budget = MaxNumBatchedTokens
    <2>1. g[k + 1] = f[k] + n /\ out.budget \in Nat /\ f[k] + out.budget = MaxNumBatchedTokens
      BY <1>1, <1>2, <1>5, <1>6, <1>7 DEF Booked
    <2> QED
      BY <1>6, <1>8, <2>1
  <1>11. out2.budget \in Nat /\ Len(new) <= MaxNumSeqs
    BY <1>2, <1>5, <1>6, SchedulerAssumption DEF Booked
  <1> QED
    BY <1>3, <1>9, <1>10, <1>11 DEF Booked

(* Another plan for a sequence without a row.                              *)
LEMMA KeptStep ==
    ASSUME NEW st0, NEW st, NEW x, NEW run, NEW D, NEW run2, NEW D2, NEW r \in DOMAIN st.seq,
           NEW out, NEW out2, Planned(out, DOMAIN st0.seq),
           Good(st0, st, run, D), Kept(st0, st, out), Good(st0, x, run2, D2), Alters(st, x, r),
           r \notin ToSet(out.scheduled),
           LifeStep(st.seq[r], x.seq[r]), Counted(x.seq[r], FALSE), Reserves(st.seq[r], x.seq[r]),
           out2.scheduled = out.scheduled, out2.budget = out.budget
    PROVE  Kept(st0, x, out2)
  <1>1. DOMAIN x.seq = DOMAIN st.seq /\ DOMAIN st.seq = DOMAIN st0.seq
    BY GoodFacts
  <1>2. ASSUME NEW q \in DOMAIN x.seq
        PROVE  Counted(x.seq[q], q \in ToSet(out2.scheduled)) /\ Reserves(st0.seq[q], x.seq[q])
    <2>1. CASE q # r
      <3>1. x.seq[q] = st.seq[q] /\ q \in DOMAIN st.seq
        BY <1>1, <2>1 DEF Alters
      <3> QED
        BY <3>1 DEF Kept
    <2>2. CASE q = r
      <3>1. IsSeq(st0.seq[r]) /\ LifeStep(st0.seq[r], st.seq[r]) /\ Reserves(st0.seq[r], st.seq[r])
        BY <1>1 DEF Good, Shape, Evolves, Kept
      <3>2. Reserves(st0.seq[r], x.seq[r])
        BY <3>1, ReservesTrans
      <3>3. (q \in ToSet(out2.scheduled)) = FALSE
        BY <2>2
      <3> QED
        BY <2>2, <3>2, <3>3
    <2> QED
      BY <2>1, <2>2
  <1>3. ASSUME NEW q \in x.sending \cap DOMAIN x.seq PROVE IsFinished(x.seq[q])
    <2>1. IsFinished(st.seq[q])
      BY <1>1, <1>3 DEF Alters, Kept
    <2>2. CASE q # r
      BY <1>1, <1>3, <2>1, <2>2 DEF Alters
    <2>3. CASE q = r
      BY <2>1, <2>3 DEF LifeStep
    <2> QED
      BY <2>2, <2>3
  <1>4. Booked(x, out2)
    <2>1. \A q \in ToSet(out.scheduled) : q \in DOMAIN st.seq /\ q # r
      BY <1>1 DEF Planned, Queue, ToSet
    <2>2. \A q \in ToSet(out.scheduled) : x.seq[q].num_scheduled_tokens = st.seq[q].num_scheduled_tokens
      BY <2>1 DEF Alters
    <2> QED
      BY <2>2, BookedOn DEF Kept, Planned
  <1> QED
    BY <1>2, <1>3, <1>4 DEF Kept

-----------------------------------------------------------------------------
(* The scheduler's methods, one at a time. *)

(* The counters of s are those of t.                                       *)
SameCounters(s, t) ==
    /\ t.is_prefill = s.is_prefill
    /\ t.num_cached_tokens = s.num_cached_tokens
    /\ t.num_pending_tokens = s.num_pending_tokens
    /\ t.num_spec_tokens = s.num_spec_tokens
    /\ t.num_scheduled_tokens = s.num_scheduled_tokens

(* They are in order for both, then.                                       *)
LEMMA SameCounted ==
    ASSUME NEW s, NEW t, NEW on, Counted(s, on), SameLife(s, t), SameCounters(s, t)
    PROVE  Counted(t, on) /\ Reserves(s, t)
  BY DEF SameCounters, SameLife, SameTokens, Counted, Reserves, IsFinished, NumTokens, NumPlannedTokens

(* may_append adds blocks and counts nothing.                              *)
LEMMA MayAppendCounts ==
    ASSUME NEW bm, NEW s, IsSeq(s), NEW k
    PROVE  SameCounters(s, MayAppend(bm, s, k).seq)
  <1> DEFINE n == NumMissingBlocks(s, k)
  <1>1. MayAppend(bm, s, k).seq =
          IF NumFree(bm) < n THEN s
          ELSE [s EXCEPT !.block_table = @ \o SubSeq(bm.free, 1, n)]
    BY DEF MayAppend
  <1> HIDE DEF n
  <1> QED
    BY <1>1 DEF SameCounters, IsSeq, SeqFields

(* Nor does hash_blocks.                                                   *)
LEMMA HashBlocksCounts ==
    ASSUME NEW bm, NEW s, IsSeq(s), NEW k
    PROVE  SameCounters(s, HashBlocks(bm, s, k).seq)
  <1> DEFINE end == Min({k, NumTokens(s)}) \div BlockSize
  <1>1. HashBlocks(bm, s, k).seq =
          IF ~EnablePrefixCaching THEN s
          ELSE [s EXCEPT !.num_published_blocks = Max({@, end})]
    BY DEF HashBlocks
  <1> HIDE DEF end
  <1> QED
    BY <1>1 DEF SameCounters, IsSeq, SeqFields

(* deallocate forgets what was computed.                                   *)
LEMMA DeallocateCounts ==
    ASSUME NEW bm, NEW s, IsSeq(s), NEW t, t = Deallocate(bm, s).seq
    PROVE  /\ t.is_prefill = s.is_prefill
           /\ t.num_cached_tokens = 0
           /\ t.num_pending_tokens = s.num_pending_tokens
           /\ t.num_spec_tokens = s.num_spec_tokens
           /\ t.num_scheduled_tokens = s.num_scheduled_tokens
  BY DEF Deallocate, IsSeq, SeqFields

(* A touched sequence without a row.                                       *)
LEMMA KeptTouch ==
    ASSUME NEW st0, NEW st, NEW x, NEW run, NEW D, NEW r \in DOMAIN st.seq, NEW out,
           Planned(out, DOMAIN st0.seq), Good(st0, st, run, D), Kept(st0, st, out),
           Touches(st, x, r), r \notin ToSet(out.scheduled),
           Counted(x.seq[r], FALSE), Reserves(st.seq[r], x.seq[r])
    PROVE  Kept(st0, x, out)
  <1>1. Good(st0, x, run, D)
    BY GoodTouch
  <1>2. Alters(st, x, r)
    BY DEF Touches, Alters
  <1>3. IsSeq(st.seq[r]) /\ SameLife(st.seq[r], x.seq[r])
    BY DEF Good, Shape, Touches
  <1>4. LifeStep(st.seq[r], x.seq[r])
    BY <1>3, SameLifeIsStep
  <1> QED
    BY <1>1, <1>2, <1>4, KeptStep

(* A sequence without a row, within a launch.                              *)
LEMMA KeptFacts ==
    ASSUME NEW st0, NEW st, NEW out, Kept(st0, st, out), NEW r \in DOMAIN st.seq,
           r \notin ToSet(out.scheduled)
    PROVE  Counted(st.seq[r], FALSE)
  <1>1. Counted(st.seq[r], r \in ToSet(out.scheduled))
    BY DEF Kept
  <1>2. (r \in ToSet(out.scheduled)) = FALSE
    OBVIOUS
  <1> QED
    BY <1>1, <1>2

(* _chunk_size: a chunk stays within the prompt and the budget.            *)
LEMMA ChunkSize ==
    ASSUME NEW m \in Nat, m > 0, NEW budget \in Nat, NEW chunk, chunk = Min({m, budget}),
           NEW n, n = IF EnableChunkedPrefill /\ LongPrefillTokenThreshold > 0
                      THEN Min({chunk, LongPrefillTokenThreshold}) ELSE chunk
    PROVE  n \in Nat /\ n <= m /\ n <= budget /\ (budget > 0 => n > 0)
  <1>1. chunk \in Nat /\ chunk <= m /\ chunk <= budget /\ (chunk = m \/ chunk = budget)
    BY LeastOf
  <1>2. LongPrefillTokenThreshold \in Nat
    BY SchedulerAssumption
  <1>3. CASE EnableChunkedPrefill /\ LongPrefillTokenThreshold > 0
    <2>1. n = Min({chunk, LongPrefillTokenThreshold})
      BY <1>3
    <2>2. n \in Nat /\ n <= chunk /\ (n = chunk \/ n = LongPrefillTokenThreshold)
      BY <1>1, <1>2, <2>1, LeastOf
    <2> QED
      BY <1>1, <1>2, <1>3, <2>2
  <1>4. CASE ~(EnableChunkedPrefill /\ LongPrefillTokenThreshold > 0)
    <2>1. n = chunk
      BY <1>4
    <2> QED
      BY <1>1, <2>1
  <1> QED
    BY <1>3, <1>4

(* The tokens of a row.                                                    *)
LEMMA RowTokensCounted ==
    ASSUME NEW s, IsSeq(s), Counted(s, FALSE), s.status = "RUNNING",
           NEW budget \in Nat, Exact => budget > 0,
           ~s.is_prefill => 1 + s.num_spec_tokens <= budget,
           NEW chunk, chunk = Min({NumTokens(s) - s.num_cached_tokens, budget}),
           NEW n, n = IF s.is_prefill
                      THEN IF EnableChunkedPrefill /\ LongPrefillTokenThreshold > 0
                           THEN Min({chunk, LongPrefillTokenThreshold}) ELSE chunk
                      ELSE 1 + s.num_spec_tokens,
           NEW t, t = [s EXCEPT !.num_scheduled_tokens = n]
    PROVE  /\ n \in Nat /\ n <= budget
           /\ Counted(t, TRUE) /\ Reserves(s, t)
  <1>1. NumTokens(s) \in Nat /\ ~IsFinished(s)
    BY DEF IsSeq, NumTokens, IsFinished
  <1>2. ASSUME s.is_prefill
        PROVE  /\ n \in Nat /\ n <= budget /\ s.num_cached_tokens + n <= NumTokens(s)
               /\ Exact => n > 0
    <2>1. PICK m : m = NumTokens(s) - s.num_cached_tokens
      OBVIOUS
    <2>2. m \in Nat /\ m > 0 /\ s.num_cached_tokens \in Nat
      BY <1>1, <1>2, <2>1 DEF Counted
    <2>3. n = IF EnableChunkedPrefill /\ LongPrefillTokenThreshold > 0
              THEN Min({chunk, LongPrefillTokenThreshold}) ELSE chunk
      BY <1>2
    <2>4. chunk = Min({m, budget})
      BY <2>1
    <2>5. n \in Nat /\ n <= m /\ n <= budget /\ (budget > 0 => n > 0)
      BY <2>2, <2>3, <2>4, ChunkSize
    <2> QED
      BY <1>1, <2>1, <2>2, <2>5
  <1>3. ASSUME ~s.is_prefill
        PROVE  n \in Nat /\ n <= budget /\ n = 1 + s.num_spec_tokens
    BY <1>3 DEF Counted
  <1>4. /\ t.is_prefill = s.is_prefill /\ t.num_cached_tokens = s.num_cached_tokens
        /\ t.num_pending_tokens = s.num_pending_tokens /\ t.num_spec_tokens = s.num_spec_tokens
        /\ t.num_scheduled_tokens = n /\ t.status = s.status /\ t.token_ids = s.token_ids
        /\ t.num_prompt_tokens = s.num_prompt_tokens /\ t.num_preemptions = s.num_preemptions
    BY DEF IsSeq, SeqFields
  <1>5. n \in Nat /\ n <= budget /\ (Exact => n > 0)
    BY <1>2, <1>3 DEF Counted
  <1>6. Counted(t, TRUE)
    <2>1. /\ t.is_prefill \in BOOLEAN
          /\ t.num_cached_tokens \in Nat /\ t.num_pending_tokens \in Nat
          /\ t.num_spec_tokens \in Nat /\ t.num_scheduled_tokens \in Nat
          /\ t.num_prompt_tokens > 0 /\ t.num_prompt_tokens <= NumTokens(t)
          /\ ~IsFinished(t) /\ t.status = "RUNNING" /\ NumTokens(t) = NumTokens(s)
      BY <1>1, <1>4, <1>5 DEF Counted, NumTokens, IsFinished
    <2>2. CASE s.is_prefill
      BY <1>1, <1>2, <1>4, <1>5, <2>1, <2>2 DEF Counted
    <2>3. CASE ~s.is_prefill
      BY <1>1, <1>3, <1>4, <1>5, <2>1, <2>3 DEF Counted, NumPlannedTokens
    <2> QED
      BY <2>2, <2>3
  <1> QED
    BY <1>1, <1>4, <1>5, <1>6 DEF Reserves, IsFinished

(* _schedule: a row for r.                                                 *)
LEMMA RowKept ==
    ASSUME NEW st0, NEW st, NEW run, NEW D, NEW r \in DOMAIN st.seq, NEW out,
           Planned(out, DOMAIN st0.seq), Good(st0, st, run, D), Kept(st0, st, out),
           r \notin ToSet(out.scheduled), st.seq[r].status = "RUNNING",
           Exact => out.budget > 0, Len(out.scheduled) < MaxNumSeqs,
           ~st.seq[r].is_prefill => 1 + st.seq[r].num_spec_tokens <= out.budget
    PROVE  LET row == ScheduleRow(st, out, r) IN Kept(st0, row.st, row.out)
  <1>1. PICK s : s = st.seq[r]
    OBVIOUS
  <1>2. PICK chunk : chunk = Min({NumTokens(s) - s.num_cached_tokens, out.budget})
    OBVIOUS
  <1>3. PICK n : n = IF s.is_prefill
                      THEN IF EnableChunkedPrefill /\ LongPrefillTokenThreshold > 0
                           THEN Min({chunk, LongPrefillTokenThreshold}) ELSE chunk
                      ELSE 1 + s.num_spec_tokens
    OBVIOUS
  <1>4. PICK t : t = [s EXCEPT !.num_scheduled_tokens = n]
    OBVIOUS
  <1>5. PICK x : x = [st EXCEPT !.seq[r].num_scheduled_tokens = n]
    OBVIOUS
  <1>6. PICK o : o = [out EXCEPT !.scheduled = Append(@, r), !.budget = @ - n]
    OBVIOUS
  <1>7. ScheduleRow(st, out, r) = [st |-> x, out |-> o]
    BY <1>1, <1>2, <1>3, <1>5, <1>6 DEF ScheduleRow
  <1>8. /\ Shape(st) /\ IsSeq(s) /\ DOMAIN st = SchedFields /\ DOMAIN st.seq = DOMAIN st0.seq
    BY <1>1, GoodFacts DEF Shape
  <1>9. Counted(s, FALSE) /\ out.budget \in Nat
    BY <1>1, KeptFacts DEF Kept, Booked
  <1>10. n \in Nat /\ n <= out.budget /\ Counted(t, TRUE) /\ Reserves(s, t)
    BY <1>1, <1>2, <1>3, <1>4, <1>8, <1>9, RowTokensCounted
  <1>11. /\ DOMAIN x.seq = DOMAIN st.seq /\ x.seq[r] = t
         /\ \A q \in DOMAIN st.seq : q # r => x.seq[q] = st.seq[q]
         /\ x.sending = st.sending
    BY <1>1, <1>4, <1>5, <1>8 DEF SchedFields
  <1>12. o.scheduled = Append(out.scheduled, r) /\ o.budget = out.budget - n
    BY <1>6 DEF Planned, OutFields
  <1>13. ToSet(o.scheduled) = ToSet(out.scheduled) \cup {r}
    BY <1>8, <1>12, QueueAppend DEF Planned
  <1>14. t.num_scheduled_tokens = n /\ t.status = s.status /\ t.num_preemptions = s.num_preemptions
    BY <1>4, <1>8 DEF IsSeq, SeqFields
  <1>15. Booked(x, o)
    <2>1. \A q \in ToSet(out.scheduled) : q \in DOMAIN st.seq /\ q # r
      BY <1>8 DEF Planned, Queue, ToSet
    <2>2. \A q \in ToSet(out.scheduled) : x.seq[q].num_scheduled_tokens = st.seq[q].num_scheduled_tokens
      BY <1>11, <2>1
    <2>3. Booked(st, out) /\ Queue(out.scheduled, DOMAIN st0.seq)
      BY DEF Kept, Planned
    <2>4. x.seq[r].num_scheduled_tokens = n
      BY <1>11, <1>14
    <2>5. Charges(st, x, out, o, r, n)
      BY <1>10, <1>12, <2>2, <2>4 DEF Charges
    <2> QED
      BY <2>3, <2>5, BookedMore
  <1>16. ASSUME NEW q \in DOMAIN x.seq
         PROVE  Counted(x.seq[q], q \in ToSet(o.scheduled)) /\ Reserves(st0.seq[q], x.seq[q])
    <2>1. CASE q # r
      <3>1. x.seq[q] = st.seq[q] /\ (q \in ToSet(o.scheduled)) = (q \in ToSet(out.scheduled))
        BY <1>11, <1>13, <2>1
      <3> QED
        BY <1>11, <3>1 DEF Kept
    <2>2. CASE q = r
      <3>1. (q \in ToSet(o.scheduled)) = TRUE
        BY <1>13, <2>2
      <3>2. Reserves(st0.seq[r], s)
        BY <1>1 DEF Kept
      <3>3. Reserves(st0.seq[r], t)
        BY <1>4, <1>8, <3>2 DEF Reserves, IsFinished, IsSeq, SeqFields
      <3> QED
        BY <1>10, <1>11, <2>2, <3>1, <3>3
    <2> QED
      BY <2>1, <2>2
  <1>17. \A q \in x.sending \cap DOMAIN x.seq : IsFinished(x.seq[q])
    BY <1>1, <1>11, <1>14 DEF Kept, IsFinished
  <1>18. Kept(st0, x, o)
    BY <1>15, <1>16, <1>17 DEF Kept
  <1> QED
    BY <1>7, <1>18

(* _preempt: what r was to compute is dropped.                             *)
LEMMA PreemptKept ==
    ASSUME NEW st0, NEW st, NEW run, NEW D, NEW out, Planned(out, DOMAIN st0.seq),
           Good(st0, st, run, D), Kept(st0, st, out),
           NEW r \in run, r \in DOMAIN st.seq, r \notin ToSet(st.running),
           r \notin ToSet(out.scheduled)
    PROVE  LET p == Preempt(st, out, r)
           IN  /\ Kept(st0, p.st, p.out) /\ p.out.budget = out.budget
               /\ \A q \in DOMAIN st.seq : q # r => p.st.seq[q] = st.seq[q]
  <1>1. PICK p : p = Preempt(st, out, r)
    OBVIOUS
  <1>2. PICK u : u = st.seq[r]
    OBVIOUS
  <1>3. PICK s : s = [DropPending(u) EXCEPT
                     !.status = "WAITING", !.is_prefill = TRUE,
                     !.num_preemptions = @ + 1, !.num_spec_tokens = 0]
    OBVIOUS
  <1>4. PICK st1 : st1 = [st EXCEPT !.seq[r] = s]
    OBVIOUS
  <1>5. PICK result : result = Deallocate(st1.bm, st1.seq[r])
    OBVIOUS
  <1>6. PICK st2 : st2 = WithBlocks(st1, r, result)
    OBVIOUS
  <1>7. PICK x : x = PolicyRequeue(st2, r)
    OBVIOUS
  <1>8. p.st = x /\ p.out = [out EXCEPT !.preempted = Append(@, r)]
    BY <1>1, <1>2, <1>3, <1>4, <1>5, <1>6, <1>7 DEF Preempt, ReleaseBlocks
  <1>9. /\ Shape(st) /\ DOMAIN st = SchedFields /\ IsSeq(u) /\ u.status = "RUNNING"
        /\ r \notin ToSet(st.waiting)
    BY <1>2 DEF Good, Shape, Placed
  <1>10. /\ DOMAIN st1 = SchedFields /\ DOMAIN st1.seq = DOMAIN st.seq /\ st1.seq[r] = s
         /\ \A q \in DOMAIN st.seq : q # r => st1.seq[q] = st.seq[q]
         /\ st1.waiting = st.waiting /\ st1.sending = st.sending
    BY <1>4, <1>9 DEF SchedFields
  <1>11. /\ DOMAIN st2 = SchedFields /\ DOMAIN st2.seq = DOMAIN st.seq /\ st2.seq[r] = result.seq
         /\ \A q \in DOMAIN st.seq : q # r => st2.seq[q] = st.seq[q]
         /\ st2.waiting = st.waiting /\ st2.sending = st.sending
    BY <1>6, <1>10 DEF WithBlocks, SchedFields
  <1>12. x.seq = st2.seq /\ x.sending = st2.sending
    <2>1. Queue(st2.waiting, DOMAIN st.seq) /\ r \notin ToSet(st2.waiting)
      BY <1>9, <1>11 DEF Shape
    <2>2. /\ PolicyRequeue(st2, r).seq = st2.seq
          /\ PolicyRequeue(st2, r).sending = st2.sending
      BY <1>11, <2>1, RequeueWaits
    <2> QED
      BY <1>7, <2>2
  <1>13. PICK t : t = result.seq
    OBVIOUS
  <1>14. Alters(st, x, r) /\ x.seq[r] = t
    BY <1>11, <1>12, <1>13 DEF Alters
  <1>15. Counted(u, FALSE)
    BY <1>2, KeptFacts
  <1>16. /\ IsSeq(s) /\ SameTokens(u, s) /\ s.status = "WAITING" /\ s.is_prefill = TRUE
         /\ s.num_pending_tokens = 0 /\ s.num_spec_tokens = 0
         /\ s.num_scheduled_tokens = u.num_scheduled_tokens
         /\ s.num_preemptions = u.num_preemptions + 1
         /\ s.finish_reason = u.finish_reason
    BY <1>3, <1>9 DEF DropPending, IsSeq, SeqFields, SameTokens, Status
  <1>17. /\ SameLife(s, t) /\ t.num_pending_tokens = 0 /\ t.num_spec_tokens = 0
         /\ t.num_scheduled_tokens = u.num_scheduled_tokens /\ t.is_prefill = TRUE
         /\ t.num_cached_tokens = 0
    BY <1>5, <1>10, <1>13, <1>16, DeallocateLife, DeallocateCounts
  <1>18. u.num_preemptions \in Nat /\ ~IsFinished(u)
    BY <1>9 DEF IsSeq, IsFinished
  <1>19. LifeStep(u, t) /\ Reserves(u, t)
    BY <1>9, <1>16, <1>17, <1>18 DEF LifeStep, SameLife, SameTokens, IsFinished, Reserves
  <1>20. Counted(t, FALSE)
    <2>1. /\ t.token_ids = u.token_ids /\ t.num_prompt_tokens = u.num_prompt_tokens
          /\ t.status = "WAITING"
      BY <1>16, <1>17 DEF SameLife, SameTokens
    <2>2. u.num_prompt_tokens \in Nat /\ Len(u.token_ids) \in Nat
      BY <1>9 DEF IsSeq
    <2>3. /\ u.num_prompt_tokens > 0 /\ u.num_prompt_tokens <= Len(u.token_ids)
          /\ u.num_scheduled_tokens = 0
      BY <1>15 DEF Counted, NumTokens
    <2>4. ~IsFinished(t) /\ NumTokens(t) = Len(u.token_ids)
      BY <2>1 DEF IsFinished, NumTokens
    <2>5. t.is_prefill /\ t.is_prefill \in BOOLEAN
      BY <1>17
    <2> QED
      BY <1>17, <2>1, <2>2, <2>3, <2>4, <2>5 DEF Counted
  <1>21. Good(st0, x, run \ {r}, D) /\ p.out.scheduled = out.scheduled
    <2>1. DOMAIN out = OutFields
      BY DEF Planned
    <2>2. Good(st0, p.st, run \ {r}, D) /\ p.out.scheduled = out.scheduled
      BY <1>1, <2>1, PreemptMoves
    <2> QED
      BY <1>8, <2>2
  <1>22. p.out.budget = out.budget
    BY <1>8 DEF Planned, OutFields
  <1>23. Kept(st0, x, p.out)
    BY <1>2, <1>14, <1>19, <1>20, <1>21, <1>22, KeptStep
  <1> QED
    BY <1>1, <1>8, <1>14, <1>22, <1>23 DEF Alters

(* The same sequences, in another order.                                   *)
LEMMA KeptSame ==
    ASSUME NEW st0, NEW st, NEW x, NEW out, NEW out2, NEW S, Queue(out.scheduled, S),
           Kept(st0, st, out), x.seq = st.seq, x.sending = st.sending,
           out2.scheduled = out.scheduled, out2.budget = out.budget
    PROVE  Kept(st0, x, out2)
  <1>1. Booked(x, out2)
    BY BookedOn DEF Kept
  <1> QED
    BY <1>1 DEF Kept

(* A finished sequence.                                                    *)
LEMMA EndedCounted ==
    ASSUME NEW s, NEW t, IsSeq(s), Counted(s, FALSE), SameTokens(s, t),
           t.status = "FINISHED", t.num_pending_tokens = 0, t.num_cached_tokens \in Nat,
           t.is_prefill = s.is_prefill, t.num_spec_tokens = s.num_spec_tokens,
           t.num_scheduled_tokens = s.num_scheduled_tokens
    PROVE  Counted(t, FALSE) /\ Reserves(s, t)
  BY DEF SameTokens, Counted, Reserves, IsFinished, NumTokens

(* _drop ends a sequence.                                                  *)
LEMMA DropEnds ==
    ASSUME NEW st, DOMAIN st = SchedFields, NEW r \in DOMAIN st.seq, IsSeq(st.seq[r]),
           NEW reason, NEW x, x = Drop(st, r, reason), NEW s, s = st.seq[r], NEW t, t = x.seq[r]
    PROVE  /\ Alters(st, x, r) /\ DOMAIN t = SeqFields
           /\ SameTokens(s, t) /\ t.status = "FINISHED" /\ t.finish_reason = reason
           /\ t.num_preemptions = s.num_preemptions
           /\ t.num_pending_tokens = 0 /\ t.num_cached_tokens = s.num_cached_tokens
           /\ t.is_prefill = s.is_prefill /\ t.num_spec_tokens = s.num_spec_tokens
           /\ t.num_scheduled_tokens = s.num_scheduled_tokens
  <1>1. Alters(st, x, r)
    BY DEF Drop, Finish, SchedFields, Alters
  <1>2. t = DropPending([[s EXCEPT !.status = "FINISHED"] EXCEPT !.finish_reason = reason])
    BY DEF Drop, Finish, SchedFields, IsSeq, SeqFields
  <1> QED
    BY <1>1, <1>2 DEF DropPending, IsSeq, SeqFields, SameTokens, Status

-----------------------------------------------------------------------------
(* _make_room, and the loop of schedule() over the running. *)

(* What _make_room has in hand.                                            *)
LEMMA WorkFacts ==
    ASSUME NEW st0, NEW st, NEW out, NEW still, NEW r, AtWork(st0, st, out, still, r)
    PROVE  /\ Good(st0, st, ToSet(st.running) \cup ToSet(still) \cup {r}, ToSet(out.dropped))
           /\ Shape(st) /\ DOMAIN st = SchedFields /\ DOMAIN st.seq = DOMAIN st0.seq
           /\ Planned(out, DOMAIN st0.seq) /\ r \in DOMAIN st.seq /\ IsSeq(st.seq[r])
           /\ st.seq[r].status = "RUNNING" /\ r \notin ToSet(out.scheduled)
           /\ r \notin ToSet(st.running)
  <1>1. Good(st0, st, ToSet(st.running) \cup ToSet(still) \cup {r}, ToSet(out.dropped))
    BY DEF AtWork
  <1>2. Shape(st) /\ DOMAIN st = SchedFields /\ DOMAIN st.seq = DOMAIN st0.seq
    BY <1>1, GoodFacts
  <1>3. /\ Planned(out, DOMAIN st0.seq) /\ r \in DOMAIN st.seq
        /\ r \notin ToSet(out.scheduled) /\ r \notin ToSet(st.running)
    BY <1>2 DEF AtWork
  <1>4. IsSeq(st.seq[r]) /\ st.seq[r].status = "RUNNING"
    BY <1>1, <1>2, <1>3 DEF Good, Placed, Shape
  <1> QED
    BY <1>1, <1>2, <1>3, <1>4

(* The plan goes on, and r is as it was. *)
GoesOn(st0, st, out, x, o, r) ==
    /\ Kept(st0, x, o)
    /\ x.seq[r] = st.seq[r]
    /\ o.scheduled = out.scheduled /\ o.budget = out.budget

(* _make_room, for one victim.                                             *)
LEMMA VictimKept ==
    ASSUME NEW st0, NEW p, NEW still, NEW r, NEW n, AtWork(st0, p.st, p.out, still, r),
           Kept(st0, p.st, p.out)
    PROVE  LET x == PreemptVictim(p, r, n) IN GoesOn(st0, p.st, p.out, x.st, x.out, r)
  <1>1. CASE CanAppend(p.st.bm, p.st.seq[r], n) \/ p.st.running = << >>
    <2>1. PreemptVictim(p, r, n) = p
      BY <1>1 DEF PreemptVictim
    <2> QED
      BY <2>1 DEF GoesOn
  <1>2. CASE ~(CanAppend(p.st.bm, p.st.seq[r], n) \/ p.st.running = << >>)
    <2>1. PICK v : v = Victim(p.st)
      OBVIOUS
    <2>2. PICK w : w = Without(p.st.running, v)
      OBVIOUS
    <2>3. PICK y : y = [p.st EXCEPT !.running = w]
      OBVIOUS
    <2>4. PICK x : x = Preempt(y, p.out, v)
      OBVIOUS
    <2>5. PreemptVictim(p, r, n) = x
      BY <1>2, <2>1, <2>2, <2>3, <2>4 DEF PreemptVictim
    <2>6. PICK run : run = ToSet(p.st.running) \cup ToSet(still) \cup {r}
      OBVIOUS
    <2>7. PICK D : D = ToSet(p.out.dropped)
      OBVIOUS
    <2>8. /\ Good(st0, p.st, run, D) /\ Shape(p.st) /\ DOMAIN p.st.seq = DOMAIN st0.seq
          /\ Queue(p.st.running, DOMAIN st0.seq) /\ DOMAIN p.st = SchedFields
      BY <2>6, <2>7, GoodFacts DEF AtWork
    <2>9. v \in ToSet(p.st.running)
      BY <1>2, <2>1, <2>8, VictimIsRunning
    <2>10. Queue(w, DOMAIN st0.seq) /\ ToSet(w) = ToSet(p.st.running) \ {v}
      BY <2>2, <2>8, QueueWithout
    <2>11. Good(st0, y, run, D) /\ y.running = w /\ y.seq = p.st.seq
      BY <2>3, <2>8, <2>10, GoodDeque
    <2>12. v \in run /\ v \in DOMAIN y.seq /\ v \notin ToSet(y.running)
      <3>1. v \in DOMAIN st0.seq
        BY <2>8, <2>9 DEF Queue, ToSet
      <3> QED
        BY <2>6, <2>8, <2>9, <2>10, <2>11, <3>1
    <2>13. Planned(p.out, DOMAIN st0.seq) /\ DOMAIN p.out = OutFields
      BY DEF AtWork, Planned
    <2>14. v \notin ToSet(p.out.scheduled) /\ v # r
      BY <2>9 DEF AtWork, Apart
    <2>15. Kept(st0, y, p.out)
      <3>1. y.sending = p.st.sending
        BY <2>3, <2>8 DEF SchedFields
      <3> QED
        BY <2>11, <2>13, <3>1, KeptSame DEF Planned
    <2>16. /\ Kept(st0, x.st, x.out) /\ x.out.budget = p.out.budget
           /\ \A q \in DOMAIN y.seq : q # v => x.st.seq[q] = y.seq[q]
      BY <2>4, <2>11, <2>12, <2>13, <2>14, <2>15, PreemptKept
    <2>17. /\ Good(st0, x.st, run \ {v}, D) /\ x.st.running = y.running
           /\ DOMAIN x.out = OutFields
           /\ x.out.scheduled = p.out.scheduled /\ x.out.dropped = p.out.dropped
      BY <2>4, <2>11, <2>12, <2>13, PreemptMoves
    <2>18. x.st.seq[r] = p.st.seq[r]
      BY <2>8, <2>11, <2>14, <2>16 DEF AtWork
    <2> QED
      BY <2>5, <2>16, <2>17, <2>18 DEF GoesOn
  <1> QED
    BY <1>1, <1>2

(* The loop of _make_room, with the counters. *)
RoomKeeps(a, b, c, p, i) ==
    AtWork(a[1], p.st, p.out, a[2], b) /\ GoesOn(a[1], a[3], a[4], p.st, p.out, b)
RoomKeepLoop == INSTANCE Loops WITH Round <- RoomRound, Inv <- RoomKeeps

(* _make_room keeps the counters.                                          *)
LEMMA VictimsKept ==
    ASSUME NEW st0, NEW p, NEW still, NEW r, NEW n, AtWork(st0, p.st, p.out, still, r),
           Kept(st0, p.st, p.out)
    PROVE  LET x == PreemptVictims(p, r, n) IN GoesOn(st0, p.st, p.out, x.st, x.out, r)
  <1>1. PICK a : a = <<st0, still, p.st, p.out>>
    OBVIOUS
  <1>2. a[1] = st0 /\ a[2] = still /\ a[3] = p.st /\ a[4] = p.out
    BY <1>1
  <1>3. PICK k : k = Len(p.st.running)
    OBVIOUS
  <1>4. k \in Nat
    BY <1>3, GoodFacts DEF AtWork, Queue
  <1>5. RoomKeeps(a, r, n, p, 0)
    BY <1>2 DEF RoomKeeps, GoesOn
  <1>6. ASSUME NEW i \in 1..k, NEW q, RoomKeeps(a, r, n, q, i - 1)
        PROVE  RoomKeeps(a, r, n, RoomRound(a, r, n, q, i), i)
    <2>1. AtWork(st0, q.st, q.out, still, r) /\ GoesOn(st0, p.st, p.out, q.st, q.out, r)
      BY <1>2, <1>6 DEF RoomKeeps
    <2>2. PICK x : x = PreemptVictim(q, r, n)
      OBVIOUS
    <2>3. AtWork(st0, x.st, x.out, still, r)
      BY <2>1, <2>2, VictimPreempted
    <2>4. Kept(st0, q.st, q.out)
      BY <2>1 DEF GoesOn
    <2>5. GoesOn(st0, q.st, q.out, x.st, x.out, r)
      BY <2>1, <2>2, <2>4, VictimKept
    <2>6. GoesOn(st0, p.st, p.out, x.st, x.out, r)
      BY <2>1, <2>5 DEF GoesOn
    <2>7. RoomKeeps(a, r, n, x, i)
      BY <1>2, <2>3, <2>6 DEF RoomKeeps
    <2> QED
      BY <2>2, <2>7 DEF RoomRound
  <1>7. RoomKeeps(a, r, n, RoomKeepLoop!Loop(a, r, n, p, k), k)
    BY <1>4, <1>5, <1>6, CountsUp, RoomKeepLoop!LoopInvariant
  <1>8. PreemptVictims(p, r, n) = RoomKeepLoop!Loop(a, r, n, p, k)
    BY <1>3 DEF PreemptVictims, Repeat, RoomKeepLoop!Loop, RoomRound
  <1>9. PICK x : x = PreemptVictims(p, r, n)
    OBVIOUS
  <1>10. GoesOn(st0, p.st, p.out, x.st, x.out, r)
    BY <1>2, <1>7, <1>8, <1>9 DEF RoomKeeps
  <1> QED
    BY <1>9, <1>10

(* A row for r, and r is put back.                                         *)
LEMMA ServeRowKept ==
    ASSUME NEW st0, NEW st, NEW out, NEW still, NEW r, AtWork(st0, st, out, still, r),
           Kept(st0, st, out), out.budget > 0, Len(out.scheduled) < MaxNumSeqs,
           ~st.seq[r].is_prefill => 1 + st.seq[r].num_spec_tokens <= out.budget
    PROVE  LET p == ServeRow(st, out, still, r) IN Kept(st0, p.st, p.out)
  <1>1. PICK row : row = ScheduleRow(st, out, r)
    OBVIOUS
  <1>2. PICK run : run = ToSet(st.running) \cup ToSet(still) \cup {r}
    OBVIOUS
  <1>3. PICK D : D = ToSet(out.dropped)
    OBVIOUS
  <1>4. /\ Good(st0, st, run, D) /\ Planned(out, DOMAIN st0.seq) /\ r \in DOMAIN st.seq
        /\ st.seq[r].status = "RUNNING" /\ r \notin ToSet(out.scheduled)
    BY <1>2, <1>3, WorkFacts
  <1>5. Kept(st0, row.st, row.out)
    BY <1>1, <1>4, RowKept
  <1>6. PICK p : p = ServeRow(st, out, still, r)
    OBVIOUS
  <1>7. p.st = row.st /\ p.out = row.out
    BY <1>1, <1>6 DEF ServeRow
  <1> QED
    BY <1>5, <1>6, <1>7

(* r cannot be held and is given up.                                       *)
LEMMA GivenUpKept ==
    ASSUME NEW st0, NEW st, NEW run, NEW D, Good(st0, st, run, D), NEW r \in DOMAIN st.seq,
           st.seq[r].status = "RUNNING", NEW out, Planned(out, DOMAIN st0.seq), Kept(st0, st, out),
           r \notin ToSet(out.scheduled), NEW x, x = Drop(ReleaseBlocks(st, r), r, "capacity"),
           NEW run2, NEW D2, Good(st0, x, run2, D2),
           NEW told, told.scheduled = out.scheduled, told.budget = out.budget
    PROVE  Kept(st0, x, told)
  <1>1. PICK s : s = st.seq[r]
    OBVIOUS
  <1>2. PICK y : y = ReleaseBlocks(st, r)
    OBVIOUS
  <1>3. PICK u : u = y.seq[r]
    OBVIOUS
  <1>4. PICK t : t = x.seq[r]
    OBVIOUS
  <1>5. Shape(st) /\ DOMAIN st = SchedFields /\ IsSeq(s)
    BY <1>1, GoodFacts DEF Shape
  <1>6. Touches(st, y, r)
    BY <1>2, <1>5, ReleaseTouches
  <1>7. u = Deallocate(st.bm, s).seq
    BY <1>1, <1>2, <1>3, <1>5 DEF ReleaseBlocks, WithBlocks, SchedFields
  <1>8. /\ SameLife(s, u) /\ u.num_cached_tokens = 0 /\ u.is_prefill = s.is_prefill
        /\ u.num_spec_tokens = s.num_spec_tokens /\ u.num_scheduled_tokens = s.num_scheduled_tokens
    BY <1>5, <1>7, DeallocateLife, DeallocateCounts
  <1>9. DOMAIN y = SchedFields /\ r \in DOMAIN y.seq /\ IsSeq(u)
    BY <1>6, <1>8 DEF Touches, SameLife, SameTokens
  <1>10. /\ Alters(y, x, r) /\ SameTokens(u, t) /\ t.status = "FINISHED"
         /\ t.finish_reason = "capacity" /\ t.num_preemptions = u.num_preemptions
         /\ t.num_pending_tokens = 0 /\ t.num_cached_tokens = u.num_cached_tokens
         /\ t.is_prefill = u.is_prefill /\ t.num_spec_tokens = u.num_spec_tokens
         /\ t.num_scheduled_tokens = u.num_scheduled_tokens
    BY <1>2, <1>3, <1>4, <1>9, DropEnds
  <1>11. Alters(st, x, r)
    BY <1>6, <1>10 DEF Touches, Alters
  <1>12. SameTokens(s, t)
    BY <1>8, <1>10 DEF SameLife, SameTokens
  <1>13. Counted(s, FALSE)
    BY <1>1, KeptFacts
  <1>14. Counted(t, FALSE) /\ Reserves(s, t)
    <2>1. /\ t.status = "FINISHED" /\ t.num_pending_tokens = 0 /\ t.num_cached_tokens = 0
          /\ t.is_prefill = s.is_prefill /\ t.num_spec_tokens = s.num_spec_tokens
          /\ t.num_scheduled_tokens = s.num_scheduled_tokens
      BY <1>8, <1>10
    <2>2. t.num_cached_tokens \in Nat
      BY <2>1
    <2> QED
      BY <1>5, <1>12, <1>13, <2>1, <2>2, EndedCounted
  <1>15. LifeStep(s, t)
    <2>1. s.num_preemptions \in Nat /\ t.num_preemptions = s.num_preemptions /\ s.status = "RUNNING"
      BY <1>1, <1>5, <1>8, <1>10 DEF SameLife, IsSeq
    <2> QED
      BY <1>10, <1>12, <2>1 DEF LifeStep, IsFinished
  <1>16. /\ LifeStep(st.seq[r], x.seq[r]) /\ Counted(x.seq[r], FALSE)
         /\ Reserves(st.seq[r], x.seq[r])
    BY <1>1, <1>4, <1>14, <1>15
  <1>17. PICK z : z = x
    OBVIOUS
  <1>18. /\ Good(st0, z, run2, D2) /\ Alters(st, z, r) /\ LifeStep(st.seq[r], z.seq[r])
         /\ Counted(z.seq[r], FALSE) /\ Reserves(st.seq[r], z.seq[r])
    BY <1>11, <1>16, <1>17
  <1>19. Kept(st0, z, told)
    BY <1>18, KeptStep
  <1> QED
    BY <1>17, <1>19

(* A decoding sequence.                                                    *)
LEMMA DecodeKept ==
    ASSUME NEW st0, NEW st, NEW out, NEW still, NEW r, NEW n, AtWork(st0, st, out, still, r),
           Kept(st0, st, out), out.budget > 0, Len(out.scheduled) < MaxNumSeqs,
           1 + st.seq[r].num_spec_tokens <= out.budget
    PROVE  LET p == ServeDecode(MakeRoom(st, out, still, r, n), r, n) IN Kept(st0, p.st, p.out)
  <1>1. PICK start : start = [st |-> st, out |-> out]
    OBVIOUS
  <1>2. start.st = st /\ start.out = out
    BY <1>1
  <1>3. PICK room : room = PreemptVictims(start, r, n)
    OBVIOUS
  <1>4. AtWork(st0, room.st, room.out, still, r) /\ GoesOn(st0, st, out, room.st, room.out, r)
    <2>1. AtWork(st0, start.st, start.out, still, r) /\ Kept(st0, start.st, start.out)
      BY <1>2
    <2>2. AtWork(st0, room.st, room.out, still, r)
      BY <1>3, <2>1, VictimsPreempted
    <2>3. GoesOn(st0, start.st, start.out, room.st, room.out, r)
      BY <1>3, <2>1, VictimsKept
    <2> QED
      BY <1>2, <2>2, <2>3
  <1>5. PICK s : s = room.st.seq[r]
    OBVIOUS
  <1>6. PICK made : made = MakeRoom(st, out, still, r, n)
    OBVIOUS
  <1>7. PICK run : run = ToSet(room.st.running) \cup ToSet(still) \cup {r}
    OBVIOUS
  <1>8. PICK D : D = ToSet(room.out.dropped)
    OBVIOUS
  <1>9. /\ Good(st0, room.st, run, D) /\ Shape(room.st) /\ DOMAIN room.st = SchedFields
        /\ r \in DOMAIN room.st.seq /\ r \in run /\ r \notin ToSet(room.st.running)
        /\ IsSeq(s) /\ s.status = "RUNNING" /\ DOMAIN room.st.seq = DOMAIN st0.seq
        /\ Planned(room.out, DOMAIN st0.seq) /\ r \notin ToSet(room.out.scheduled)
    BY <1>4, <1>5, <1>7, <1>8, WorkFacts
  <1>10. /\ Kept(st0, room.st, room.out) /\ s = st.seq[r]
         /\ room.out.budget > 0 /\ Len(room.out.scheduled) < MaxNumSeqs
         /\ 1 + s.num_spec_tokens <= room.out.budget
    BY <1>4, <1>5 DEF GoesOn
  <1>11. ASSUME CanAppend(room.st.bm, s, n)
         PROVE  LET p == ServeDecode(made, r, n) IN Kept(st0, p.st, p.out)
    <2>1. made = [st |-> room.st, out |-> room.out, still |-> still, ok |-> TRUE]
      BY <1>1, <1>3, <1>5, <1>6, <1>11 DEF MakeRoom
    <2>2. made.st = room.st /\ made.out = room.out /\ made.still = still /\ made.ok
      BY <2>1
    <2>3. PICK grown : grown = MayAppend(room.st.bm, s, n)
      OBVIOUS
    <2>4. SameLife(s, grown.seq) /\ SameCounters(s, grown.seq)
      BY <1>9, <2>3, MayAppendLife, MayAppendCounts
    <2>5. PICK y : y = WithBlocks(room.st, r, grown)
      OBVIOUS
    <2>6. Touches(room.st, y, r)
      BY <1>5, <1>9, <2>4, <2>5, WithBlocksTouches
    <2>7. AtWork(st0, y, room.out, still, r)
      BY <1>4, <2>6, AtWorkTouch
    <2>8. y.seq[r] = grown.seq
      BY <1>9, <2>5 DEF WithBlocks, SchedFields
    <2>9. Counted(s, FALSE)
      BY <1>5, <1>9, <1>10, KeptFacts
    <2>10. Counted(y.seq[r], FALSE) /\ Reserves(s, y.seq[r])
      BY <2>4, <2>8, <2>9, SameCounted
    <2>11. Kept(st0, y, room.out)
      BY <1>5, <1>9, <1>10, <2>6, <2>10, KeptTouch
    <2>12. y.seq[r].num_spec_tokens = s.num_spec_tokens
      BY <2>4, <2>8 DEF SameCounters
    <2>13. PICK p : p = ServeRow(y, room.out, still, r)
      OBVIOUS
    <2>14. Kept(st0, p.st, p.out)
      BY <1>10, <2>7, <2>11, <2>12, <2>13, ServeRowKept
    <2>15. ServeDecode(made, r, n) = p
      BY <1>5, <2>2, <2>3, <2>5, <2>13 DEF ServeDecode
    <2> QED
      BY <2>14, <2>15
  <1>12. ASSUME ~CanAppend(room.st.bm, s, n)
         PROVE  LET p == ServeDecode(made, r, n) IN Kept(st0, p.st, p.out)
    <2>1. PICK pre : pre = Preempt(room.st, room.out, r)
      OBVIOUS
    <2>2. PICK gone : gone = Drop(ReleaseBlocks(room.st, r), r, "capacity")
      OBVIOUS
    <2>3. PICK told : told = [room.out EXCEPT !.dropped = Append(@, r)]
      OBVIOUS
    <2>4. PICK w : w = Append(still, r)
      OBVIOUS
    <2>5. PICK no : no = FALSE
      OBVIOUS
    <2>6. \/ made = [st |-> pre.st, out |-> pre.out, still |-> still, ok |-> no]
          \/ made = [st |-> room.st, out |-> room.out, still |-> w, ok |-> no]
          \/ made = [st |-> gone, out |-> told, still |-> still, ok |-> no]
      BY <1>1, <1>3, <1>5, <1>6, <1>12, <2>1, <2>2, <2>3, <2>4, <2>5 DEF MakeRoom
    <2>7. made.ok = no
      BY <2>6
    <2>8. ServeDecode(made, r, n) = made
      BY <2>5, <2>7 DEF ServeDecode
    <2>9. Kept(st0, pre.st, pre.out)
      BY <1>9, <1>10, <2>1, PreemptKept
    <2>10. Kept(st0, gone, told)
      <3>1. PICK y : y = ReleaseBlocks(room.st, r)
        OBVIOUS
      <3>2. Touches(room.st, y, r)
        BY <1>9, <3>1, ReleaseTouches
      <3>3. Good(st0, y, run, D)
        BY <1>9, <3>2, GoodTouch
      <3>4. /\ DOMAIN y = SchedFields /\ DOMAIN y.seq = DOMAIN st0.seq /\ Shape(y)
            /\ Queue(y.waiting, DOMAIN y.seq) /\ Queue(y.running, DOMAIN y.seq)
        BY <3>3, GoodFacts
      <3>5. r \in DOMAIN y.seq /\ y.seq[r].status = "RUNNING" /\ r \notin ToSet(y.waiting)
        BY <1>9, <3>2, <3>3, <3>4 DEF Good, Placed
      <3>6. ToSet(y.waiting) = ToSet(y.waiting) \ {r}
        BY <3>5
      <3>7. PICK run2 : run2 = run \ {r}
        OBVIOUS
      <3>8. gone = Drop(y, r, "capacity") /\ y.seq[r].status \in {"WAITING", "RUNNING"}
        BY <2>2, <3>1, <3>5
      <3>9. /\ Good(st0, y, run, D) /\ r \in DOMAIN y.seq /\ DOMAIN y = SchedFields
            /\ Queue(y.waiting, DOMAIN y.seq) /\ Queue(y.running, DOMAIN y.seq)
        BY <3>3, <3>4, <3>5
      <3>10. Good(st0, gone, run2, D \cup {r})
        BY <3>6, <3>7, <3>8, <3>9, DropMoves
      <3>11. r \in DOMAIN room.st.seq /\ room.st.seq[r].status = "RUNNING"
        BY <1>5, <1>9
      <3>12. told.scheduled = room.out.scheduled /\ told.budget = room.out.budget
        BY <1>9, <2>3 DEF Planned, OutFields
      <3> QED
        BY <1>9, <1>10, <2>2, <3>10, <3>11, <3>12, GivenUpKept
    <2>11. Kept(st0, made.st, made.out)
      BY <1>10, <2>6, <2>9, <2>10
    <2> QED
      BY <2>8, <2>11
  <1> QED
    BY <1>6, <1>11, <1>12

(* The drafts that the budget and max_tokens leave.                        *)
LEMMA TrimCounts ==
    ASSUME NEW s, IsSeq(s), Counted(s, FALSE), NEW r \in Reqs, NEW budget \in Nat, budget > 0,
           ~ReachesLimit(s, r), NEW t, t = TrimDrafts(s, r, budget), ~s.is_prefill,
           s.status = "RUNNING"
    PROVE  /\ SameLife(s, t) /\ Counted(t, FALSE) /\ Reserves(s, t)
           /\ 1 + t.num_spec_tokens <= budget
  <1>1. PICK num_left : num_left = MaxTokens[r] - (NumPlannedTokens(s) - s.num_prompt_tokens)
    OBVIOUS
  <1>2. PICK m : m = Min({budget, num_left})
    OBVIOUS
  <1>3. PICK keep : keep = Max({m - 1, 0})
    OBVIOUS
  <1>4. PICK k : k = Min({s.num_spec_tokens, keep})
    OBVIOUS
  <1>5. t = [s EXCEPT !.num_spec_tokens = k]
    BY <1>1, <1>2, <1>3, <1>4 DEF TrimDrafts
  <1>6. num_left \in Nat /\ num_left > 0
    <2>1. MaxTokens[r] \in Nat
      BY SchedulerAssumption
    <2>2. NumPlannedTokens(s) \in Int /\ s.num_prompt_tokens \in Nat
      BY DEF IsSeq, Counted, NumPlannedTokens, NumTokens
    <2> QED
      BY <1>1, <2>1, <2>2 DEF ReachesLimit
  <1>7. m \in Nat /\ m <= budget /\ m > 0
    BY <1>2, <1>6, LeastOf
  <1>8. keep = m - 1 /\ keep \in Nat
    <2>1. 0 \in Nat /\ m - 1 \in Nat /\ 0 <= m - 1
      BY <1>7
    <2>2. Max({m - 1, 0}) = m - 1
      BY <2>1, OfTwo
    <2> QED
      BY <1>3, <2>1, <2>2
  <1>9. k \in Nat /\ k <= keep
    BY <1>4, <1>8, LeastOf DEF Counted
  <1>10. SameLife(s, t)
    BY <1>5 DEF SameLife, SameTokens, IsSeq, SeqFields
  <1>11. /\ t.is_prefill = s.is_prefill /\ t.num_cached_tokens = s.num_cached_tokens
         /\ t.num_pending_tokens = s.num_pending_tokens /\ t.num_spec_tokens = k
         /\ t.num_scheduled_tokens = s.num_scheduled_tokens
    BY <1>5 DEF IsSeq, SeqFields
  <1>12. Counted(t, FALSE) /\ Reserves(s, t)
    BY <1>9, <1>10, <1>11 DEF SameLife, SameTokens, Counted, Reserves, IsFinished, NumTokens,
                              NumPlannedTokens
  <1>13. 1 + t.num_spec_tokens <= budget
    BY <1>7, <1>8, <1>9, <1>11
  <1> QED
    BY <1>10, <1>12, <1>13

(* One sequence of the loop.                                               *)
LEMMA OneKept ==
    ASSUME NEW st0, NEW st, NEW out, NEW still, NEW r, AtWork(st0, st, out, still, r),
           Kept(st0, st, out)
    PROVE  LET p == Serve(st, out, still, r) IN Kept(st0, p.st, p.out)
  <1>1. PICK s : s = st.seq[r]
    OBVIOUS
  <1>2. PICK trimmed : trimmed = TrimDrafts(s, r, out.budget)
    OBVIOUS
  <1>3. PICK n : n = trimmed.num_spec_tokens + NumLookaheadTokens
    OBVIOUS
  <1>4. PICK y : y = [st EXCEPT !.seq[r] = trimmed]
    OBVIOUS
  <1>5. /\ Shape(st) /\ DOMAIN st = SchedFields /\ r \in DOMAIN st.seq /\ IsSeq(s)
        /\ s.status = "RUNNING" /\ Planned(out, DOMAIN st0.seq) /\ r \notin ToSet(out.scheduled)
    BY <1>1, WorkFacts
  <1>6. PICK run : run = ToSet(st.running) \cup ToSet(still) \cup {r}
    OBVIOUS
  <1>7. PICK D : D = ToSet(out.dropped)
    OBVIOUS
  <1>8. Good(st0, st, run, D)
    BY <1>6, <1>7, WorkFacts
  <1>9. Counted(s, FALSE) /\ out.budget \in Nat /\ r \in Reqs
    BY <1>1, <1>5, KeptFacts DEF Kept, Booked, Shape
  <1>10. CASE StepIsFull(out) \/ ReachesLimit(s, r)
    <2>1. PICK p : p = [st |-> st, out |-> out, still |-> Append(still, r)]
      OBVIOUS
    <2>2. Serve(st, out, still, r) = p
      BY <1>1, <1>10, <2>1 DEF Serve
    <2>3. p.st = st /\ p.out = out
      BY <2>1
    <2> QED
      BY <2>2, <2>3
  <1>11. ASSUME ~(StepIsFull(out) \/ ReachesLimit(s, r))
         PROVE  out.budget > 0 /\ Len(out.scheduled) < MaxNumSeqs /\ ~ReachesLimit(s, r)
    <2>1. Len(out.scheduled) \in Nat /\ MaxNumSeqs \in Nat
      BY <1>5, SchedulerAssumption DEF Planned, Queue
    <2> QED
      BY <1>9, <1>11, <2>1 DEF StepIsFull
  <1>12. CASE ~(StepIsFull(out) \/ ReachesLimit(s, r)) /\ s.is_prefill
    <2>1. PICK p : p = ServeRow(st, out, still, r)
      OBVIOUS
    <2>2. Serve(st, out, still, r) = p
      BY <1>1, <1>12, <2>1 DEF Serve
    <2>3. st.seq[r].is_prefill
      BY <1>1, <1>12
    <2>4. Kept(st0, p.st, p.out)
      BY <1>11, <1>12, <2>1, <2>3, ServeRowKept
    <2> QED
      BY <2>2, <2>4
  <1>13. CASE ~(StepIsFull(out) \/ ReachesLimit(s, r)) /\ ~s.is_prefill
    <2>1. PICK p : p = ServeDecode(MakeRoom(y, out, still, r, n), r, n)
      OBVIOUS
    <2>2. Serve(st, out, still, r) = p
      BY <1>1, <1>2, <1>3, <1>4, <1>13, <2>1 DEF Serve
    <2>3. /\ SameLife(s, trimmed) /\ Counted(trimmed, FALSE) /\ Reserves(s, trimmed)
          /\ 1 + trimmed.num_spec_tokens <= out.budget
      BY <1>2, <1>5, <1>9, <1>11, <1>13, TrimCounts
    <2>4. Touches(st, y, r) /\ y.seq[r] = trimmed
      BY <1>1, <1>4, <1>5, <2>3, NewPlanTouches DEF SchedFields
    <2>5. AtWork(st0, y, out, still, r)
      BY <2>4, AtWorkTouch
    <2>6. Kept(st0, y, out)
      BY <1>1, <1>5, <1>8, <2>3, <2>4, KeptTouch
    <2>7. 1 + y.seq[r].num_spec_tokens <= out.budget
      BY <2>3, <2>4
    <2>8. Kept(st0, p.st, p.out)
      BY <1>11, <1>13, <2>1, <2>5, <2>6, <2>7, DecodeKept
    <2> QED
      BY <2>2, <2>8
  <1> QED
    BY <1>10, <1>12, <1>13

(* The next of the deque.                                                  *)
LEMMA NextKept ==
    ASSUME NEW st0, NEW p, Served(st0, p), p.st.running # << >>, Kept(st0, p.st, p.out)
    PROVE  LET x == ServeNext(p) IN Kept(st0, x.st, x.out)
  <1>1. PICK r : r = Head(p.st.running)
    OBVIOUS
  <1>2. PICK w : w = Tail(p.st.running)
    OBVIOUS
  <1>3. PICK y : y = [p.st EXCEPT !.running = w]
    OBVIOUS
  <1>4. PICK run : run = ToSet(p.st.running) \cup ToSet(p.still)
    OBVIOUS
  <1>5. PICK D : D = ToSet(p.out.dropped)
    OBVIOUS
  <1>6. Good(st0, p.st, run, D) /\ DOMAIN p.st.seq = DOMAIN st0.seq /\ DOMAIN p.st = SchedFields
    BY <1>4, <1>5, GoodFacts DEF Served
  <1>7. Queue(p.st.running, DOMAIN st0.seq)
    BY <1>6, GoodFacts
  <1>8. /\ Queue(w, DOMAIN st0.seq) /\ r \in DOMAIN st0.seq /\ r \notin ToSet(w)
        /\ ToSet(p.st.running) = ToSet(w) \cup {r}
    BY <1>1, <1>2, <1>7, QueueTail
  <1>9. Good(st0, y, run, D) /\ y.running = w /\ y.seq = p.st.seq
    BY <1>3, <1>6, <1>8, GoodDeque
  <1>10. /\ r \notin ToSet(p.still) /\ Apart(w, p.still)
         /\ run = ToSet(w) \cup ToSet(p.still) \cup {r}
    <2>1. ToSet(p.st.running) \cap ToSet(p.still) = {}
      BY DEF Served, Apart
    <2> QED
      BY <1>4, <1>8, <2>1 DEF Apart
  <1>11. /\ Queue(p.still, DOMAIN st0.seq) /\ Planned(p.out, DOMAIN st0.seq)
         /\ ToSet(p.out.scheduled) \subseteq ToSet(p.still)
    BY DEF Served
  <1>12. AtWork(st0, y, p.out, p.still, r)
    BY <1>5, <1>8, <1>9, <1>10, <1>11 DEF AtWork
  <1>13. Kept(st0, y, p.out)
    <2>1. y.sending = p.st.sending
      BY <1>3, <1>6 DEF SchedFields
    <2> QED
      BY <1>9, <1>11, <2>1, KeptSame DEF Planned
  <1>14. PICK x : x = Serve(y, p.out, p.still, r)
    OBVIOUS
  <1>15. Kept(st0, x.st, x.out)
    BY <1>12, <1>13, <1>14, OneKept
  <1>16. ServeNext(p) = x
    BY <1>1, <1>2, <1>3, <1>14 DEF ServeNext
  <1> QED
    BY <1>15, <1>16

(* The loop of schedule() over the running.                                *)
ServeKeeps(a, b, c, p, i) == Served(a, p) /\ Kept(a, p.st, p.out)
ServeKeepLoop == INSTANCE Loops WITH Round <- ServeRound, Inv <- ServeKeeps

(* The running are served and put back.                                    *)
LEMMA RunningKept ==
    ASSUME NEW st0, NEW p, Served(st0, p), Kept(st0, p.st, p.out)
    PROVE  LET x == ServeRunning(p) IN Kept(st0, x.st, x.out)
  <1>1. PICK k : k = Len(p.st.running)
    OBVIOUS
  <1>2. k \in Nat
    BY <1>1, GoodFacts DEF Served, Queue
  <1>3. ServeKeeps(st0, 0, 0, p, 0)
    BY DEF ServeKeeps
  <1>4. ASSUME NEW i \in 1..k, NEW q, ServeKeeps(st0, 0, 0, q, i - 1)
        PROVE  ServeKeeps(st0, 0, 0, ServeRound(st0, 0, 0, q, i), i)
    <2>1. Served(st0, q) /\ Kept(st0, q.st, q.out)
      BY <1>4 DEF ServeKeeps
    <2>2. PICK x : x = ServeNext(q)
      OBVIOUS
    <2>3. Served(st0, x) /\ Kept(st0, x.st, x.out)
      <3>1. CASE q.st.running = << >>
        <4>1. x = q
          BY <2>2, <3>1 DEF ServeNext
        <4> QED
          BY <2>1, <4>1
      <3>2. CASE q.st.running # << >>
        BY <2>1, <2>2, <3>2, NextServed, NextKept
      <3> QED
        BY <3>1, <3>2
    <2>4. ServeKeeps(st0, 0, 0, x, i)
      BY <2>3 DEF ServeKeeps
    <2> QED
      BY <2>2, <2>4 DEF ServeRound
  <1>5. ServeKeeps(st0, 0, 0, ServeKeepLoop!Loop(st0, 0, 0, p, k), k)
    BY <1>2, <1>3, <1>4, CountsUp, ServeKeepLoop!LoopInvariant
  <1>6. ServeAll(p) = ServeKeepLoop!Loop(st0, 0, 0, p, k)
    BY <1>1 DEF ServeAll, Repeat, ServeKeepLoop!Loop, ServeRound
  <1>7. PICK served : served = ServeAll(p)
    OBVIOUS
  <1>8. Served(st0, served) /\ Kept(st0, served.st, served.out)
    BY <1>5, <1>6, <1>7 DEF ServeKeeps
  <1>9. PICK y : y = [served.st EXCEPT !.running = served.still]
    OBVIOUS
  <1>10. DOMAIN served.st = SchedFields /\ Queue(served.out.scheduled, DOMAIN st0.seq)
    BY <1>8, GoodFacts DEF Served, Planned
  <1>11. y.seq = served.st.seq /\ y.sending = served.st.sending
    BY <1>9, <1>10 DEF SchedFields
  <1>12. Kept(st0, y, served.out)
    BY <1>8, <1>10, <1>11, KeptSame
  <1>13. PICK x : x = ServeRunning(p)
    OBVIOUS
  <1>14. x.st = y /\ x.out = served.out
    BY <1>7, <1>9, <1>13 DEF ServeRunning
  <1> QED
    BY <1>12, <1>13, <1>14

-----------------------------------------------------------------------------
(* Admission. *)

(* allocate: what the cache held counts as computed.                       *)
LEMMA AllocateCounts ==
    ASSUME NEW bm, NEW s, IsSeq(s), NEW n, NEW k, NEW t, t = Allocate(bm, s, n, k).seq
    PROVE  /\ t.is_prefill = s.is_prefill
           /\ t.num_cached_tokens = s.num_cached_tokens \/ t.num_cached_tokens = n * BlockSize
           /\ t.num_pending_tokens = s.num_pending_tokens
           /\ t.num_spec_tokens = s.num_spec_tokens
           /\ t.num_scheduled_tokens = s.num_scheduled_tokens
  <1> DEFINE hit   == TakeHits(bm, s, n)
             fresh == NumBlocksFor(s, k) - n
             table == [i \in 1..n |-> HitBlock(bm, s, i)]
             size  == n * BlockSize
  <1>1. t = IF s.block_table # << >> \/ NumFree(hit) < fresh THEN s
            ELSE [s EXCEPT !.block_table          = table \o SubSeq(hit.free, 1, fresh),
                           !.num_cached_tokens    = size,
                           !.num_published_blocks = n]
    BY DEF Allocate
  <1> HIDE DEF hit, fresh, table, size
  <1>2. /\ t.is_prefill = s.is_prefill
        /\ t.num_cached_tokens = s.num_cached_tokens \/ t.num_cached_tokens = size
        /\ t.num_pending_tokens = s.num_pending_tokens
        /\ t.num_spec_tokens = s.num_spec_tokens
        /\ t.num_scheduled_tokens = s.num_scheduled_tokens
    BY <1>1 DEF IsSeq, SeqFields
  <1> QED
    BY <1>2 DEF size

(* A waiting sequence is to be computed from its first token, or from the  *)
(* first that is not cached.                                               *)
LEMMA StartedCounts ==
    ASSUME NEW s, IsSeq(s), Counted(s, FALSE),
           s.status \in {"WAITING", "WAITING_FOR_REMOTE_KVS"},
           NEW t, SameLife(s, t), t.is_prefill = s.is_prefill,
           t.num_cached_tokens \in Nat, t.num_cached_tokens < NumTokens(s),
           t.num_pending_tokens = s.num_pending_tokens,
           t.num_spec_tokens = s.num_spec_tokens,
           t.num_scheduled_tokens = s.num_scheduled_tokens,
           NEW status \in {"RUNNING", "WAITING_FOR_REMOTE_KVS"},
           NEW u, u = [t EXCEPT !.status = status]
    PROVE  Counted(u, FALSE) /\ Reserves(s, u) /\ u.is_prefill
  <1>1. DOMAIN t = SeqFields /\ t.token_ids = s.token_ids
        /\ t.num_prompt_tokens = s.num_prompt_tokens /\ t.num_preemptions = s.num_preemptions
    BY DEF SameLife, SameTokens, IsSeq
  <1>2. /\ u.status = status /\ u.token_ids = s.token_ids
        /\ u.num_prompt_tokens = s.num_prompt_tokens /\ u.num_preemptions = s.num_preemptions
        /\ u.is_prefill = s.is_prefill /\ u.num_cached_tokens = t.num_cached_tokens
        /\ u.num_pending_tokens = s.num_pending_tokens /\ u.num_spec_tokens = s.num_spec_tokens
        /\ u.num_scheduled_tokens = s.num_scheduled_tokens
    BY <1>1 DEF SeqFields
  <1>3. s.is_prefill /\ s.is_prefill \in BOOLEAN /\ ~IsFinished(s) /\ ~IsFinished(u)
    BY <1>2 DEF Counted, IsFinished
  <1>4. NumTokens(u) = NumTokens(s)
    BY <1>2 DEF NumTokens
  <1>5. u.is_prefill /\ u.is_prefill \in BOOLEAN
    BY <1>2, <1>3
  <1>6. Counted(u, FALSE)
    BY <1>2, <1>3, <1>4, <1>5 DEF Counted
  <1> QED
    BY <1>2, <1>3, <1>5, <1>6 DEF Reserves

(* A waiting sequence has tokens, and none of them pending.                *)
LEMMA WaitingCounts ==
    ASSUME NEW s, IsSeq(s), Counted(s, FALSE), s.status = "WAITING"
    PROVE  NumTokens(s) \in Nat /\ NumTokens(s) > 0 /\ s.num_pending_tokens = 0
  <1>1. NumTokens(s) \in Nat /\ s.num_prompt_tokens \in Nat
    BY DEF IsSeq, NumTokens
  <1>2. s.num_prompt_tokens > 0 /\ s.num_prompt_tokens <= NumTokens(s)
    BY DEF Counted
  <1>3. s.num_pending_tokens = 0
    BY DEF Counted, IsFinished
  <1> QED
    BY <1>1, <1>2, <1>3

(* A sequence that is dropped when it has left the waiting queue.          *)
LEMMA DropCounts ==
    ASSUME NEW st, NEW y, DOMAIN y = SchedFields, y.seq = st.seq, y.sending = st.sending,
           NEW r \in DOMAIN st.seq, IsSeq(st.seq[r]), Counted(st.seq[r], FALSE),
           st.seq[r].status = "WAITING", NEW x, x = Drop(y, r, "capacity")
    PROVE  /\ Alters(st, x, r) /\ LifeStep(st.seq[r], x.seq[r])
           /\ Counted(x.seq[r], FALSE) /\ Reserves(st.seq[r], x.seq[r])
  <1>1. PICK s : s = st.seq[r]
    OBVIOUS
  <1>2. PICK t : t = x.seq[r]
    OBVIOUS
  <1>3. r \in DOMAIN y.seq /\ s = y.seq[r] /\ IsSeq(y.seq[r])
    BY <1>1
  <1>4. /\ Alters(y, x, r) /\ SameTokens(s, t) /\ t.status = "FINISHED"
        /\ t.finish_reason = "capacity" /\ t.num_preemptions = s.num_preemptions
        /\ t.num_pending_tokens = 0 /\ t.num_cached_tokens = s.num_cached_tokens
        /\ t.is_prefill = s.is_prefill /\ t.num_spec_tokens = s.num_spec_tokens
        /\ t.num_scheduled_tokens = s.num_scheduled_tokens
    BY <1>2, <1>3, DropEnds
  <1>5. Alters(st, x, r)
    BY <1>4 DEF Alters
  <1>6. s.num_cached_tokens \in Nat
    BY <1>1 DEF Counted
  <1>7. Counted(t, FALSE) /\ Reserves(s, t)
    BY <1>1, <1>4, <1>6, EndedCounted
  <1>8. s.num_preemptions \in Nat /\ ~IsFinished(s) /\ s.status = "WAITING"
    BY <1>1 DEF IsSeq, IsFinished
  <1>9. LifeStep(s, t)
    BY <1>4, <1>8 DEF LifeStep, IsFinished
  <1> QED
    BY <1>1, <1>2, <1>5, <1>7, <1>9

(* A request that can never be held is dropped from the queue.             *)
LEMMA WaitingKept ==
    ASSUME NEW st0, NEW p, Ready(st0, p), p.st.waiting # << >>, NEW r, r = Head(p.st.waiting),
           Kept(st0, p.st, p.out)
    PROVE  LET x == DropWaiting(p.st, p.out, r) IN Kept(st0, x.st, x.out)
  <1>1. PICK x : x = DropWaiting(p.st, p.out, r)
    OBVIOUS
  <1>2. PICK st : st = p.st
    OBVIOUS
  <1>3. PICK out : out = p.out
    OBVIOUS
  <1>4. PICK run : run = ToSet(st.running)
    OBVIOUS
  <1>5. PICK D : D = ToSet(out.dropped)
    OBVIOUS
  <1>6. /\ Good(st0, st, run, D) /\ Planned(out, DOMAIN st0.seq) /\ ToSet(out.scheduled) \subseteq run
        /\ Kept(st0, st, out)
    BY <1>2, <1>3, <1>4, <1>5 DEF Ready
  <1>7. PICK w : w = Tail(st.waiting)
    OBVIOUS
  <1>8. Waits(st, run, r, w)
    BY <1>2, <1>6, <1>7, HeadWaits
  <1>9. /\ r \in DOMAIN st.seq /\ IsSeq(st.seq[r]) /\ st.seq[r].status = "WAITING"
        /\ r \notin ToSet(out.scheduled)
    BY <1>6, <1>8 DEF Waits
  <1>10. PICK y : y = PolicyPop(st)
    OBVIOUS
  <1>11. DOMAIN st = SchedFields /\ DOMAIN out = OutFields
    BY <1>6, GoodFacts DEF Planned
  <1>12. DOMAIN y = SchedFields /\ y.seq = st.seq /\ y.sending = st.sending
    BY <1>10, <1>11 DEF PolicyPop, SchedFields
  <1>13. PICK gone : gone = Drop(y, r, "capacity")
    OBVIOUS
  <1>14. PICK told : told = [out EXCEPT !.dropped = Append(@, r)]
    OBVIOUS
  <1>15. x.st = gone /\ x.out = told
    BY <1>1, <1>2, <1>3, <1>10, <1>13, <1>14 DEF DropWaiting
  <1>16. Ready(st0, x)
    BY <1>1, WaitingDropped
  <1>17. Good(st0, gone, ToSet(gone.running), ToSet(told.dropped))
    BY <1>15, <1>16 DEF Ready
  <1>18. Counted(st.seq[r], FALSE)
    BY <1>6, <1>9, KeptFacts
  <1>19. /\ Alters(st, gone, r) /\ LifeStep(st.seq[r], gone.seq[r])
         /\ Counted(gone.seq[r], FALSE) /\ Reserves(st.seq[r], gone.seq[r])
    BY <1>9, <1>12, <1>13, <1>18, DropCounts
  <1>20. told.scheduled = out.scheduled /\ told.budget = out.budget
    BY <1>11, <1>14 DEF OutFields
  <1>21. Kept(st0, gone, told)
    BY <1>6, <1>9, <1>17, <1>19, <1>20, KeptStep
  <1> QED
    BY <1>1, <1>15, <1>21

(* An admitted request starts to run, or to load.                          *)
LEMMA AdmitKept ==
    ASSUME NEW st0, NEW p, Ready(st0, p), p.st.waiting # << >>, NEW r, r = Head(p.st.waiting),
           Kept(st0, p.st, p.out), NEW n \in Nat, n * BlockSize < NumTokens(p.st.seq[r]),
           Len(p.out.scheduled) < MaxNumSeqs, Exact => p.out.budget > 0
    PROVE  LET x == Admit(p.st, p.out, r, n) IN Kept(st0, x.st, x.out)
  <1>1. PICK st : st = p.st
    OBVIOUS
  <1>2. PICK out : out = p.out
    OBVIOUS
  <1>3. PICK run : run = ToSet(st.running)
    OBVIOUS
  <1>4. PICK D : D = ToSet(out.dropped)
    OBVIOUS
  <1>5. /\ Good(st0, st, run, D) /\ Planned(out, DOMAIN st0.seq) /\ ToSet(out.scheduled) \subseteq run
        /\ Kept(st0, st, out) /\ DOMAIN out = OutFields
    BY <1>1, <1>2, <1>3, <1>4 DEF Ready, Planned
  <1>6. PICK w : w = Tail(st.waiting)
    OBVIOUS
  <1>7. Waits(st, run, r, w)
    BY <1>1, <1>5, <1>6, HeadWaits
  <1>8. /\ r \in DOMAIN st.seq /\ IsSeq(st.seq[r]) /\ st.seq[r].status = "WAITING"
        /\ r \notin ToSet(out.scheduled) /\ DOMAIN st = SchedFields
    BY <1>5, <1>7, GoodFacts DEF Waits
  <1>9. PICK a : a = st.seq[r]
    OBVIOUS
  <1>10. Counted(a, FALSE) /\ a.is_prefill /\ a.num_cached_tokens \in Nat
         /\ a.num_cached_tokens < NumTokens(a)
    <2>1. Counted(a, FALSE) /\ ~IsFinished(a) /\ a.status # "RUNNING"
      BY <1>5, <1>8, <1>9, KeptFacts DEF IsFinished
    <2> QED
      BY <2>1 DEF Counted
  <1>11. PICK res : res = Allocate(st.bm, a, n, NumLookaheadTokens)
    OBVIOUS
  <1>12. PICK s : s = res.seq
    OBVIOUS
  <1>13. /\ SameLife(a, s) /\ s.is_prefill = a.is_prefill
         /\ s.num_cached_tokens = a.num_cached_tokens \/ s.num_cached_tokens = n * BlockSize
         /\ s.num_pending_tokens = a.num_pending_tokens
         /\ s.num_spec_tokens = a.num_spec_tokens
         /\ s.num_scheduled_tokens = a.num_scheduled_tokens
    <2>1. IsSeq(a) /\ s = Allocate(st.bm, a, n, NumLookaheadTokens).seq
      BY <1>8, <1>9, <1>11, <1>12
    <2>2. SameLife(a, s)
      BY <2>1, AllocateLife
    <2>3. PICK k : k = NumLookaheadTokens
      OBVIOUS
    <2>4. PICK bm : bm = st.bm
      OBVIOUS
    <2>5. s = Allocate(bm, a, n, k).seq
      BY <2>1, <2>3, <2>4
    <2> HIDE DEF CanAllocate
    <2> QED
      BY <2>1, <2>2, <2>5, AllocateCounts
  <1>14. s.num_cached_tokens \in Nat /\ s.num_cached_tokens < NumTokens(a)
    <2>1. n * BlockSize \in Nat
      BY Multiples
    <2>2. n * BlockSize < NumTokens(a)
      BY <1>1, <1>9
    <2> QED
      BY <1>10, <1>13, <2>1, <2>2
  <1>15. PICK z : z = WithBlocks(PolicyPop(st), r, res)
    OBVIOUS
  <1>16. /\ DOMAIN z = SchedFields /\ DOMAIN z.seq = DOMAIN st.seq /\ z.seq[r] = s
         /\ \A q \in DOMAIN st.seq : q # r => z.seq[q] = st.seq[q]
         /\ z.sending = st.sending
    BY <1>8, <1>12, <1>15 DEF WithBlocks, PolicyPop, SchedFields
  <1>17. PICK fl : fl = IF LoadsRemotely(s) THEN [z EXCEPT !.seq[r].do_remote_prefill = FALSE] ELSE z
    OBVIOUS
  <1>18. PICK t : t = fl.seq[r]
    OBVIOUS
  <1>19. /\ DOMAIN fl = SchedFields /\ DOMAIN fl.seq = DOMAIN st.seq
         /\ \A q \in DOMAIN st.seq : q # r => fl.seq[q] = st.seq[q]
         /\ fl.sending = st.sending
         /\ SameLife(a, t) /\ SameCounters(s, t)
    <2>1. CASE ~LoadsRemotely(s)
      <3>1. fl = z
        BY <1>17, <2>1
      <3>2. SameCounters(s, s)
        BY DEF SameCounters
      <3> QED
        BY <1>13, <1>16, <1>18, <3>1, <3>2
    <2>2. CASE LoadsRemotely(s)
      <3>1. PICK no : no = FALSE
        OBVIOUS
      <3>2. fl = [z EXCEPT !.seq[r].do_remote_prefill = no]
        BY <1>17, <2>2, <3>1
      <3>3. PICK v : v = [s EXCEPT !.do_remote_prefill = no]
        OBVIOUS
      <3>4. SameLife(a, v) /\ SameCounters(s, v)
        BY <1>13, <3>3 DEF SameCounters, SameLife, SameTokens, IsSeq, SeqFields
      <3>5. t = v
        BY <1>8, <1>16, <1>18, <3>2, <3>3 DEF SchedFields
      <3> QED
        BY <1>8, <1>16, <3>2, <3>4, <3>5 DEF SchedFields
    <2> QED
      BY <2>1, <2>2
  <1>20. /\ t.is_prefill = a.is_prefill
         /\ t.num_cached_tokens \in Nat /\ t.num_cached_tokens < NumTokens(a)
         /\ t.num_pending_tokens = a.num_pending_tokens
         /\ t.num_spec_tokens = a.num_spec_tokens
         /\ t.num_scheduled_tokens = a.num_scheduled_tokens
    BY <1>13, <1>14, <1>19 DEF SameCounters
  <1>21. PICK x : x = Admitted(z, out, r)
    OBVIOUS
  <1>22. Admit(p.st, p.out, r, n) = x
    BY <1>1, <1>2, <1>9, <1>11, <1>15, <1>21 DEF Admit
  <1>23. Good(st0, x.st, ToSet(x.st.running), ToSet(x.out.dropped))
    <2>1. Ready(st0, Admit(p.st, p.out, r, n))
      BY HeadAdmitted
    <2> QED
      BY <1>22, <2>1 DEF Ready
  <1>24. ASSUME NumExternalTokens(s, r) > 0 PROVE Kept(st0, x.st, x.out)
    <2>1. PICK l : l = (r :> [first |-> s.num_cached_tokens + 1, blocks |-> s.block_table]) @@ fl.loads
      OBVIOUS
    <2>2. PICK y : y = [fl EXCEPT !.seq[r].status = "WAITING_FOR_REMOTE_KVS",
                                  !.recving = @ \cup {r}, !.loads = l]
      OBVIOUS
    <2>3. x = [st |-> y, out |-> out]
      BY <1>16, <1>17, <1>19, <1>21, <1>24, <2>1, <2>2 DEF Admitted, SchedFields
    <2>4. x.st = y /\ x.out = out
      BY <2>3
    <2>5. PICK u : u = [t EXCEPT !.status = "WAITING_FOR_REMOTE_KVS"]
      OBVIOUS
    <2>6. /\ DOMAIN y.seq = DOMAIN st.seq /\ y.seq[r] = u /\ y.sending = st.sending
          /\ \A q \in DOMAIN st.seq : q # r => y.seq[q] = st.seq[q]
      BY <1>8, <1>18, <1>19, <2>2, <2>5 DEF SchedFields
    <2>7. Counted(u, FALSE) /\ Reserves(a, u)
      BY <1>8, <1>9, <1>10, <1>19, <1>20, <2>5, StartedCounts
    <2>8. LifeStep(a, u)
      BY <1>8, <1>9, <1>19, <2>5, StartedLife
    <2>9. /\ Alters(st, y, r) /\ LifeStep(st.seq[r], y.seq[r]) /\ Counted(y.seq[r], FALSE)
          /\ Reserves(st.seq[r], y.seq[r])
      BY <1>9, <2>6, <2>7, <2>8 DEF Alters
    <2>10. Kept(st0, y, out)
      <3>1. PICK run2 : run2 = ToSet(y.running)
        OBVIOUS
      <3>2. Good(st0, y, run2, D)
        BY <1>4, <1>23, <2>4, <3>1
      <3> QED
        BY <1>5, <1>8, <2>9, <3>2, KeptStep
    <2> QED
      BY <2>4, <2>10
  <1>25. ASSUME ~(NumExternalTokens(s, r) > 0) PROVE Kept(st0, x.st, x.out)
    <2>1. PICK v : v = Append(fl.running, r)
      OBVIOUS
    <2>2. PICK y : y = [fl EXCEPT !.seq[r].status = "RUNNING", !.running = v]
      OBVIOUS
    <2>3. x = ScheduleRow(y, out, r)
      BY <1>16, <1>17, <1>19, <1>21, <1>25, <2>1, <2>2 DEF Admitted, SchedFields
    <2>4. PICK u : u = [t EXCEPT !.status = "RUNNING"]
      OBVIOUS
    <2>5. /\ DOMAIN y = SchedFields /\ DOMAIN y.seq = DOMAIN st.seq /\ y.seq[r] = u
          /\ y.sending = st.sending
          /\ \A q \in DOMAIN st.seq : q # r => y.seq[q] = st.seq[q]
      BY <1>8, <1>18, <1>19, <2>2, <2>4 DEF SchedFields
    <2>6. Counted(u, FALSE) /\ Reserves(a, u) /\ u.is_prefill
      BY <1>8, <1>9, <1>10, <1>19, <1>20, <2>4, StartedCounts
    <2>7. LifeStep(a, u) /\ u.status = "RUNNING"
      BY <1>8, <1>9, <1>19, <2>4, StartedLife
    <2>8. /\ Alters(st, y, r) /\ LifeStep(st.seq[r], y.seq[r]) /\ Counted(y.seq[r], FALSE)
          /\ Reserves(st.seq[r], y.seq[r])
      BY <1>9, <2>5, <2>6, <2>7 DEF Alters
    <2>9. Touches(x.st, y, r)
      <3>1. PICK chunk : chunk = Min({NumTokens(u) - u.num_cached_tokens, out.budget})
        OBVIOUS
      <3>2. PICK m : m = IF u.is_prefill
                          THEN IF EnableChunkedPrefill /\ LongPrefillTokenThreshold > 0
                               THEN Min({chunk, LongPrefillTokenThreshold}) ELSE chunk
                          ELSE 1 + u.num_spec_tokens
        OBVIOUS
      <3>3. PICK y2 : y2 = [y EXCEPT !.seq[r].num_scheduled_tokens = m]
        OBVIOUS
      <3>4. x.st = y2
        BY <2>3, <2>5, <3>1, <3>2, <3>3 DEF ScheduleRow
      <3>5. PICK g : g = [u EXCEPT !.num_scheduled_tokens = m]
        OBVIOUS
      <3>6. SameLife(g, u)
        BY <2>7, <3>5 DEF LifeStep, SameLife, SameTokens, IsSeq, SeqFields
      <3>7. /\ DOMAIN y2.seq = DOMAIN y.seq /\ y2.seq[r] = g
            /\ \A q \in DOMAIN y.seq : q # r => y2.seq[q] = y.seq[q]
            /\ y2.waiting = y.waiting /\ y2.running = y.running /\ y2.live = y.live
            /\ y2.recving = y.recving /\ y2.sending = y.sending
        BY <1>8, <2>5, <3>3, <3>5 DEF SchedFields
      <3> QED
        BY <2>5, <3>4, <3>6, <3>7 DEF Touches
    <2>10. Good(st0, y, ToSet(x.st.running), ToSet(x.out.dropped))
      <3>1. r \in DOMAIN x.st.seq
        BY <1>8, <2>5, <2>9 DEF Touches
      <3> QED
        BY <1>23, <2>9, <3>1, GoodTouch
    <2>11. Kept(st0, y, out)
      <3>1. PICK run2 : run2 = ToSet(x.st.running)
        OBVIOUS
      <3>2. PICK D2 : D2 = ToSet(x.out.dropped)
        OBVIOUS
      <3>3. Good(st0, y, run2, D2)
        BY <2>10, <3>1, <3>2
      <3> QED
        BY <1>5, <1>8, <2>8, <3>3, KeptStep
    <2>12. /\ r \in DOMAIN y.seq /\ y.seq[r].status = "RUNNING" /\ y.seq[r].is_prefill
           /\ Len(out.scheduled) < MaxNumSeqs /\ (Exact => out.budget > 0)
      BY <1>2, <1>8, <2>5, <2>6, <2>7
    <2> QED
      BY <1>5, <1>8, <2>3, <2>10, <2>11, <2>12, RowKept
  <1>26. Kept(st0, x.st, x.out)
    BY <1>24, <1>25
  <1> QED
    BY <1>22, <1>26

(* The request at the head of the queue, before it is admitted.            *)
LEMMA HeadCounts ==
    ASSUME NEW st0, NEW p, Ready(st0, p), p.st.waiting # << >>, NEW r, r = Head(p.st.waiting),
           Kept(st0, p.st, p.out), NEW s, s = p.st.seq[r],
           NEW n, n = CanAllocate(p.st.bm, s, NumLookaheadTokens), n # -1
    PROVE  n \in Nat /\ n * BlockSize < NumTokens(s) /\ IsSeq(s)
  <1>1. PICK run : run = ToSet(p.st.running)
    OBVIOUS
  <1>2. PICK w : w = Tail(p.st.waiting)
    OBVIOUS
  <1>3. PICK D : D = ToSet(p.out.dropped)
    OBVIOUS
  <1>4. Good(st0, p.st, run, D) /\ ToSet(p.out.scheduled) \subseteq run
    BY <1>1, <1>3 DEF Ready
  <1>5. Waits(p.st, run, r, w)
    BY <1>2, <1>4, HeadWaits
  <1>6. r \in DOMAIN p.st.seq /\ IsSeq(s) /\ s.status = "WAITING" /\ r \notin ToSet(p.out.scheduled)
    BY <1>4, <1>5 DEF Waits
  <1>7. Counted(s, FALSE)
    BY <1>6, KeptFacts
  <1>8. NumTokens(s) \in Nat /\ NumTokens(s) > 0 /\ s.num_pending_tokens = 0
    BY <1>6, <1>7, WaitingCounts
  <1> QED
    BY <1>6, <1>8, HitsLeaveSome

(* A round of the admission of chunks.                                     *)
LEMMA NextAdmitKept ==
    ASSUME NEW st0, NEW p, Ready(st0, p), Kept(st0, p.st, p.out)
    PROVE  LET x == AdmitNext(p) IN Kept(st0, x.st, x.out)
  <1>1. PICK r : r = Head(p.st.waiting)
    OBVIOUS
  <1>2. PICK s : s = p.st.seq[r]
    OBVIOUS
  <1>3. PICK n : n = CanAllocate(p.st.bm, s, NumLookaheadTokens)
    OBVIOUS
  <1>4. PICK x : x = AdmitNext(p)
    OBVIOUS
  <1>5. x = IF p.st.waiting = << >> \/ StepIsFull(p.out) THEN p
            ELSE IF NeverFits(s) THEN DropWaiting(p.st, p.out, r)
            ELSE IF n = -1 THEN p
            ELSE Admit(p.st, p.out, r, n)
    BY <1>1, <1>2, <1>3, <1>4 DEF AdmitNext
  <1>6. CASE p.st.waiting = << >> \/ StepIsFull(p.out)
    BY <1>4, <1>5, <1>6
  <1>7. ASSUME p.st.waiting # << >>, ~StepIsFull(p.out) PROVE Kept(st0, x.st, x.out)
    <2>1. PICK gone : gone = DropWaiting(p.st, p.out, r)
      OBVIOUS
    <2>2. Kept(st0, gone.st, gone.out)
      BY <1>1, <1>7, <2>1, WaitingKept
    <2>3. PICK y : y = Admit(p.st, p.out, r, n)
      OBVIOUS
    <2>4. ASSUME n # -1 PROVE Kept(st0, y.st, y.out)
      <3>1. n \in Nat /\ n * BlockSize < NumTokens(s)
        BY <1>1, <1>2, <1>3, <1>7, <2>4, HeadCounts
      <3>2. p.out.budget > 0 /\ Len(p.out.scheduled) < MaxNumSeqs
        <4>1. p.out.budget \in Nat /\ Len(p.out.scheduled) \in Nat /\ MaxNumSeqs \in Nat
          BY SchedulerAssumption DEF Ready, Planned, Queue, Kept, Booked
        <4> QED
          BY <1>7, <4>1 DEF StepIsFull
      <3> QED
        BY <1>1, <1>2, <1>7, <2>3, <3>1, <3>2, AdmitKept
    <2> QED
      BY <1>5, <1>7, <2>1, <2>2, <2>3, <2>4
  <1> QED
    BY <1>4, <1>6, <1>7

(* The loops over the waiting.                                             *)
ReadyKept(a, b, c, p, i) == Ready(a, p) /\ Kept(a, p.st, p.out)
ChunkKeepLoop == INSTANCE Loops WITH Round <- ChunkRound, Inv <- ReadyKept
WholeKeepLoop == INSTANCE Loops WITH Round <- WholeRound, Inv <- ReadyKept

(* Admission with chunked prefill.                                         *)
LEMMA ChunkedKept ==
    ASSUME NEW st0, NEW p, Ready(st0, p), Kept(st0, p.st, p.out)
    PROVE  LET x == AdmitChunked(p) IN Kept(st0, x.st, x.out)
  <1>1. PICK k : k = Len(p.st.waiting)
    OBVIOUS
  <1>2. k \in Nat
    BY <1>1, GoodFacts DEF Ready, Queue
  <1>3. ReadyKept(st0, 0, 0, p, 0)
    BY DEF ReadyKept
  <1>4. ASSUME NEW i \in 1..k, NEW q, ReadyKept(st0, 0, 0, q, i - 1)
        PROVE  ReadyKept(st0, 0, 0, ChunkRound(st0, 0, 0, q, i), i)
    <2>1. Ready(st0, q) /\ Kept(st0, q.st, q.out)
      BY <1>4 DEF ReadyKept
    <2>2. PICK x : x = AdmitNext(q)
      OBVIOUS
    <2>3. Ready(st0, x) /\ Kept(st0, x.st, x.out)
      BY <2>1, <2>2, NextAdmitted, NextAdmitKept
    <2> QED
      BY <2>2, <2>3 DEF ReadyKept, ChunkRound
  <1>5. ReadyKept(st0, 0, 0, ChunkKeepLoop!Loop(st0, 0, 0, p, k), k)
    BY <1>2, <1>3, <1>4, CountsUp, ChunkKeepLoop!LoopInvariant
  <1>6. AdmitChunked(p) = ChunkKeepLoop!Loop(st0, 0, 0, p, k)
    BY <1>1 DEF AdmitChunked, Repeat, ChunkKeepLoop!Loop, ChunkRound
  <1> QED
    BY <1>5, <1>6 DEF ReadyKept

(* With chunking off, a prompt that is admitted to be computed here fits   *)
(* what is left of the budget and is not empty.                            *)
LEMMA NextWholeKept ==
    ASSUME NEW st0, NEW p, Ready(st0, p), Kept(st0, p.st, p.out), ~EnableChunkedPrefill
    PROVE  LET x == AdmitNextWhole(p) IN Kept(st0, x.st, x.out)
  <1>1. PICK r : r = Head(p.st.waiting)
    OBVIOUS
  <1>2. PICK s : s = p.st.seq[r]
    OBVIOUS
  <1>3. PICK n : n = CanAllocate(p.st.bm, s, NumLookaheadTokens)
    OBVIOUS
  <1>4. PICK m : m = IF LoadsRemotely(s) THEN 0 ELSE NumTokens(s) - n * BlockSize
    OBVIOUS
  <1>5. PICK x : x = AdmitNextWhole(p)
    OBVIOUS
  <1>6. x = IF p.st.waiting = << >> \/ Len(p.out.scheduled) >= MaxNumSeqs THEN p
            ELSE IF NeverFits(s) THEN DropWaiting(p.st, p.out, r)
            ELSE IF n = -1 THEN p
            ELSE IF m > MaxNumBatchedTokens THEN DropWaiting(p.st, p.out, r)
            ELSE IF m > p.out.budget THEN p
            ELSE Admit(p.st, p.out, r, n)
    BY <1>1, <1>2, <1>3, <1>4, <1>5 DEF AdmitNextWhole
  <1>7. CASE p.st.waiting = << >> \/ Len(p.out.scheduled) >= MaxNumSeqs
    BY <1>5, <1>6, <1>7
  <1>8. ASSUME p.st.waiting # << >>, ~(Len(p.out.scheduled) >= MaxNumSeqs)
        PROVE  Kept(st0, x.st, x.out)
    <2>1. PICK gone : gone = DropWaiting(p.st, p.out, r)
      OBVIOUS
    <2>2. Kept(st0, gone.st, gone.out)
      BY <1>1, <1>8, <2>1, WaitingKept
    <2>3. PICK y : y = Admit(p.st, p.out, r, n)
      OBVIOUS
    <2>4. ASSUME n # -1, ~(m > p.out.budget) PROVE Kept(st0, y.st, y.out)
      <3>1. n \in Nat /\ n * BlockSize < NumTokens(s) /\ IsSeq(s)
        BY <1>1, <1>2, <1>3, <1>8, <2>4, HeadCounts
      <3>2. p.out.budget \in Nat /\ Len(p.out.scheduled) \in Nat /\ MaxNumSeqs \in Nat
        BY SchedulerAssumption DEF Ready, Planned, Queue, Kept, Booked
      <3>3. Len(p.out.scheduled) < MaxNumSeqs
        BY <1>8, <3>2
      <3>4. ASSUME Exact PROVE p.out.budget > 0
        <4>1. ~LoadsRemotely(s)
          BY <3>4 DEF Exact, LoadsRemotely
        <4>2. m = NumTokens(s) - n * BlockSize
          BY <1>4, <4>1
        <4>3. n * BlockSize \in Nat /\ NumTokens(s) \in Nat
          <5>1. n * BlockSize \in Nat
            BY <3>1, Multiples
          <5>2. NumTokens(s) \in Nat
            BY <3>1 DEF IsSeq, NumTokens
          <5> QED
            BY <5>1, <5>2
        <4>5. m > 0 /\ m \in Nat
          BY <3>1, <4>2, <4>3
        <4> QED
          BY <2>4, <3>2, <4>5
      <3> QED
        BY <1>1, <1>2, <1>8, <2>3, <3>1, <3>3, <3>4, AdmitKept
    <2> QED
      BY <1>6, <1>8, <2>1, <2>2, <2>3, <2>4
  <1> QED
    BY <1>5, <1>7, <1>8

(* _schedule_whole_prompts.                                                *)
LEMMA WholeKept ==
    ASSUME NEW st0, NEW p, Ready(st0, p), Kept(st0, p.st, p.out), ~EnableChunkedPrefill
    PROVE  LET x == AdmitWholePrompts(p) IN Kept(st0, x.st, x.out)
  <1>1. PICK k : k = Len(p.st.waiting)
    OBVIOUS
  <1>2. k \in Nat
    BY <1>1, GoodFacts DEF Ready, Queue
  <1>3. ReadyKept(st0, 0, 0, p, 0)
    BY DEF ReadyKept
  <1>4. ASSUME NEW i \in 1..k, NEW q, ReadyKept(st0, 0, 0, q, i - 1)
        PROVE  ReadyKept(st0, 0, 0, WholeRound(st0, 0, 0, q, i), i)
    <2>1. Ready(st0, q) /\ Kept(st0, q.st, q.out)
      BY <1>4 DEF ReadyKept
    <2>2. PICK x : x = AdmitNextWhole(q)
      OBVIOUS
    <2>3. Ready(st0, x) /\ Kept(st0, x.st, x.out)
      BY <2>1, <2>2, NextAdmittedWhole, NextWholeKept
    <2> QED
      BY <2>2, <2>3 DEF ReadyKept, WholeRound
  <1>5. ReadyKept(st0, 0, 0, WholeKeepLoop!Loop(st0, 0, 0, p, k), k)
    BY <1>2, <1>3, <1>4, CountsUp, WholeKeepLoop!LoopInvariant
  <1>6. AdmitWholePrompts(p) = WholeKeepLoop!Loop(st0, 0, 0, p, k)
    BY <1>1 DEF AdmitWholePrompts, Repeat, WholeKeepLoop!Loop, WholeRound
  <1> QED
    BY <1>5, <1>6 DEF ReadyKept

(* A step without rows.                                                    *)
LEMMA BookedNone ==
    ASSUME NEW st, NEW out, out.scheduled = << >>, out.budget = MaxNumBatchedTokens
    PROVE  Booked(st, out)
  <1>1. PICK f : f = [i \in 0..0 |-> 0]
    OBVIOUS
  <1>2. PICK e : e = << >>
    OBVIOUS
  <1>3. Len(e) = 0 /\ out.scheduled = e
    BY <1>2
  <1>4. SumsUp(f, st, e) /\ f[Len(e)] = 0
    BY <1>1, <1>3 DEF SumsUp
  <1>5. MaxNumBatchedTokens \in Nat /\ MaxNumSeqs \in Nat
    BY SchedulerAssumption
  <1> QED
    BY <1>3, <1>4, <1>5 DEF Booked

(* The scheduler between two calls, as the counters see it. *)
Counts(st) ==
    /\ \A q \in DOMAIN st.seq : Counted(st.seq[q], FALSE)
    /\ \A q \in st.sending \cap DOMAIN st.seq : IsFinished(st.seq[q])

(* A plan not yet begun.                                                   *)
LEMMA KeptStart ==
    ASSUME NEW st0, NEW st, NEW out, out.scheduled = << >>, out.budget = MaxNumBatchedTokens,
           Counts(st), \A q \in DOMAIN st.seq : Reserves(st0.seq[q], st.seq[q])
    PROVE  Kept(st0, st, out)
  <1>1. ASSUME NEW q PROVE (q \in ToSet(out.scheduled)) = FALSE
    BY QueueEmpty
  <1>2. Booked(st, out)
    BY BookedNone
  <1> QED
    BY <1>1, <1>2 DEF Kept, Counts

(* schedule(), after whole prompts were tried.                             *)
LEMMA RestKept ==
    ASSUME NEW st0, NEW p, Ready(st0, p), Kept(st0, p.st, p.out)
    PROVE  LET x == AfterWholePrompts(p) IN Kept(st0, x.st, x.out)
  <1>1. PICK y : y = ByUrgency(p.st)
    OBVIOUS
  <1>2. PICK o : o = [NewOutput EXCEPT !.dropped = p.out.dropped]
    OBVIOUS
  <1>3. PICK q : q = [st |-> y, out |-> o, still |-> << >>]
    OBVIOUS
  <1>4. q.st = y /\ q.out = o /\ q.still = << >>
    BY <1>3
  <1>5. PICK run : run = ToSet(p.st.running)
    OBVIOUS
  <1>6. PICK D : D = ToSet(p.out.dropped)
    OBVIOUS
  <1>7. Good(st0, p.st, run, D)
    BY <1>5, <1>6 DEF Ready
  <1>8. Good(st0, y, run, D) /\ ToSet(y.running) = run
    BY <1>1, <1>5, <1>7, UrgencySorts
  <1>9. /\ DOMAIN o = OutFields /\ o.scheduled = << >> /\ o.dropped = p.out.dropped
        /\ o.budget = MaxNumBatchedTokens
    BY <1>2 DEF NewOutput, OutFields
  <1>10. Planned(o, DOMAIN st0.seq) /\ ToSet(o.scheduled) = {}
    BY <1>9, QueueEmpty DEF Ready, Planned
  <1>11. PICK e : e = << >>
    OBVIOUS
  <1>12. Queue(e, DOMAIN st0.seq) /\ ToSet(e) = {}
    BY <1>11, QueueEmpty
  <1>13. Apart(y.running, e) /\ ToSet(y.running) \cup ToSet(e) = run
    BY <1>8, <1>12 DEF Apart
  <1>14. Good(st0, q.st, ToSet(q.st.running) \cup ToSet(q.still), ToSet(q.out.dropped))
    BY <1>4, <1>6, <1>8, <1>9, <1>11, <1>13
  <1>15. Served(st0, q)
    BY <1>4, <1>10, <1>11, <1>12, <1>13, <1>14 DEF Served
  <1>16. ASSUME p.out.scheduled = << >>
         PROVE  LET x == Admitting(Serving(p)) IN Kept(st0, x.st, x.out)
    <2>1. y.seq = p.st.seq /\ y.sending = p.st.sending
      <3>1. DOMAIN p.st = SchedFields
        BY <1>7, GoodFacts
      <3> QED
        BY <1>1, <3>1 DEF ByUrgency, SchedFields
    <2>2. Counts(y) /\ \A r \in DOMAIN y.seq : Reserves(st0.seq[r], y.seq[r])
      <3>1. ASSUME NEW r PROVE (r \in ToSet(p.out.scheduled)) = FALSE
        BY <1>16, QueueEmpty
      <3>2. ASSUME NEW r \in DOMAIN y.seq
            PROVE  Counted(y.seq[r], FALSE) /\ Reserves(st0.seq[r], y.seq[r])
        <4>1. /\ Counted(p.st.seq[r], r \in ToSet(p.out.scheduled))
              /\ Reserves(st0.seq[r], p.st.seq[r])
          BY <2>1, <3>2 DEF Kept
        <4> QED
          BY <2>1, <3>1, <4>1
      <3>3. \A r \in y.sending \cap DOMAIN y.seq : IsFinished(y.seq[r])
        BY <2>1 DEF Kept
      <3> QED
        BY <3>2, <3>3 DEF Counts
    <2>3. Kept(st0, y, o)
      BY <1>9, <2>2, KeptStart
    <2>4. PICK x : x = ServeRunning(q)
      OBVIOUS
    <2>5. Ready(st0, x)
      BY <1>15, <2>4, RunningServed
    <2>6. Kept(st0, x.st, x.out)
      BY <1>4, <1>15, <2>3, <2>4, RunningKept
    <2>7. PICK z : z = AdmitChunked(x)
      OBVIOUS
    <2>8. Kept(st0, z.st, z.out)
      BY <2>5, <2>6, <2>7, ChunkedKept
    <2>9. Serving(p) = x
      BY <1>1, <1>2, <1>3, <2>4 DEF Serving
    <2>10. Admitting(x) = x \/ Admitting(x) = z
      BY <2>7 DEF Admitting
    <2> QED
      BY <2>6, <2>8, <2>9, <2>10
  <1> QED
    BY <1>16 DEF AfterWholePrompts

(* schedule(): the plan and the counters agree.                            *)
LEMMA ScheduleKept ==
    ASSUME NEW st, Settled(st), Counts(st)
    PROVE  LET x == Schedule(st) IN Kept(st, x.st, x.out)
  <1>1. PICK o : o = NewOutput
    OBVIOUS
  <1>2. PICK p : p = [st |-> st, out |-> o]
    OBVIOUS
  <1>3. p.st = st /\ p.out = o
    BY <1>2
  <1>4. PICK run : run = ToSet(st.running)
    OBVIOUS
  <1>5. Good(st, st, run, {})
    BY <1>4, GoodStart
  <1>6. DOMAIN o = OutFields /\ o.scheduled = << >> /\ o.dropped = << >> /\ o.budget = MaxNumBatchedTokens
    BY <1>1 DEF NewOutput, OutFields
  <1>7. Planned(o, DOMAIN st.seq) /\ ToSet(o.scheduled) = {} /\ ToSet(o.dropped) = {}
    BY <1>6, QueueEmpty DEF Planned, List
  <1>8. Ready(st, p)
    BY <1>3, <1>4, <1>5, <1>7 DEF Ready
  <1>9. Kept(st, p.st, p.out)
    <2>1. \A q \in DOMAIN st.seq : Reserves(st.seq[q], st.seq[q])
      <3> SUFFICES ASSUME NEW q \in DOMAIN st.seq PROVE Reserves(st.seq[q], st.seq[q])
        OBVIOUS
      <3>1. Counted(st.seq[q], FALSE)
        BY DEF Counts
      <3> QED
        BY <3>1 DEF Counted, Reserves
    <2> QED
      BY <1>3, <1>6, <2>1, KeptStart
  <1>10. PICK w : w = AdmitWholePrompts(p)
    OBVIOUS
  <1>11. Ready(st, w)
    BY <1>8, <1>10, WholeAdmitted
  <1>12. PICK q : q = IF EnableChunkedPrefill THEN p ELSE w
    OBVIOUS
  <1>13. Ready(st, q) /\ Kept(st, q.st, q.out)
    <2>1. CASE EnableChunkedPrefill
      BY <1>8, <1>9, <1>12, <2>1
    <2>2. CASE ~EnableChunkedPrefill
      <3>1. Kept(st, w.st, w.out)
        BY <1>8, <1>9, <1>10, <2>2, WholeKept
      <3> QED
        BY <1>11, <1>12, <2>2, <3>1
    <2> QED
      BY <2>1, <2>2
  <1>14. PICK x : x = AfterWholePrompts(q)
    OBVIOUS
  <1>15. Kept(st, x.st, x.out)
    BY <1>13, <1>14, RestKept
  <1>16. Schedule(st) = x
    BY <1>1, <1>2, <1>10, <1>12, <1>14 DEF Schedule
  <1> QED
    BY <1>15, <1>16

-----------------------------------------------------------------------------
(* Transfers that end. *)

(* Running sequences are left alone, finished ones stay so. *)
Spares(st, x) ==
    \A q \in DOMAIN st.seq :
        /\ st.seq[q].status = "RUNNING" => x.seq[q] = st.seq[q]
        /\ IsFinished(st.seq[q]) => IsFinished(x.seq[q])

(* Sparing composes.                                                       *)
LEMMA SparesTrans ==
    ASSUME NEW st, NEW x, NEW y, DOMAIN x.seq = DOMAIN st.seq, Spares(st, x), Spares(x, y)
    PROVE  Spares(st, y)
  BY DEF Spares

(* The blocks of a finished sequence are released.                         *)
LEMMA ReleasedCounts ==
    ASSUME NEW bm, NEW s, IsSeq(s), Counted(s, FALSE), IsFinished(s),
           NEW t, t = Deallocate(bm, s).seq
    PROVE  /\ Counted(t, FALSE) /\ Reserves(s, t) /\ SameLife(s, t) /\ LifeStep(s, t)
           /\ IsFinished(t)
  <1>1. /\ SameLife(s, t) /\ t.is_prefill = s.is_prefill /\ t.num_cached_tokens = 0
        /\ t.num_pending_tokens = s.num_pending_tokens
        /\ t.num_spec_tokens = s.num_spec_tokens
        /\ t.num_scheduled_tokens = s.num_scheduled_tokens
    BY DeallocateLife, DeallocateCounts
  <1>2. SameTokens(s, t) /\ t.status = "FINISHED" /\ t.num_pending_tokens = 0
    BY <1>1 DEF SameLife, Counted, IsFinished
  <1>3. t.num_cached_tokens \in Nat
    BY <1>1
  <1>4. Counted(t, FALSE) /\ Reserves(s, t)
    BY <1>1, <1>2, <1>3, EndedCounted
  <1>5. LifeStep(s, t)
    BY <1>1, SameLifeIsStep
  <1> QED
    BY <1>1, <1>2, <1>4, <1>5 DEF IsFinished

(* A send ends.                                                            *)
LEMMA SendKept ==
    ASSUME NEW st0, NEW st, NEW run, NEW D, Good(st0, st, run, D), NEW r \in DOMAIN st.seq,
           IsFinished(st.seq[r]), NEW out, Planned(out, DOMAIN st0.seq), Kept(st0, st, out),
           ToSet(out.scheduled) \subseteq run
    PROVE  LET x == EndSend(st, r) IN Kept(st0, x, out) /\ Spares(st, x)
  <1>1. PICK y : y = [st EXCEPT !.sending = @ \ {r}]
    OBVIOUS
  <1>2. PICK x : x = EndSend(st, r)
    OBVIOUS
  <1>3. PICK s : s = st.seq[r]
    OBVIOUS
  <1>4. PICK res : res = Deallocate(st.bm, s)
    OBVIOUS
  <1>5. PICK t : t = res.seq
    OBVIOUS
  <1>6. DOMAIN st = SchedFields /\ IsSeq(s) /\ Placed(st, run)
    BY <1>3 DEF Good, Shape
  <1>7. r \notin ToSet(out.scheduled)
    BY <1>6 DEF Placed, IsFinished
  <1>8. DOMAIN y = SchedFields /\ y.seq = st.seq /\ y.bm = st.bm /\ y.sending = st.sending \ {r}
    BY <1>1, <1>6 DEF SchedFields
  <1>9. x = WithBlocks(y, r, res)
    BY <1>1, <1>2, <1>3, <1>4, <1>8 DEF EndSend, ReleaseBlocks
  <1>10. /\ DOMAIN x.seq = DOMAIN st.seq /\ x.seq[r] = t /\ x.sending \subseteq st.sending
         /\ \A q \in DOMAIN st.seq : q # r => x.seq[q] = st.seq[q]
    BY <1>5, <1>8, <1>9 DEF WithBlocks, SchedFields
  <1>11. Counted(s, FALSE)
    BY <1>3, <1>7, KeptFacts
  <1>12. Counted(t, FALSE) /\ Reserves(s, t) /\ LifeStep(s, t) /\ IsFinished(t)
    BY <1>3, <1>4, <1>5, <1>6, <1>11, ReleasedCounts
  <1>13. Good(st0, x, run, D)
    BY <1>2, SendEnded
  <1>14. /\ Alters(st, x, r) /\ LifeStep(st.seq[r], x.seq[r]) /\ Counted(x.seq[r], FALSE)
         /\ Reserves(st.seq[r], x.seq[r])
    BY <1>3, <1>10, <1>12 DEF Alters
  <1>15. Kept(st0, x, out)
    BY <1>7, <1>13, <1>14, KeptStep
  <1>16. Spares(st, x)
    BY <1>10, <1>12 DEF Spares, IsFinished
  <1> QED
    BY <1>2, <1>15, <1>16

(* A load ends.                                                            *)
LEMMA LoadKept ==
    ASSUME NEW st0, NEW st, NEW run, NEW D, Good(st0, st, run, D), run = ToSet(st.running),
           NEW r \in DOMAIN st.seq, r \in st.recving, NEW loaded,
           NEW out, Planned(out, DOMAIN st0.seq), Kept(st0, st, out),
           ToSet(out.scheduled) \subseteq run
    PROVE  LET x == EndLoad(st, r, loaded) IN Kept(st0, x, out) /\ Spares(st, x)
  <1>1. PICK gone : gone = [st EXCEPT !.recving = @ \ {r}]
    OBVIOUS
  <1>2. DOMAIN st = SchedFields /\ Placed(st, run) /\ IsSeq(st.seq[r])
    BY DEF Good, Shape
  <1>3. /\ DOMAIN gone = SchedFields /\ gone.seq = st.seq /\ gone.bm = st.bm
        /\ gone.sending = st.sending
    BY <1>1, <1>2 DEF SchedFields
  <1>4. PICK x : x = EndLoad(st, r, loaded)
    OBVIOUS
  <1>5. PICK s : s = st.seq[r]
    OBVIOUS
  <1>6. s.status \in {"FINISHED", "WAITING_FOR_REMOTE_KVS"}
    BY <1>2, <1>5 DEF Placed
  <1>7. r \notin ToSet(out.scheduled)
    BY <1>2, <1>5, <1>6 DEF Placed
  <1>8. Counted(s, FALSE) /\ IsSeq(s)
    BY <1>2, <1>5, <1>7, KeptFacts
  <1>9. ASSUME IsFinished(s)
        PROVE  /\ Alters(st, x, r) /\ LifeStep(s, x.seq[r]) /\ Counted(x.seq[r], FALSE)
               /\ Reserves(s, x.seq[r]) /\ IsFinished(x.seq[r])
    <2>1. PICK res : res = Deallocate(st.bm, s)
      OBVIOUS
    <2>2. PICK t : t = res.seq
      OBVIOUS
    <2>3. x = WithBlocks(gone, r, res)
      BY <1>1, <1>3, <1>4, <1>5, <1>9, <2>1 DEF EndLoad, ReleaseBlocks
    <2>4. /\ DOMAIN x.seq = DOMAIN st.seq /\ x.seq[r] = t /\ x.sending = st.sending
          /\ \A q \in DOMAIN st.seq : q # r => x.seq[q] = st.seq[q]
      BY <1>3, <2>2, <2>3 DEF WithBlocks, SchedFields
    <2>5. Counted(t, FALSE) /\ Reserves(s, t) /\ LifeStep(s, t) /\ IsFinished(t)
      BY <1>8, <1>9, <2>1, <2>2, ReleasedCounts
    <2> QED
      BY <2>4, <2>5 DEF Alters
  <1>10. ASSUME ~IsFinished(s)
         PROVE  /\ Alters(st, x, r) /\ LifeStep(s, x.seq[r]) /\ Counted(x.seq[r], FALSE)
                /\ Reserves(s, x.seq[r])
    <2>1. PICK computed : computed = s.num_prompt_tokens - 1
      OBVIOUS
    <2>2. PICK filled : filled = [s EXCEPT !.num_cached_tokens = computed]
      OBVIOUS
    <2>3. PICK hashed : hashed = HashBlocks(st.bm, filled, computed)
      OBVIOUS
    <2>4. PICK y : y = IF loaded THEN WithBlocks(gone, r, hashed) ELSE gone
      OBVIOUS
    <2>5. PICK t : t = y.seq[r]
      OBVIOUS
    <2>6. /\ computed \in Nat /\ computed < NumTokens(s)
          /\ s.num_cached_tokens \in Nat /\ s.num_cached_tokens < NumTokens(s)
      <3>1. s.is_prefill
        BY <1>6, <1>8, <1>10 DEF Counted
      <3>2. s.num_prompt_tokens \in Nat /\ NumTokens(s) \in Nat
        BY <1>8 DEF IsSeq, NumTokens
      <3> QED
        BY <1>8, <1>10, <2>1, <3>1, <3>2 DEF Counted
    <2>7. /\ IsSeq(filled) /\ SameLife(s, filled) /\ filled.num_cached_tokens = computed
          /\ filled.is_prefill = s.is_prefill
          /\ filled.num_pending_tokens = s.num_pending_tokens
          /\ filled.num_spec_tokens = s.num_spec_tokens
          /\ filled.num_scheduled_tokens = s.num_scheduled_tokens
      BY <1>8, <2>2 DEF SameLife, SameTokens, IsSeq, SeqFields
    <2>8. SameLife(s, hashed.seq) /\ SameCounters(filled, hashed.seq)
      <3>1. SameLife(filled, hashed.seq) /\ SameCounters(filled, hashed.seq)
        BY <2>3, <2>7, HashBlocksLife, HashBlocksCounts
      <3> QED
        BY <2>7, <3>1, SameLifeTrans
    <2>9. /\ DOMAIN y = SchedFields /\ DOMAIN y.seq = DOMAIN st.seq
          /\ \A q \in DOMAIN st.seq : q # r => y.seq[q] = st.seq[q]
          /\ y.sending = st.sending /\ t \in {s, hashed.seq}
      <3>1. CASE loaded
        <4>1. y = WithBlocks(gone, r, hashed)
          BY <2>4, <3>1
        <4> QED
          BY <1>3, <2>5, <4>1 DEF WithBlocks, SchedFields
      <3>2. CASE ~loaded
        <4>1. y = gone
          BY <2>4, <3>2
        <4> QED
          BY <1>3, <1>5, <2>5, <4>1
      <3> QED
        BY <3>1, <3>2
    <2>10. /\ SameLife(s, t) /\ t.is_prefill = s.is_prefill
           /\ t.num_cached_tokens \in Nat /\ t.num_cached_tokens < NumTokens(s)
           /\ t.num_pending_tokens = s.num_pending_tokens
           /\ t.num_spec_tokens = s.num_spec_tokens
           /\ t.num_scheduled_tokens = s.num_scheduled_tokens
      <3>1. CASE t = s
        BY <1>8, <2>6, <3>1 DEF SameLife, SameTokens
      <3>2. CASE t = hashed.seq
        BY <2>6, <2>7, <2>8, <3>2 DEF SameCounters
      <3> QED
        BY <2>9, <3>1, <3>2
    <2>11. PICK u : u = [t EXCEPT !.status = "RUNNING"]
      OBVIOUS
    <2>12. s.status \in {"WAITING", "WAITING_FOR_REMOTE_KVS"}
      BY <1>6, <1>10 DEF IsFinished
    <2>13. Counted(u, FALSE) /\ Reserves(s, u)
      BY <1>8, <2>10, <2>11, <2>12, StartedCounts
    <2>14. LifeStep(s, u)
      BY <1>8, <2>10, <2>11, <2>12, StartedLife
    <2>15. x = [y EXCEPT !.seq[r].status = "RUNNING", !.running = Append(@, r)]
      BY <1>1, <1>4, <1>5, <1>10, <2>1, <2>2, <2>3, <2>4 DEF EndLoad
    <2>16. PICK v : v = Append(y.running, r)
      OBVIOUS
    <2>17. x = [y EXCEPT !.seq[r].status = "RUNNING", !.running = v]
      BY <2>9, <2>15, <2>16 DEF SchedFields
    <2>18. /\ DOMAIN x.seq = DOMAIN st.seq /\ x.seq[r] = u /\ x.sending = st.sending
           /\ \A q \in DOMAIN st.seq : q # r => x.seq[q] = st.seq[q]
      BY <2>5, <2>9, <2>11, <2>17 DEF SchedFields
    <2> QED
      BY <2>13, <2>14, <2>18 DEF Alters
  <1>11. PICK run2 : run2 = ToSet(x.running)
    OBVIOUS
  <1>12. Good(st0, x, run2, D)
    BY <1>4, <1>11, LoadEnded
  <1>13. /\ Alters(st, x, r) /\ LifeStep(st.seq[r], x.seq[r]) /\ Counted(x.seq[r], FALSE)
         /\ Reserves(st.seq[r], x.seq[r])
    BY <1>5, <1>9, <1>10
  <1>14. Kept(st0, x, out)
    BY <1>7, <1>12, <1>13, KeptStep
  <1>15. Spares(st, x)
    BY <1>5, <1>6, <1>9, <1>13 DEF Spares, Alters
  <1> QED
    BY <1>4, <1>14, <1>15

(* A report names held sends and pending loads, each once.                 *)
LEMMA ReportNames ==
    ASSUME NEW st, Shape(st), NEW report \in Reports(st)
    PROVE  Queue(report.sent, st.sending) /\ Queue(report.ended, st.recving)
  <1>1. CASE ~HasConnector
    <2>1. report.sent = << >> /\ report.ended = << >>
      BY <1>1 DEF Reports
    <2> QED
      BY <2>1, QueueEmpty
  <1>2. CASE HasConnector
    <2>1. \E S \in SUBSET st.sending, E \in SUBSET st.recving :
            \E p \in SetToSeqs(S), q \in SetToSeqs(E) : \E L \in SUBSET E :
              report = [sent |-> p, ended |-> q, loaded |-> L]
      BY <1>2 DEF Reports
    <2>2. PICK S \in SUBSET st.sending, E \in SUBSET st.recving :
            \E p \in SetToSeqs(S), q \in SetToSeqs(E) : \E L \in SUBSET E :
              report = [sent |-> p, ended |-> q, loaded |-> L]
      BY <2>1
    <2>3. PICK p \in SetToSeqs(S), q \in SetToSeqs(E), L \in SUBSET E :
            report = [sent |-> p, ended |-> q, loaded |-> L]
      BY <2>2
    <2>4. report.sent = p /\ report.ended = q
      BY <2>3
    <2>5. S \subseteq Reqs /\ E \subseteq Reqs
      BY DEF Shape, Tracked
    <2>6. IsFiniteSet(S) /\ IsFiniteSet(E)
      BY <2>5, EngineAssumption, FS_Subset
    <2>7. Queue(p, S) /\ Queue(q, E)
      BY <2>6, ListedOnce
    <2> QED
      BY <2>4, <2>7 DEF Queue
  <1> QED
    BY <1>1, <1>2

(* A launch whose plan is made: transfers end, running sequences stay as   *)
(* they are.                                                               *)
Exchanges(st0, D, out, st, x) ==
    /\ Good(st0, x, ToSet(x.running), D)
    /\ ToSet(out.scheduled) \subseteq ToSet(x.running)
    /\ Kept(st0, x, out)
    /\ Spares(st, x)

(* The sends that ended, one after the other.                              *)
SendsKeep(a, b, c, p, i) ==
    Exchanges(a[1], a[2], a[3], a[4], p) /\ p.recving = a[4].recving
SendsKeepLoop == INSTANCE Loops WITH Round <- SendsRound, Inv <- SendsKeep

(* All of them.                                                            *)
LEMMA SendsKept ==
    ASSUME NEW st0, NEW st, NEW D, NEW out, Planned(out, DOMAIN st0.seq),
           Exchanges(st0, D, out, st, st), NEW sent, Queue(sent, st.sending)
    PROVE  LET x == EndSends(st, sent) IN Exchanges(st0, D, out, st, x) /\ x.recving = st.recving
  <1>1. PICK k : k = Len(sent)
    OBVIOUS
  <1>2. k \in Nat /\ \A i \in 1..k : sent[i] \in st.sending
    BY <1>1 DEF Queue
  <1>3. PICK a : a = <<st0, D, out, st>>
    OBVIOUS
  <1>4. a[1] = st0 /\ a[2] = D /\ a[3] = out /\ a[4] = st
    BY <1>3
  <1>5. SendsKeep(a, sent, 0, st, 0)
    BY <1>4 DEF SendsKeep
  <1>6. Shape(st) /\ DOMAIN st.seq = DOMAIN st0.seq
    BY GoodFacts DEF Exchanges
  <1>7. \A i \in 1..k : sent[i] \in DOMAIN st.seq /\ IsFinished(st.seq[sent[i]])
    BY <1>2, <1>6 DEF Shape, Tracked, Exchanges, Kept
  <1>8. ASSUME NEW i \in 1..k, NEW q, SendsKeep(a, sent, 0, q, i - 1)
        PROVE  SendsKeep(a, sent, 0, SendsRound(a, sent, 0, q, i), i)
    <2>1. Exchanges(st0, D, out, st, q) /\ q.recving = st.recving
      BY <1>4, <1>8 DEF SendsKeep
    <2>2. PICK r : r = sent[i]
      OBVIOUS
    <2>3. PICK x : x = EndSend(q, r)
      OBVIOUS
    <2>4. PICK run : run = ToSet(q.running)
      OBVIOUS
    <2>5. Good(st0, q, run, D) /\ ToSet(out.scheduled) \subseteq run /\ Kept(st0, q, out)
      BY <2>1, <2>4 DEF Exchanges
    <2>6. DOMAIN q.seq = DOMAIN st.seq
      BY <1>6, <2>5, GoodFacts
    <2>7. r \in DOMAIN q.seq /\ IsFinished(q.seq[r])
      BY <1>7, <2>1, <2>2, <2>6 DEF Exchanges, Spares
    <2>8. Good(st0, x, run, D) /\ x.running = q.running /\ x.recving = q.recving
      BY <2>3, <2>5, <2>7, SendEnded
    <2>9. Kept(st0, x, out) /\ Spares(q, x)
      BY <2>3, <2>5, <2>7, SendKept
    <2>10. Spares(st, x)
      BY <2>1, <2>6, <2>9, SparesTrans DEF Exchanges
    <2>11. SendsKeep(a, sent, 0, x, i)
      BY <1>4, <2>1, <2>4, <2>5, <2>8, <2>9, <2>10 DEF SendsKeep, Exchanges
    <2> QED
      BY <2>2, <2>3, <2>11 DEF SendsRound
  <1>9. SendsKeep(a, sent, 0, SendsKeepLoop!Loop(a, sent, 0, st, k), k)
    BY <1>2, <1>5, <1>8, CountsUp, SendsKeepLoop!LoopInvariant
  <1>10. EndSends(st, sent) = SendsKeepLoop!Loop(a, sent, 0, st, k)
    BY <1>1 DEF EndSends, Repeat, SendsKeepLoop!Loop, SendsRound
  <1> QED
    BY <1>4, <1>9, <1>10 DEF SendsKeep

(* The loads that ended.                                                   *)
LoadsKeep(a, b, c, p, i) ==
    /\ Exchanges(a[1], a[2], a[3], a[4], p)
    /\ \A j \in 1..Len(b) : j > i => b[j] \in p.recving
LoadsKeepLoop == INSTANCE Loops WITH Round <- LoadsRound, Inv <- LoadsKeep

(* All of them.                                                            *)
LEMMA LoadsKept ==
    ASSUME NEW st0, NEW st, NEW y, NEW D, NEW out, Planned(out, DOMAIN st0.seq),
           DOMAIN st.seq = DOMAIN st0.seq, Exchanges(st0, D, out, st, y),
           NEW ended, Queue(ended, y.recving), NEW loaded
    PROVE  Exchanges(st0, D, out, st, EndLoads(y, ended, loaded))
  <1>1. PICK k : k = Len(ended)
    OBVIOUS
  <1>2. /\ k \in Nat /\ \A i \in 1..k : ended[i] \in y.recving
        /\ \A i, j \in 1..k : ended[i] = ended[j] => i = j
    BY <1>1 DEF Queue, Injective
  <1>3. PICK a : a = <<st0, D, out, st>>
    OBVIOUS
  <1>4. a[1] = st0 /\ a[2] = D /\ a[3] = out /\ a[4] = st
    BY <1>3
  <1>5. LoadsKeep(a, ended, loaded, y, 0)
    BY <1>1, <1>2, <1>4 DEF LoadsKeep
  <1>6. ASSUME NEW i \in 1..k, NEW q, LoadsKeep(a, ended, loaded, q, i - 1)
        PROVE  LoadsKeep(a, ended, loaded, LoadsRound(a, ended, loaded, q, i), i)
    <2>1. /\ Exchanges(st0, D, out, st, q)
          /\ \A j \in 1..k : j > i - 1 => ended[j] \in q.recving
      BY <1>1, <1>4, <1>6 DEF LoadsKeep
    <2>2. PICK r : r = ended[i]
      OBVIOUS
    <2>3. r \in q.recving
      BY <1>2, <2>1, <2>2
    <2>4. PICK run : run = ToSet(q.running)
      OBVIOUS
    <2>5. Good(st0, q, run, D) /\ ToSet(out.scheduled) \subseteq run /\ Kept(st0, q, out)
      BY <2>1, <2>4 DEF Exchanges
    <2>6. Shape(q) /\ DOMAIN q.seq = DOMAIN st.seq
      BY <2>5, GoodFacts
    <2>7. r \in DOMAIN q.seq
      BY <2>3, <2>6 DEF Shape, Tracked
    <2>8. PICK ok : ok = (r \in loaded)
      OBVIOUS
    <2>9. PICK x : x = EndLoad(q, r, ok)
      OBVIOUS
    <2>10. /\ Good(st0, x, ToSet(x.running), D)
           /\ run \subseteq ToSet(x.running) /\ x.recving = q.recving \ {r}
      BY <2>3, <2>4, <2>5, <2>7, <2>9, LoadEnded
    <2>11. Kept(st0, x, out) /\ Spares(q, x)
      BY <2>3, <2>4, <2>5, <2>7, <2>9, LoadKept
    <2>12. Spares(st, x)
      BY <2>1, <2>6, <2>11, SparesTrans DEF Exchanges
    <2>13. \A j \in 1..k : j > i => ended[j] \in x.recving
      <3> SUFFICES ASSUME NEW j \in 1..k, j > i PROVE ended[j] \in x.recving
        OBVIOUS
      <3>1. ended[j] \in q.recving
        BY <1>2, <2>1
      <3>2. ended[j] # r
        BY <1>2, <2>2
      <3> QED
        BY <2>10, <3>1, <3>2
    <2>14. Exchanges(st0, D, out, st, x)
      BY <2>5, <2>10, <2>11, <2>12 DEF Exchanges
    <2>15. LoadsKeep(a, ended, loaded, x, i)
      BY <1>1, <1>4, <2>13, <2>14 DEF LoadsKeep
    <2> QED
      BY <2>2, <2>8, <2>9, <2>15 DEF LoadsRound
  <1>7. LoadsKeep(a, ended, loaded, LoadsKeepLoop!Loop(a, ended, loaded, y, k), k)
    BY <1>2, <1>5, <1>6, CountsUp, LoadsKeepLoop!LoopInvariant
  <1>8. EndLoads(y, ended, loaded) = LoadsKeepLoop!Loop(a, ended, loaded, y, k)
    BY <1>1 DEF EndLoads, Repeat, LoadsKeepLoop!Loop, LoadsRound
  <1> QED
    BY <1>4, <1>7, <1>8 DEF LoadsKeep

(* update_from_kv_connector_output: the plan stands.                       *)
LEMMA TransfersKept ==
    ASSUME NEW st0, NEW st, NEW D, NEW out, Planned(out, DOMAIN st0.seq),
           Good(st0, st, ToSet(st.running), D), ToSet(out.scheduled) \subseteq ToSet(st.running),
           Kept(st0, st, out), NEW report \in Reports(st)
    PROVE  Exchanges(st0, D, out, st, UpdateFromKVConnectorOutput(st, report))
  <1>1. Shape(st) /\ DOMAIN st.seq = DOMAIN st0.seq
    BY GoodFacts
  <1>2. Queue(report.sent, st.sending) /\ Queue(report.ended, st.recving)
    BY <1>1, ReportNames
  <1>3. PICK sent : sent = report.sent
    OBVIOUS
  <1>4. PICK ended : ended = report.ended
    OBVIOUS
  <1>5. PICK loaded : loaded = report.loaded
    OBVIOUS
  <1>6. PICK y : y = EndSends(st, sent)
    OBVIOUS
  <1>7. Exchanges(st0, D, out, st, st)
    BY DEF Exchanges, Spares
  <1>8. Exchanges(st0, D, out, st, y) /\ y.recving = st.recving
    BY <1>2, <1>3, <1>6, <1>7, SendsKept
  <1>9. Exchanges(st0, D, out, st, EndLoads(y, ended, loaded))
    BY <1>1, <1>2, <1>4, <1>8, LoadsKept
  <1>10. UpdateFromKVConnectorOutput(st, report) = EndLoads(y, ended, loaded)
    BY <1>3, <1>4, <1>5, <1>6 DEF UpdateFromKVConnectorOutput
  <1> QED
    BY <1>9, <1>10

-----------------------------------------------------------------------------
(* Launching a step. *)

(* A scheduled sequence once the step is launched; sampled says that it    *)
(* has a row, that is, that its last planned token is among those computed.*)
Advanced(s, t, sampled) ==
    /\ Counted(t, FALSE) /\ SameLife(s, t)
    /\ t.num_pending_tokens =
         s.num_pending_tokens + (IF sampled THEN 1 + s.num_spec_tokens ELSE 0)

(* A scheduled sequence, its computed tokens moved on. *)
Moved(s, h) ==
    /\ SameLife(s, h) /\ IsSeq(h) /\ NumTokens(h) = NumTokens(s) /\ h.status = "RUNNING"
    /\ h.is_prefill = s.is_prefill /\ h.num_pending_tokens = s.num_pending_tokens
    /\ h.num_cached_tokens = s.num_cached_tokens + s.num_scheduled_tokens
    /\ h.num_scheduled_tokens = 0 /\ h.num_spec_tokens = 0
    /\ h.num_prompt_tokens = s.num_prompt_tokens

(* advance() adds to the computed tokens those of the row and publishes    *)
(* the blocks they fill.                                                   *)
LEMMA MovedCounts ==
    ASSUME NEW bm, NEW s, IsSeq(s), Counted(s, TRUE),
           NEW moved, moved = [s EXCEPT !.num_cached_tokens = @ + s.num_scheduled_tokens,
                                        !.num_scheduled_tokens = 0, !.num_spec_tokens = 0],
           NEW h, h = HashBlocks(bm, moved, moved.num_cached_tokens).seq
    PROVE  Moved(s, h)
  <1>1. PICK n : n = s.num_cached_tokens + s.num_scheduled_tokens
    OBVIOUS
  <1>2. moved = [s EXCEPT !.num_cached_tokens = n, !.num_scheduled_tokens = 0, !.num_spec_tokens = 0]
    BY <1>1 DEF IsSeq, SeqFields
  <1>3. /\ IsSeq(moved) /\ SameLife(s, moved) /\ moved.num_cached_tokens = n
        /\ moved.is_prefill = s.is_prefill /\ moved.num_pending_tokens = s.num_pending_tokens
        /\ moved.num_scheduled_tokens = 0 /\ moved.num_spec_tokens = 0
    BY <1>2 DEF SameLife, SameTokens, IsSeq, SeqFields
  <1>4. SameLife(moved, h) /\ SameCounters(moved, h)
    BY <1>3, HashBlocksLife, HashBlocksCounts
  <1>5. SameLife(s, h)
    BY <1>3, <1>4, SameLifeTrans
  <1>6. s.status = "RUNNING"
    BY DEF Counted
  <1> QED
    BY <1>1, <1>3, <1>4, <1>5, <1>6, HashBlocksLife DEF SameLife, SameTokens, SameCounters, NumTokens, Moved

(* advance(), for one sequence.                                            *)
LEMMA AdvancedCounts ==
    ASSUME NEW s, IsSeq(s), Counted(s, TRUE), NEW h, Moved(s, h),
           NEW t, t = [ReserveToken(h, 1 + s.num_spec_tokens) EXCEPT
                         !.is_prefill = FALSE, !.num_spec_tokens = NumSpeculativeTokens]
    PROVE  /\ h.num_cached_tokens >= NumPlannedTokens(h) => Advanced(s, t, TRUE)
           /\ ~(h.num_cached_tokens >= NumPlannedTokens(h)) => Advanced(s, h, FALSE)
  <1>1. /\ SameLife(s, h) /\ IsSeq(h) /\ NumTokens(h) = NumTokens(s) /\ h.status = "RUNNING"
        /\ h.is_prefill = s.is_prefill /\ h.num_pending_tokens = s.num_pending_tokens
        /\ h.num_cached_tokens = s.num_cached_tokens + s.num_scheduled_tokens
        /\ h.num_scheduled_tokens = 0 /\ h.num_spec_tokens = 0
        /\ h.num_prompt_tokens = s.num_prompt_tokens
    BY DEF Moved
  <1>2. /\ s.num_cached_tokens \in Nat /\ s.num_pending_tokens \in Nat
        /\ s.num_spec_tokens \in Nat /\ s.num_scheduled_tokens \in Nat
        /\ s.is_prefill \in BOOLEAN /\ s.status = "RUNNING" /\ ~IsFinished(s)
        /\ s.num_prompt_tokens > 0 /\ s.num_prompt_tokens <= NumTokens(s)
    BY DEF Counted, IsFinished
  <1>3. NumTokens(s) \in Nat /\ s.num_prompt_tokens \in Nat
    BY DEF IsSeq, NumTokens
  <1>4. ASSUME s.is_prefill
        PROVE  /\ s.num_pending_tokens = 0 /\ s.num_spec_tokens = 0
               /\ s.num_cached_tokens + s.num_scheduled_tokens <= NumTokens(s)
    BY <1>2, <1>4 DEF Counted
  <1>5. ASSUME ~s.is_prefill
        PROVE  /\ s.num_cached_tokens = NumTokens(s) + s.num_pending_tokens - 1
               /\ s.num_scheduled_tokens = 1 + s.num_spec_tokens
    <2>1. s.num_cached_tokens = NumPlannedTokens(s) - 1 /\ s.num_scheduled_tokens = 1 + s.num_spec_tokens
      BY <1>2, <1>5 DEF Counted
    <2>2. NumPlannedTokens(s) = NumTokens(s) + s.num_pending_tokens
      BY DEF NumPlannedTokens
    <2> QED
      BY <1>2, <1>3, <2>1, <2>2
  <1>6. NumPlannedTokens(h) = NumTokens(s) + s.num_pending_tokens
    BY <1>1 DEF NumPlannedTokens
  <1>7. ASSUME ~(h.num_cached_tokens >= NumPlannedTokens(h)) PROVE Advanced(s, h, FALSE)
    <2>1. s.is_prefill
      BY <1>1, <1>2, <1>3, <1>5, <1>6, <1>7
    <2>2. h.is_prefill /\ h.is_prefill \in BOOLEAN /\ ~IsFinished(h)
      BY <1>1, <2>1 DEF IsFinished
    <2>3. /\ h.num_pending_tokens = 0 /\ h.num_cached_tokens < NumTokens(h)
          /\ h.num_cached_tokens \in Nat
      BY <1>1, <1>2, <1>3, <1>4, <1>6, <1>7, <2>1
    <2>4. Counted(h, FALSE)
      BY <1>1, <1>2, <1>3, <2>2, <2>3 DEF Counted
    <2>5. h.num_pending_tokens = s.num_pending_tokens + 0
      BY <1>1, <1>2
    <2> QED
      BY <1>1, <2>4, <2>5 DEF Advanced
  <1>8. ASSUME h.num_cached_tokens >= NumPlannedTokens(h) PROVE Advanced(s, t, TRUE)
    <2>1. PICK m : m = s.num_pending_tokens + (1 + s.num_spec_tokens)
      OBVIOUS
    <2>2. PICK no : no = FALSE
      OBVIOUS
    <2>3. PICK g : g = [h EXCEPT !.num_pending_tokens = m]
      OBVIOUS
    <2>4. t = [g EXCEPT !.is_prefill = no, !.num_spec_tokens = NumSpeculativeTokens]
      BY <1>1, <2>1, <2>2, <2>3 DEF ReserveToken, IsSeq, SeqFields
    <2>5. DOMAIN g = SeqFields /\ SameLife(s, g)
      BY <1>1, <2>3 DEF SameLife, SameTokens, IsSeq, SeqFields
    <2>6. /\ SameLife(s, t) /\ t.num_pending_tokens = m /\ t.is_prefill = no
          /\ t.num_cached_tokens = h.num_cached_tokens /\ t.num_scheduled_tokens = 0
          /\ t.num_spec_tokens = NumSpeculativeTokens
      <3>1. g.num_pending_tokens = m /\ g.num_cached_tokens = h.num_cached_tokens
            /\ g.num_scheduled_tokens = 0
        BY <1>1, <2>3 DEF IsSeq, SeqFields
      <3>2. /\ t.num_pending_tokens = m /\ t.is_prefill = no
            /\ t.num_cached_tokens = h.num_cached_tokens /\ t.num_scheduled_tokens = 0
            /\ t.num_spec_tokens = NumSpeculativeTokens
        BY <2>4, <2>5, <3>1 DEF SeqFields
      <3>3. SameLife(s, t)
        <4>1. SameLife(g, t)
          BY <2>4, <2>5 DEF SameLife, SameTokens, IsSeq, SeqFields
        <4> QED
          BY <2>5, <4>1, SameLifeTrans
      <3> QED
        BY <3>2, <3>3
    <2>7. /\ NumTokens(t) = NumTokens(s) /\ t.num_prompt_tokens = s.num_prompt_tokens
          /\ t.status = "RUNNING" /\ ~IsFinished(t)
      BY <1>2, <2>6 DEF SameLife, SameTokens, NumTokens, IsFinished
    <2>8. m \in Nat /\ h.num_cached_tokens = NumTokens(s) + m - 1 /\ h.num_cached_tokens \in Nat
      <3>1. CASE s.is_prefill
        BY <1>1, <1>2, <1>3, <1>4, <1>6, <1>8, <2>1, <3>1
      <3>2. CASE ~s.is_prefill
        BY <1>1, <1>2, <1>3, <1>5, <2>1, <3>2
      <3> QED
        BY <3>1, <3>2
    <2>9. ~t.is_prefill /\ t.is_prefill \in BOOLEAN
      BY <2>2, <2>6
    <2>10. NumPlannedTokens(t) = NumTokens(s) + m /\ NumSpeculativeTokens \in Nat
      BY <2>6, <2>7, SchedulerAssumption DEF NumPlannedTokens
    <2>11. Counted(t, FALSE)
      <3>1. t.num_cached_tokens = NumPlannedTokens(t) - 1 /\ t.num_cached_tokens \in Nat
        BY <1>3, <2>6, <2>8, <2>10
      <3>2. /\ t.num_pending_tokens \in Nat /\ t.num_spec_tokens \in Nat /\ t.num_scheduled_tokens = 0
            /\ t.num_prompt_tokens > 0 /\ t.num_prompt_tokens <= NumTokens(t)
        BY <1>2, <2>6, <2>7, <2>8, <2>10
      <3> QED
        BY <2>7, <2>9, <3>1, <3>2 DEF Counted
    <2> QED
      BY <2>1, <2>6, <2>11 DEF Advanced
  <1> QED
    BY <1>7, <1>8

(* What advance() does with r. *)
AdvancesTo(s, rows, t, more, r) ==
    \/ more = rows /\ Advanced(s, t, FALSE)
    \/ \E row : /\ more = Append(rows, row) /\ row.req = r
                /\ row.num_draft_tokens = s.num_spec_tokens
                /\ Advanced(s, t, TRUE)

(* advance(), for one row.                                                 *)
LEMMA RowAdvancedTo ==
    ASSUME NEW st, Shape(st), NEW r \in DOMAIN st.seq, NEW rows, NEW acc,
           acc.st = st, acc.rows = rows, Counted(st.seq[r], TRUE)
    PROVE  LET x == AdvanceRow(acc, r) IN AdvancesTo(st.seq[r], rows, x.st.seq[r], x.rows, r)
  <1>1. PICK s : s = st.seq[r]
    OBVIOUS
  <1>2. PICK moved : moved = [s EXCEPT !.num_cached_tokens = @ + s.num_scheduled_tokens,
                                       !.num_scheduled_tokens = 0, !.num_spec_tokens = 0]
    OBVIOUS
  <1>3. PICK hashed : hashed = HashBlocks(st.bm, moved, moved.num_cached_tokens)
    OBVIOUS
  <1>4. PICK h : h = hashed.seq
    OBVIOUS
  <1>5. PICK t : t = [ReserveToken(h, 1 + s.num_spec_tokens) EXCEPT
                        !.is_prefill = FALSE, !.num_spec_tokens = NumSpeculativeTokens]
    OBVIOUS
  <1>6. PICK res : res = [bm |-> hashed.bm, seq |-> t]
    OBVIOUS
  <1>7. PICK row : row = [req |-> r, num_preemptions |-> s.num_preemptions,
                          num_draft_tokens |-> s.num_spec_tokens]
    OBVIOUS
  <1>8. IsSeq(s) /\ DOMAIN st = SchedFields
    BY <1>1 DEF Shape
  <1>9. PICK y : y = WithBlocks(st, r, res)
    OBVIOUS
  <1>10. PICK z : z = WithBlocks(st, r, hashed)
    OBVIOUS
  <1>11. y.seq[r] = t /\ z.seq[r] = h
    BY <1>4, <1>6, <1>8, <1>9, <1>10 DEF WithBlocks, SchedFields
  <1>12. PICK x : x = AdvanceRow(acc, r)
    OBVIOUS
  <1>13. PICK more : more = Append(rows, row)
    OBVIOUS
  <1>14. x = IF h.num_cached_tokens >= NumPlannedTokens(h)
             THEN [st |-> y, rows |-> more] ELSE [st |-> z, rows |-> rows]
    BY <1>1, <1>2, <1>3, <1>4, <1>5, <1>6, <1>7, <1>9, <1>10, <1>12, <1>13 DEF AdvanceRow
  <1>15. /\ h.num_cached_tokens >= NumPlannedTokens(h) => Advanced(s, t, TRUE)
         /\ ~(h.num_cached_tokens >= NumPlannedTokens(h)) => Advanced(s, h, FALSE)
    <2>1. Moved(s, h)
      BY <1>1, <1>2, <1>3, <1>4, <1>8, MovedCounts
    <2> QED
      BY <1>1, <1>5, <1>8, <2>1, AdvancedCounts
  <1>16. CASE h.num_cached_tokens >= NumPlannedTokens(h)
    <2>1. x.st.seq[r] = t /\ x.rows = Append(rows, row) /\ Advanced(s, t, TRUE)
      BY <1>11, <1>13, <1>14, <1>15, <1>16
    <2>2. row.req = r /\ row.num_draft_tokens = s.num_spec_tokens
      BY <1>7
    <2> QED
      BY <1>1, <1>12, <2>1, <2>2 DEF AdvancesTo
  <1>17. CASE ~(h.num_cached_tokens >= NumPlannedTokens(h))
    <2>1. x.st.seq[r] = h /\ x.rows = rows /\ Advanced(s, h, FALSE)
      BY <1>11, <1>14, <1>15, <1>17
    <2> QED
      BY <1>1, <1>12, <2>1 DEF AdvancesTo
  <1> QED
    BY <1>16, <1>17

(* What the rows of a launch say of a request: the drafts it has computed, *)
(* and what the launch has reserved for it.                                *)
Tallied(s, t, rows, q) ==
    /\ t.status = s.status /\ t.num_preemptions = s.num_preemptions
    /\ \A k \in 1..Len(rows) : rows[k].req = q =>
        /\ rows[k].num_draft_tokens = s.num_spec_tokens
        /\ t.num_pending_tokens = s.num_pending_tokens + (1 + rows[k].num_draft_tokens)
    /\ (\A k \in 1..Len(rows) : rows[k].req # q) => t.num_pending_tokens = s.num_pending_tokens

(* No row is of q.                                                         *)
NoRow(rows, q) == \A k \in 1..Len(rows) : rows[k].req # q

(* After i rows. *)
Tallies(st, scheduled, p, i) ==
    /\ p.st.sending = st.sending
    /\ \A q \in DOMAIN st.seq :
        IF \E j \in 1..i : scheduled[j] = q
        THEN Counted(p.st.seq[q], FALSE) /\ Tallied(st.seq[q], p.st.seq[q], p.rows, q)
        ELSE p.st.seq[q] = st.seq[q] /\ NoRow(p.rows, q)

(* A row for r says nothing of the others.                                 *)
LEMMA TalliedOn ==
    ASSUME NEW rows, NEW row, NEW more, OneMore(rows, row, more), NEW q, row.req # q, NEW s, NEW t
    PROVE  /\ Tallied(s, t, rows, q) => Tallied(s, t, more, q)
           /\ NoRow(rows, q) => NoRow(more, q)
  <1>1. /\ Len(rows) \in Nat /\ Len(more) = Len(rows) + 1
        /\ \A i \in 1..Len(rows) : more[i] = rows[i]
        /\ more[Len(rows) + 1] = row
    BY DEF OneMore
  <1>2. \A i \in 1..Len(more) : more[i].req = q => i \in 1..Len(rows) /\ more[i] = rows[i]
    BY <1>1
  <1>3. \A i \in 1..Len(rows) : i \in 1..Len(more)
    BY <1>1
  <1> QED
    BY <1>1, <1>2, <1>3 DEF Tallied, NoRow

(* The row of r, the only one.                                             *)
LEMMA TalliedNow ==
    ASSUME NEW rows, NEW row, NEW more, OneMore(rows, row, more), NEW s, NEW t, NoRow(rows, row.req),
           row.num_draft_tokens = s.num_spec_tokens, Advanced(s, t, TRUE)
    PROVE  Tallied(s, t, more, row.req)
  <1>1. /\ Len(rows) \in Nat /\ Len(more) = Len(rows) + 1
        /\ \A i \in 1..Len(rows) : more[i] = rows[i]
        /\ more[Len(rows) + 1] = row
    BY DEF OneMore
  <1>2. \A i \in 1..Len(more) : more[i].req = row.req => more[i] = row
    BY <1>1 DEF NoRow
  <1>3. Len(rows) + 1 \in 1..Len(more)
    BY <1>1
  <1>4. /\ t.num_pending_tokens = s.num_pending_tokens + (1 + row.num_draft_tokens)
        /\ t.status = s.status /\ t.num_preemptions = s.num_preemptions
    BY DEF Advanced, SameLife
  <1> QED
    BY <1>1, <1>2, <1>3, <1>4 DEF Tallied

(* One sequence of the step more.                                          *)
LEMMA NextTallied ==
    ASSUME NEW st, NEW scheduled, Queue(scheduled, DOMAIN st.seq), NEW i \in 1..Len(scheduled),
           NEW p, Shape(p.st), DOMAIN p.st.seq = DOMAIN st.seq, IsList(p.rows),
           Tallies(st, scheduled, p, i - 1), Counted(st.seq[scheduled[i]], TRUE),
           NEW x, x = AdvanceRow(p, scheduled[i])
    PROVE  Tallies(st, scheduled, x, i)
  <1>1. PICK r : r = scheduled[i]
    OBVIOUS
  <1>2. PICK y : y = p.st
    OBVIOUS
  <1>3. PICK rows : rows = p.rows
    OBVIOUS
  <1>4. /\ Len(scheduled) \in Nat /\ r \in DOMAIN st.seq
        /\ \A j, m \in 1..Len(scheduled) : scheduled[j] = scheduled[m] => j = m
    BY <1>1 DEF Queue, Injective
  <1>5. ~(\E j \in 1..(i - 1) : scheduled[j] = r)
    <2>1. \A j \in 1..(i - 1) : j \in 1..Len(scheduled) /\ j # i
      BY <1>4
    <2> QED
      BY <1>1, <1>4, <2>1
  <1>6. y.seq[r] = st.seq[r] /\ NoRow(rows, r)
    BY <1>2, <1>3, <1>4, <1>5 DEF Tallies
  <1>7. Shape(y) /\ DOMAIN y.seq = DOMAIN st.seq
    BY <1>2
  <1>8. Touches(y, x.st, r)
    BY <1>1, <1>2, <1>3, <1>4, <1>7, RowAdvanced
  <1>9. PICK z : z = x.st
    OBVIOUS
  <1>10. PICK more : more = x.rows
    OBVIOUS
  <1>11. PICK s : s = st.seq[r]
    OBVIOUS
  <1>12. PICK t : t = z.seq[r]
    OBVIOUS
  <1>13. AdvancesTo(s, rows, t, more, r)
    <2>1. Counted(y.seq[r], TRUE)
      BY <1>1, <1>6
    <2>2. AdvancesTo(y.seq[r], rows, x.st.seq[r], x.rows, r)
      BY <1>1, <1>2, <1>3, <1>4, <1>7, <2>1, RowAdvancedTo
    <2> QED
      BY <1>6, <1>9, <1>10, <1>11, <1>12, <2>2
  <1>14. z.sending = st.sending /\ \A q \in DOMAIN st.seq : q # r => z.seq[q] = y.seq[q]
    BY <1>2, <1>7, <1>8, <1>9 DEF Touches, Tallies
  <1>15. \A q : q # r => ((\E j \in 1..i : scheduled[j] = q) <=> (\E j \in 1..(i - 1) : scheduled[j] = q))
    <2>1. \A j : j \in 1..i <=> (j \in 1..(i - 1) \/ j = i)
      BY <1>4
    <2> QED
      BY <1>1, <2>1
  <1>16. \E j \in 1..i : scheduled[j] = r
    BY <1>1, <1>4
  <1>17. \A q \in DOMAIN st.seq :
          IF \E j \in 1..(i - 1) : scheduled[j] = q
          THEN Counted(y.seq[q], FALSE) /\ Tallied(st.seq[q], y.seq[q], rows, q)
          ELSE y.seq[q] = st.seq[q] /\ NoRow(rows, q)
    BY <1>2, <1>3 DEF Tallies
  <1>18. CASE more = rows /\ Advanced(s, t, FALSE)
    <2>1. Counted(t, FALSE) /\ t.num_pending_tokens = s.num_pending_tokens
      <3>1. s.num_pending_tokens \in Nat
        BY <1>1, <1>11 DEF Counted
      <3>2. t.num_pending_tokens = s.num_pending_tokens + 0 /\ Counted(t, FALSE)
        BY <1>18 DEF Advanced
      <3>3. t.num_pending_tokens = s.num_pending_tokens
        BY <3>1, <3>2
      <3> QED
        BY <3>2, <3>3
    <2>2. Tallied(s, t, more, r)
      <3>1. t.status = s.status /\ t.num_preemptions = s.num_preemptions
        BY <1>18 DEF Advanced, SameLife
      <3> QED
        BY <1>6, <1>18, <2>1, <3>1 DEF Tallied, NoRow
    <2>3. ASSUME NEW q \in DOMAIN st.seq
          PROVE  IF \E j \in 1..i : scheduled[j] = q
                 THEN Counted(z.seq[q], FALSE) /\ Tallied(st.seq[q], z.seq[q], more, q)
                 ELSE z.seq[q] = st.seq[q] /\ NoRow(more, q)
      <3>1. CASE q = r
        BY <1>11, <1>12, <1>16, <2>1, <2>2, <3>1
      <3>2. CASE q # r
        BY <1>14, <1>15, <1>17, <1>18, <3>2
      <3> QED
        BY <3>1, <3>2
    <2> QED
      BY <1>9, <1>10, <1>14, <2>3 DEF Tallies
  <1>19. ASSUME NEW row, more = Append(rows, row), row.req = r,
                row.num_draft_tokens = s.num_spec_tokens, Advanced(s, t, TRUE)
         PROVE  Tallies(st, scheduled, x, i)
    <2>1. OneMore(rows, row, more)
      BY <1>3, <1>19, MoreRows
    <2>2. Counted(t, FALSE) /\ Tallied(s, t, more, r)
      <3>1. Tallied(s, t, more, row.req)
        BY <1>6, <1>19, <2>1, TalliedNow
      <3> QED
        BY <1>19, <3>1 DEF Advanced
    <2>3. ASSUME NEW q \in DOMAIN st.seq
          PROVE  IF \E j \in 1..i : scheduled[j] = q
                 THEN Counted(z.seq[q], FALSE) /\ Tallied(st.seq[q], z.seq[q], more, q)
                 ELSE z.seq[q] = st.seq[q] /\ NoRow(more, q)
      <3>1. CASE q = r
        BY <1>11, <1>12, <1>16, <2>2, <3>1
      <3>2. CASE q # r
        <4>1. z.seq[q] = y.seq[q]
          BY <1>14, <3>2
        <4>2. /\ Tallied(st.seq[q], y.seq[q], rows, q) => Tallied(st.seq[q], y.seq[q], more, q)
              /\ NoRow(rows, q) => NoRow(more, q)
          BY <1>19, <2>1, <3>2, TalliedOn
        <4> QED
          BY <1>15, <1>17, <3>2, <4>1, <4>2
      <3> QED
        BY <3>1, <3>2
    <2> QED
      BY <1>9, <1>10, <1>14, <2>3 DEF Tallies
  <1> QED
    BY <1>13, <1>18, <1>19 DEF AdvancesTo

(* The loop of advance().                                                  *)
TallyInv(a, b, c, p, i) ==
    Good(a[1], p.st, a[2], a[3]) /\ IsList(p.rows) /\ Tallies(a[4], b, p, i)
TallyLoop == INSTANCE Loops WITH Round <- AdvanceRound, Inv <- TallyInv

(* What advance() leaves of the counters. *)
StepTallies(st, x) ==
    /\ x.st.sending = st.sending
    /\ \A q \in DOMAIN st.seq :
        Counted(x.st.seq[q], FALSE) /\ Tallied(st.seq[q], x.st.seq[q], x.rows, q)

(* advance(): the counters stay in order, and the rows say what they       *)
(* reserve.                                                                *)
LEMMA StepTallied ==
    ASSUME NEW st0, NEW st, NEW run, NEW D, Good(st0, st, run, D), NEW out,
           Planned(out, DOMAIN st0.seq), Kept(st0, st, out)
    PROVE  StepTallies(st, Advance(st, out.scheduled))
  <1>1. PICK scheduled : scheduled = out.scheduled
    OBVIOUS
  <1>2. DOMAIN st.seq = DOMAIN st0.seq
    BY GoodFacts
  <1>3. Queue(scheduled, DOMAIN st.seq)
    BY <1>1, <1>2 DEF Planned
  <1>4. PICK k : k = Len(scheduled)
    OBVIOUS
  <1>5. /\ k \in Nat /\ \A i \in 1..k : scheduled[i] \in DOMAIN st.seq
        /\ \A q : q \in ToSet(scheduled) <=> \E j \in 1..k : scheduled[j] = q
    BY <1>3, <1>4 DEF Queue, ToSet
  <1>6. \A q \in DOMAIN st.seq : Counted(st.seq[q], q \in ToSet(scheduled))
    BY <1>1 DEF Kept
  <1>7. ASSUME NEW q \in DOMAIN st.seq, q \in ToSet(scheduled) PROVE Counted(st.seq[q], TRUE)
    <2>1. (q \in ToSet(scheduled)) = TRUE
      BY <1>7
    <2> QED
      BY <1>6, <2>1
  <1>8. ASSUME NEW q \in DOMAIN st.seq, q \notin ToSet(scheduled) PROVE Counted(st.seq[q], FALSE)
    <2>1. (q \in ToSet(scheduled)) = FALSE
      BY <1>8
    <2> QED
      BY <1>6, <2>1
  <1>9. PICK a : a = <<st0, run, D, st>>
    OBVIOUS
  <1>10. a[1] = st0 /\ a[2] = run /\ a[3] = D /\ a[4] = st
    BY <1>9
  <1>11. PICK start : start = [st |-> st, rows |-> << >>]
    OBVIOUS
  <1>12. TallyInv(a, scheduled, 0, start, 0)
    <2>1. start.st = st /\ start.rows = << >>
      BY <1>11
    <2>2. IsList(<< >>) /\ \A q : NoRow(<< >>, q)
      BY DEF IsList, NoRow
    <2>3. Tallies(st, scheduled, start, 0)
      BY <2>1, <2>2 DEF Tallies
    <2> QED
      BY <1>10, <2>1, <2>2, <2>3 DEF TallyInv
  <1>13. ASSUME NEW i \in 1..k, NEW p, TallyInv(a, scheduled, 0, p, i - 1)
         PROVE  TallyInv(a, scheduled, 0, AdvanceRound(a, scheduled, 0, p, i), i)
    <2>1. Good(st0, p.st, run, D) /\ IsList(p.rows) /\ Tallies(st, scheduled, p, i - 1)
      BY <1>10, <1>13 DEF TallyInv
    <2>2. PICK r : r = scheduled[i]
      OBVIOUS
    <2>3. PICK y : y = p.st
      OBVIOUS
    <2>4. Shape(y) /\ DOMAIN y.seq = DOMAIN st.seq /\ r \in DOMAIN y.seq /\ r \in ToSet(scheduled)
      BY <1>2, <1>5, <2>1, <2>2, <2>3, GoodFacts
    <2>5. PICK x : x = AdvanceRow(p, r)
      OBVIOUS
    <2>6. /\ Touches(y, x.st, r)
          /\ x.rows = p.rows \/ RowFor(p.rows, x.rows, r, y.seq[r].num_preemptions)
      BY <2>3, <2>4, <2>5, RowAdvanced
    <2>7. Good(st0, x.st, run, D)
      BY <2>1, <2>3, <2>4, <2>6, GoodTouch
    <2>8. IsList(x.rows)
      <3>1. CASE x.rows = p.rows
        BY <2>1, <3>1
      <3>2. CASE RowFor(p.rows, x.rows, r, y.seq[r].num_preemptions)
        <4>1. PICK row : x.rows = Append(p.rows, row)
          BY <3>2 DEF RowFor
        <4>2. OneMore(p.rows, row, x.rows)
          BY <2>1, <4>1, MoreRows
        <4> QED
          BY <4>2 DEF OneMore
      <3> QED
        BY <2>6, <3>1, <3>2
    <2>9. Tallies(st, scheduled, x, i)
      <3>1. Counted(st.seq[scheduled[i]], TRUE)
        BY <1>7, <2>2, <2>4
      <3> QED
        BY <1>3, <1>4, <2>1, <2>2, <2>3, <2>4, <2>5, <3>1, NextTallied
    <2>10. TallyInv(a, scheduled, 0, x, i)
      BY <1>10, <2>7, <2>8, <2>9 DEF TallyInv
    <2> QED
      BY <2>2, <2>5, <2>10 DEF AdvanceRound
  <1>14. TallyInv(a, scheduled, 0, TallyLoop!Loop(a, scheduled, 0, start, k), k)
    BY <1>5, <1>12, <1>13, CountsUp, TallyLoop!LoopInvariant
  <1>15. PICK x : x = Advance(st, scheduled)
    OBVIOUS
  <1>16. x = TallyLoop!Loop(a, scheduled, 0, start, k)
    BY <1>4, <1>11, <1>15 DEF Advance, Repeat, TallyLoop!Loop, AdvanceRound
  <1>17. Tallies(st, scheduled, x, k)
    BY <1>10, <1>14, <1>16 DEF TallyInv
  <1>18. ASSUME NEW q \in DOMAIN st.seq
         PROVE  Counted(x.st.seq[q], FALSE) /\ Tallied(st.seq[q], x.st.seq[q], x.rows, q)
    <2>1. CASE q \in ToSet(scheduled)
      BY <1>5, <1>17, <2>1 DEF Tallies
    <2>2. CASE q \notin ToSet(scheduled)
      <3>1. x.st.seq[q] = st.seq[q] /\ NoRow(x.rows, q)
        BY <1>5, <1>17, <2>2 DEF Tallies
      <3>2. Counted(st.seq[q], FALSE)
        BY <1>8, <2>2
      <3> QED
        BY <3>1, <3>2 DEF Tallied, NoRow
    <2> QED
      BY <2>1, <2>2
  <1>19. StepTallies(st, x)
    BY <1>17, <1>18 DEF StepTallies, Tallies
  <1> QED
    BY <1>1, <1>15, <1>19

(* The tokens of a batch, added up.                                        *)
SumRound(a, b, c, p, i) == p + b[i].num_tokens
SumInv(a, b, c, p, i) == p = a[i]
SumLoop == INSTANCE Loops WITH Round <- SumRound, Inv <- SumInv

(* f adds up the tokens of a batch.                                        *)
LEMMA TotalIs ==
    ASSUME NEW f, NEW batch, Len(batch) \in Nat, f[0] = 0,
           \A i \in 1..Len(batch) : f[i] = f[i - 1] + batch[i].num_tokens
    PROVE  TotalTokens(batch) = f[Len(batch)]
  <1>1. PICK k \in Nat : k = Len(batch)
    OBVIOUS
  <1>2. SumInv(f, batch, 0, 0, 0)
    BY DEF SumInv
  <1>3. ASSUME NEW i \in 1..k, NEW q, SumInv(f, batch, 0, q, i - 1)
        PROVE  SumInv(f, batch, 0, SumRound(f, batch, 0, q, i), i)
    BY <1>1, <1>3 DEF SumInv, SumRound
  <1>4. SumInv(f, batch, 0, SumLoop!Loop(f, batch, 0, 0, k), k)
    BY <1>2, <1>3, CountsUp, SumLoop!LoopInvariant
  <1>5. TotalTokens(batch) = SumLoop!Loop(f, batch, 0, 0, k)
    BY <1>1 DEF TotalTokens, Repeat, SumLoop!Loop, SumRound
  <1> QED
    BY <1>1, <1>4, <1>5 DEF SumInv

(* What a step in flight keeps to. *)
Fits(flight) ==
    /\ flight.launched \in BOOLEAN
    /\ Len(flight.batch) <= MaxNumSeqs
    /\ TotalTokens(flight.batch) <= MaxNumBatchedTokens
    /\ Exact => \A i \in DOMAIN flight.batch : flight.batch[i].num_tokens > 0

(* No step.                                                                *)
LEMMA NoStepFits == Fits(NoStep)
  <1>1. NoStep.batch = << >> /\ NoStep.launched = FALSE
    BY DEF NoStep
  <1>2. PICK e : e = << >>
    OBVIOUS
  <1>3. PICK f : f = [i \in 0..0 |-> 0]
    OBVIOUS
  <1>4. Len(e) = 0 /\ f[0] = 0 /\ DOMAIN e = {}
    BY <1>2, <1>3
  <1>5. TotalTokens(e) = 0
    <2>1. TotalTokens(e) = f[Len(e)]
      BY <1>4, TotalIs
    <2> QED
      BY <1>4, <2>1
  <1>6. MaxNumSeqs \in Nat /\ MaxNumBatchedTokens \in Nat
    BY SchedulerAssumption
  <1>7. PICK g : g = NoStep
    OBVIOUS
  <1>8. g.batch = e /\ g.launched \in BOOLEAN
    BY <1>1, <1>2, <1>7
  <1>9. Fits(g)
    BY <1>4, <1>5, <1>6, <1>8 DEF Fits
  <1> QED
    BY <1>7, <1>9

(* The batch of a launch: what its rows use is what the budget is short    *)
(* of.                                                                     *)
LEMMA BatchFits ==
    ASSUME NEW st0, NEW st, NEW out, Kept(st0, st, out), Queue(out.scheduled, DOMAIN st.seq),
           NEW rows, NEW sampled
    PROVE  Fits(Flight(st, out.scheduled, rows, sampled))
  <1>1. PICK scheduled : scheduled = out.scheduled
    OBVIOUS
  <1>2. PICK g : g = Flight(st, scheduled, rows, sampled)
    OBVIOUS
  <1>3. CASE scheduled = << >>
    <2>1. g = NoStep
      BY <1>2, <1>3 DEF Flight
    <2> QED
      BY <1>1, <1>2, <2>1, NoStepFits
  <1>4. CASE scheduled # << >>
    <2>1. PICK k : k = Len(scheduled)
      OBVIOUS
    <2>2. /\ k \in Nat /\ DOMAIN scheduled = 1..k
          /\ \A i \in 1..k : scheduled[i] \in DOMAIN st.seq /\ scheduled[i] \in ToSet(scheduled)
      BY <1>1, <2>1 DEF Queue, ToSet
    <2>3. PICK b : b = [i \in 1..k |-> Query(st.seq[scheduled[i]])]
      OBVIOUS
    <2>4. PICK yes : yes = TRUE
      OBVIOUS
    <2>5. PICK rs : g = [launched |-> yes, rows |-> rs, batch |-> b]
      BY <1>2, <1>4, <2>2, <2>3, <2>4 DEF Flight
    <2>6. g.launched = yes /\ g.batch = b
      BY <2>5
    <2>7. PICK f : /\ SumsUp(f, st, scheduled)
                   /\ f[Len(scheduled)] + out.budget = MaxNumBatchedTokens
      BY <1>1 DEF Kept, Booked
    <2>8. /\ f[k] \in Nat /\ f[0] = 0
          /\ \A i \in 1..k : f[i] = f[i - 1] + st.seq[scheduled[i]].num_scheduled_tokens
      BY <2>1, <2>2, <2>7 DEF SumsUp
    <2>9. Len(b) = k /\ DOMAIN b = 1..k
      BY <2>2, <2>3
    <2>10. \A i \in 1..k : b[i].num_tokens = st.seq[scheduled[i]].num_scheduled_tokens
      BY <2>3 DEF Query
    <2>11. TotalTokens(b) = f[k]
      <3>1. TotalTokens(b) = f[Len(b)]
        BY <2>2, <2>8, <2>9, <2>10, TotalIs
      <3> QED
        BY <2>9, <3>1
    <2>12. k <= MaxNumSeqs /\ out.budget \in Nat
      BY <1>1, <2>1 DEF Kept, Booked
    <2>13. f[k] <= MaxNumBatchedTokens
      BY <2>1, <2>7, <2>8, <2>12
    <2>14. ASSUME Exact, NEW i \in 1..k PROVE b[i].num_tokens > 0
      <3>1. PICK r : r = scheduled[i]
        OBVIOUS
      <3>2. Counted(st.seq[r], r \in ToSet(out.scheduled))
        BY <2>2, <3>1 DEF Kept
      <3>3. r \in ToSet(out.scheduled)
        BY <1>1, <2>2, <3>1
      <3>4. st.seq[r].num_scheduled_tokens > 0
        BY <2>14, <3>2, <3>3 DEF Counted
      <3> QED
        BY <2>10, <3>1, <3>4
    <2>15. g.launched \in BOOLEAN
      BY <2>4, <2>6
    <2>16. Fits(g)
      BY <2>6, <2>9, <2>11, <2>12, <2>13, <2>14, <2>15 DEF Fits
    <2> QED
      BY <1>1, <1>2, <2>16
  <1> QED
    BY <1>3, <1>4

(* A row has one token at least, and at most one more than its drafts. *)
Sized(row) ==
    /\ row.num_draft_tokens \in Nat
    /\ Len(row.tokens) \in 1..(1 + row.num_draft_tokens)

(* What the sampler keeps of the drafts of a row.                          *)
LEMMA SampledSize ==
    ASSUME NEW st, NEW scheduled, NEW sampled \in Samples(st, scheduled),
           NEW r \in ToSet(scheduled), Counted(st.seq[r], TRUE)
    PROVE  /\ st.seq[r].num_spec_tokens \in Nat
           /\ Len(sampled[r]) \in 1..(1 + st.seq[r].num_spec_tokens)
  <1>1. PICK s : s = st.seq[r]
    OBVIOUS
  <1>2. PICK n : n = IF s.is_prefill THEN 0 ELSE s.num_scheduled_tokens - 1
    OBVIOUS
  <1>3. sampled[r] \in SampleLists(n)
    BY <1>1, <1>2 DEF Samples
  <1>4. n = s.num_spec_tokens /\ s.num_spec_tokens \in Nat
    <2>1. /\ s.num_spec_tokens \in Nat /\ s.status = "RUNNING" /\ ~IsFinished(s)
      BY <1>1 DEF Counted, IsFinished
    <2>2. CASE s.is_prefill
      BY <1>1, <1>2, <2>1, <2>2 DEF Counted
    <2>3. CASE ~s.is_prefill
      <3>1. s.num_scheduled_tokens = 1 + s.num_spec_tokens
        BY <1>1, <2>3 DEF Counted
      <3> QED
        BY <1>2, <2>1, <2>3, <3>1
    <2> QED
      BY <2>2, <2>3
  <1>5. PICK k \in 0..n : sampled[r] \in [1..(k + 1) -> Vocab]
    BY <1>3 DEF SampleLists
  <1>6. Len(sampled[r]) = k + 1
    <2>1. k + 1 \in Nat /\ DOMAIN sampled[r] = 1..(k + 1)
      BY <1>4, <1>5
    <2> QED
      BY <1>5, <2>1
  <1> QED
    BY <1>1, <1>4, <1>5, <1>6

(* The rows of a flight are those of the launch, with their tokens. *)
Copies(rows, sampled, g) ==
    /\ Len(rows) \in Nat /\ Len(g) = Len(rows)
    /\ \A i \in 1..Len(g) :
        /\ g[i].req = rows[i].req /\ g[i].num_preemptions = rows[i].num_preemptions
        /\ g[i].num_draft_tokens = rows[i].num_draft_tokens
        /\ g[i].tokens = sampled[rows[i].req]

(* The rows of the step in flight.                                         *)
LEMMA FlightCopies ==
    ASSUME NEW st, NEW scheduled, NEW rows, Listed(rows, scheduled, Len(scheduled)), NEW sampled,
           NEW g, g = Flight(st, scheduled, rows, sampled).rows
    PROVE  Copies(rows, sampled, g)
  <1>1. PICK n \in Nat : n = Len(rows) /\ DOMAIN rows = 1..n
    BY DEF Listed, IsList
  <1>2. CASE scheduled = << >>
    <2>1. g = << >>
      BY <1>2 DEF Flight, NoStep
    <2>2. \A i \in 1..n : \E j \in 1..0 : rows[i].req = scheduled[j]
      BY <1>1, <1>2 DEF Listed
    <2>3. n = 0
      <3>1. ~(1 \in 1..n)
        BY <2>2
      <3> QED
        BY <1>1, <3>1
    <2> QED
      BY <1>1, <2>1, <2>3 DEF Copies
  <1>3. CASE scheduled # << >>
    <2> DEFINE R(i) == [req |-> rows[i].req, num_preemptions |-> rows[i].num_preemptions,
                        num_draft_tokens |-> rows[i].num_draft_tokens,
                        tokens |-> sampled[rows[i].req]]
    <2>1. g = [i \in 1..n |-> R(i)]
      BY <1>1, <1>3 DEF Flight
    <2>2. \A i \in 1..n :
            /\ R(i).req = rows[i].req /\ R(i).num_preemptions = rows[i].num_preemptions
            /\ R(i).num_draft_tokens = rows[i].num_draft_tokens
            /\ R(i).tokens = sampled[rows[i].req]
      OBVIOUS
    <2> HIDE DEF R
    <2>3. Len(g) = n /\ \A i \in 1..n : g[i] = R(i)
      BY <2>1
    <2> QED
      BY <1>1, <2>2, <2>3 DEF Copies
  <1> QED
    BY <1>2, <1>3

(* What is left, after a launch, of what was reserved before it. *)
Left(s, t) ==
    IF IsFinished(t) \/ t.num_preemptions # s.num_preemptions THEN 0 ELSE s.num_pending_tokens

(* What a launch leaves reserved for q. *)
Reserved(s, t, rows, q) ==
    /\ \A k \in 1..Len(rows) : rows[k].req = q =>
        t.num_pending_tokens = Left(s, t) + (1 + rows[k].num_draft_tokens)
    /\ NoRow(rows, q) => t.num_pending_tokens = Left(s, t)

(* What a launch leaves of the counters. *)
LaunchCounts(st, l) ==
    /\ Counts(l.st)
    /\ Fits(l.flight)
    /\ \A i \in 1..Len(l.flight.rows) : Sized(l.flight.rows[i])
    /\ Stamped(l.st, l.flight.rows)
    /\ \A q \in DOMAIN st.seq : Reserved(st.seq[q], l.st.seq[q], l.flight.rows, q)

(* Reservations, over a whole launch.                                      *)
LEMMA ReservedBy ==
    ASSUME NEW s, NEW u, NEW t, NEW rows, NEW q, Reserves(s, u), Tallied(u, t, rows, q),
           NEW sampled, NEW g, Copies(rows, sampled, g)
    PROVE  Reserved(s, t, g, q)
  <1>1. u.num_pending_tokens = Left(s, t)
    BY DEF Tallied, Reserves, Left, IsFinished
  <1>2. NoRow(g, q) => NoRow(rows, q)
    BY DEF Copies, NoRow
  <1>3. ASSUME NEW k \in 1..Len(g), g[k].req = q
        PROVE  t.num_pending_tokens = Left(s, t) + (1 + g[k].num_draft_tokens)
    BY <1>1, <1>3 DEF Copies, Tallied
  <1>4. NoRow(g, q) => t.num_pending_tokens = Left(s, t)
    BY <1>1, <1>2 DEF Tallied, NoRow
  <1> QED
    BY <1>3, <1>4 DEF Reserved

(* _launch: the counters of everyone are in order, and what is reserved is *)
(* what the rows in flight may sample.                                     *)
LEMMA LaunchCounted ==
    ASSUME NEW st, Settled(st), Counts(st), NEW rows, NEW l \in Launches(st, rows)
    PROVE  LaunchCounts(st, l)
  <1>1. PICK sc : sc = Schedule(st)
    OBVIOUS
  <1>2. Ready(st, sc) /\ Kept(st, sc.st, sc.out)
    BY <1>1, ScheduleReady, ScheduleKept
  <1>3. l \in LaunchScheduled(sc, rows)
    BY <1>1 DEF Launches
  <1>4. PICK report \in Reports(sc.st), sampled \in Samples(sc.st, sc.out.scheduled) :
          l = RunAndAdvance(UpdateFromKVConnectorOutput(sc.st, report), sc.out, rows, sampled,
                            LoadMemory(kv, sc.st, report))
    BY <1>3 DEF LaunchScheduled
  <1>5. PICK x : x = UpdateFromKVConnectorOutput(sc.st, report)
    OBVIOUS
  <1>6. PICK out : out = sc.out
    OBVIOUS
  <1>7. PICK D : D = ToSet(out.dropped)
    OBVIOUS
  <1>8. PICK y : y = sc.st
    OBVIOUS
  <1>9. PICK scheduled : scheduled = out.scheduled
    OBVIOUS
  <1>10. /\ Good(st, y, ToSet(y.running), D) /\ Planned(out, DOMAIN st.seq)
         /\ Queue(scheduled, DOMAIN st.seq) /\ ToSet(scheduled) \subseteq ToSet(y.running)
         /\ Kept(st, y, out)
    BY <1>2, <1>6, <1>7, <1>8, <1>9 DEF Ready, Planned
  <1>11. Exchanges(st, D, out, y, x)
    BY <1>5, <1>8, <1>9, <1>10, TransfersKept
  <1>12. PICK run : run = ToSet(x.running)
    OBVIOUS
  <1>13. Good(st, x, run, D) /\ Kept(st, x, out) /\ Spares(y, x)
    BY <1>11, <1>12 DEF Exchanges
  <1>14. DOMAIN x.seq = DOMAIN st.seq /\ DOMAIN y.seq = DOMAIN st.seq
    BY <1>10, <1>13, GoodFacts
  <1>15. PICK adv : adv = Advance(x, scheduled)
    OBVIOUS
  <1>16. PICK z : z = adv.st
    OBVIOUS
  <1>17. PICK arows : arows = adv.rows
    OBVIOUS
  <1>18. /\ Good(st, z, run, D) /\ Listed(arows, scheduled, Len(scheduled)) /\ Stamped(z, arows)
    BY <1>10, <1>13, <1>15, <1>16, <1>17, StepAdvanced
  <1>19. /\ z.sending = x.sending
         /\ \A q \in DOMAIN st.seq :
              Counted(z.seq[q], FALSE) /\ Tallied(x.seq[q], z.seq[q], arows, q)
    <2>1. StepTallies(x, adv)
      BY <1>9, <1>10, <1>13, <1>15, StepTallied
    <2> QED
      BY <1>14, <1>16, <1>17, <2>1 DEF StepTallies
  <1>20. PICK f : f = Flight(x, scheduled, arows, sampled)
    OBVIOUS
  <1>21. l.st = z /\ l.flight = f
    BY <1>4, <1>5, <1>6, <1>9, <1>15, <1>16, <1>17, <1>20 DEF RunAndAdvance
  <1>22. PICK g : g = f.rows
    OBVIOUS
  <1>23. Copies(arows, sampled, g)
    BY <1>18, <1>20, <1>22, FlightCopies
  <1>24. Counts(z)
    <2>1. DOMAIN z.seq = DOMAIN st.seq
      BY <1>18, GoodFacts
    <2>2. ASSUME NEW q \in z.sending \cap DOMAIN z.seq PROVE IsFinished(z.seq[q])
      <3>1. IsFinished(x.seq[q])
        BY <1>13, <1>14, <1>19, <2>1, <2>2 DEF Kept
      <3>2. z.seq[q].status = x.seq[q].status
        BY <1>19, <2>1, <2>2 DEF Tallied
      <3> QED
        BY <3>1, <3>2 DEF IsFinished
    <2> QED
      BY <1>19, <2>1, <2>2 DEF Counts
  <1>25. Fits(f)
    <2>1. Queue(out.scheduled, DOMAIN x.seq)
      BY <1>9, <1>10, <1>14
    <2> QED
      BY <1>9, <1>13, <1>20, <2>1, BatchFits
  <1>26. ASSUME NEW i \in 1..Len(g) PROVE Sized(g[i])
    <2>1. i \in 1..Len(arows)
      BY <1>23 DEF Copies
    <2>2. PICK j \in 1..Len(scheduled) : arows[i].req = scheduled[j]
      BY <1>18, <2>1 DEF Listed
    <2>3. PICK r : r = scheduled[j]
      OBVIOUS
    <2>4. r \in ToSet(scheduled) /\ r \in DOMAIN st.seq /\ r \in ToSet(y.running)
      <3>1. r \in ToSet(scheduled) /\ r \in DOMAIN st.seq
        BY <1>10, <2>3 DEF Queue, ToSet
      <3> QED
        BY <1>10, <3>1
    <2>5. y.seq[r].status = "RUNNING"
      BY <1>10, <1>14, <2>4 DEF Good, Placed
    <2>6. x.seq[r] = y.seq[r]
      BY <1>13, <1>14, <2>4, <2>5 DEF Spares
    <2>7. Counted(y.seq[r], TRUE)
      <3>1. Counted(y.seq[r], r \in ToSet(out.scheduled))
        BY <1>10, <1>14, <2>4 DEF Kept
      <3>2. (r \in ToSet(out.scheduled)) = TRUE
        BY <1>9, <2>4
      <3> QED
        BY <3>1, <3>2
    <2>8. PICK w : w = y.seq[r].num_spec_tokens
      OBVIOUS
    <2>9. w \in Nat /\ Len(sampled[r]) \in 1..(1 + w)
      BY <1>6, <1>8, <1>9, <2>4, <2>7, <2>8, SampledSize
    <2>10. Tallied(x.seq[r], z.seq[r], arows, r) /\ arows[i].req = r
      BY <1>19, <2>2, <2>3, <2>4
    <2>11. arows[i].num_draft_tokens = w
      BY <2>1, <2>6, <2>8, <2>10 DEF Tallied
    <2>12. g[i].num_draft_tokens = w /\ g[i].tokens = sampled[r]
      BY <1>23, <2>10, <2>11 DEF Copies
    <2> QED
      BY <2>9, <2>12 DEF Sized
  <1>27. Stamped(z, g)
    BY <1>18, <1>23 DEF Stamped, Copies
  <1>28. ASSUME NEW q \in DOMAIN st.seq PROVE Reserved(st.seq[q], z.seq[q], g, q)
    <2>1. Reserves(st.seq[q], x.seq[q])
      BY <1>13, <1>14 DEF Kept
    <2>2. Tallied(x.seq[q], z.seq[q], arows, q)
      BY <1>19
    <2> QED
      BY <1>23, <2>1, <2>2, ReservedBy
  <1> QED
    BY <1>21, <1>22, <1>24, <1>25, <1>26, <1>27, <1>28 DEF LaunchCounts

-----------------------------------------------------------------------------
(* Reconciling a step. *)

(* The counters of a sequence whose row is being committed: after i tokens *)
(* and no stop, i reservations are used up.                                *)
Uses(g, s, reason, i) ==
    /\ DOMAIN s = SeqFields /\ s.token_ids \in Seq(Vocab)
    /\ s.is_prefill = g.is_prefill /\ s.num_cached_tokens = g.num_cached_tokens
    /\ s.num_spec_tokens = g.num_spec_tokens
    /\ s.num_scheduled_tokens = g.num_scheduled_tokens
    /\ reason = NoReason =>
        /\ s.num_pending_tokens = g.num_pending_tokens - i
        /\ NumTokens(s) = NumTokens(g) + i

(* The loop that commits the tokens of a row.                              *)
UsesInv(a, b, c, p, i) == Uses(a, p.s, p.reason, i)
UsesLoop == INSTANCE Loops WITH Round <- CommitRound, Inv <- UsesInv

(* One token more.                                                         *)
LEMMA NextUsed ==
    ASSUME NEW g, IsSeq(g), g.num_pending_tokens \in Nat, NEW r, NEW p, NEW i \in Nat, i > 0,
           Uses(g, p.s, p.reason, i - 1), NEW token \in Vocab
    PROVE  LET x == CommitNext(p, r, token) IN Uses(g, x.s, x.reason, i)
  <1>1. CASE p.reason # NoReason
    <2>1. CommitNext(p, r, token) = p
      BY <1>1 DEF CommitNext
    <2> QED
      BY <1>1, <2>1 DEF Uses
  <1>2. CASE p.reason = NoReason
    <2>1. PICK s : s = p.s
      OBVIOUS
    <2>2. PICK t : t = Append(s.token_ids, token)
      OBVIOUS
    <2>3. PICK c : c = [CommitToken(s, token) EXCEPT !.num_new_tokens = @ + 1]
      OBVIOUS
    <2>4. PICK why : why = StopReason(c, r, token)
      OBVIOUS
    <2>5. PICK x : x = [s |-> c, reason |-> why]
      OBVIOUS
    <2>6. CommitNext(p, r, token) = x
      BY <1>2, <2>1, <2>3, <2>4, <2>5 DEF CommitNext
    <2>7. x.s = c /\ x.reason = why
      BY <2>5
    <2>8. /\ DOMAIN s = SeqFields /\ s.token_ids \in Seq(Vocab)
          /\ s.is_prefill = g.is_prefill /\ s.num_cached_tokens = g.num_cached_tokens
          /\ s.num_spec_tokens = g.num_spec_tokens
          /\ s.num_scheduled_tokens = g.num_scheduled_tokens
          /\ s.num_pending_tokens = g.num_pending_tokens - (i - 1)
          /\ NumTokens(s) = NumTokens(g) + (i - 1)
      BY <1>2, <2>1 DEF Uses
    <2>9. /\ DOMAIN c = SeqFields /\ c.token_ids = t
          /\ c.is_prefill = s.is_prefill /\ c.num_cached_tokens = s.num_cached_tokens
          /\ c.num_spec_tokens = s.num_spec_tokens
          /\ c.num_scheduled_tokens = s.num_scheduled_tokens
          /\ c.num_pending_tokens = s.num_pending_tokens - 1
      BY <2>2, <2>3, <2>8 DEF CommitToken, SeqFields
    <2>10. t \in Seq(Vocab) /\ Len(t) = Len(s.token_ids) + 1
      BY <2>2, <2>8
    <2>11. NumTokens(c) = NumTokens(s) + 1 /\ NumTokens(g) \in Nat
      BY <2>9, <2>10 DEF NumTokens, IsSeq
    <2>12. c.num_pending_tokens = g.num_pending_tokens - i
      BY <2>8, <2>9
    <2>13. NumTokens(c) = NumTokens(g) + i
      BY <2>8, <2>11
    <2>14. Uses(g, c, why, i)
      BY <2>8, <2>9, <2>10, <2>12, <2>13 DEF Uses
    <2> QED
      BY <2>6, <2>7, <2>14
  <1> QED
    BY <1>1, <1>2

(* The tokens of a row use up as many reservations, unless one stops it.   *)
LEMMA RowUses ==
    ASSUME NEW s, IsSeq(s), s.num_pending_tokens \in Nat, NEW r, NEW tokens \in Seq(Vocab)
    PROVE  LET x == CommitRow(s, r, tokens) IN Uses(s, x.s, x.reason, Len(tokens))
  <1>1. PICK s0 : s0 = [s EXCEPT !.num_new_tokens = 0]
    OBVIOUS
  <1>2. PICK start : start = [s |-> s0, reason |-> NoReason]
    OBVIOUS
  <1>3. start.s = s0 /\ start.reason = NoReason
    BY <1>2
  <1>4. /\ DOMAIN s0 = SeqFields /\ s0.token_ids = s.token_ids
        /\ s0.is_prefill = s.is_prefill /\ s0.num_cached_tokens = s.num_cached_tokens
        /\ s0.num_spec_tokens = s.num_spec_tokens
        /\ s0.num_scheduled_tokens = s.num_scheduled_tokens
        /\ s0.num_pending_tokens = s.num_pending_tokens
    BY <1>1 DEF IsSeq, SeqFields
  <1>5. s.token_ids \in Seq(Vocab) /\ NumTokens(s) \in Nat
    BY DEF IsSeq, NumTokens
  <1>6. NumTokens(s0) = NumTokens(s) + 0 /\ s0.num_pending_tokens = s.num_pending_tokens - 0
    <2>1. NumTokens(s0) = NumTokens(s)
      BY <1>4 DEF NumTokens
    <2> QED
      BY <1>4, <1>5, <2>1
  <1>7. UsesInv(s, r, tokens, start, 0)
    BY <1>3, <1>4, <1>5, <1>6 DEF UsesInv, Uses
  <1>8. PICK k : k = Len(tokens)
    OBVIOUS
  <1>9. k \in Nat /\ \A i \in 1..k : tokens[i] \in Vocab
    BY <1>8
  <1>10. ASSUME NEW i \in 1..k, NEW q, UsesInv(s, r, tokens, q, i - 1)
         PROVE  UsesInv(s, r, tokens, CommitRound(s, r, tokens, q, i), i)
    <2>1. PICK token \in Vocab : token = tokens[i]
      BY <1>9
    <2>2. PICK x : x = CommitNext(q, r, token)
      OBVIOUS
    <2>3. i \in Nat /\ i > 0
      BY <1>9
    <2>4. Uses(s, x.s, x.reason, i)
      BY <1>10, <2>2, <2>3, NextUsed DEF UsesInv
    <2> QED
      BY <2>1, <2>2, <2>4 DEF UsesInv, CommitRound
  <1>11. UsesInv(s, r, tokens, UsesLoop!Loop(s, r, tokens, start, k), k)
    BY <1>7, <1>9, <1>10, CountsUp, UsesLoop!LoopInvariant
  <1>12. CommitRow(s, r, tokens) = UsesLoop!Loop(s, r, tokens, start, k)
    BY <1>1, <1>2, <1>8 DEF CommitRow, Repeat, UsesLoop!Loop, CommitRound
  <1> QED
    BY <1>8, <1>11, <1>12 DEF UsesInv

(* The blocks of an ended sequence are held for a send, or released.       *)
LEMMA FreedCounts ==
    ASSUME NEW st, DOMAIN st = SchedFields, NEW r \in DOMAIN st.seq, IsSeq(st.seq[r]),
           Counted(st.seq[r], FALSE), IsFinished(st.seq[r]), NEW x, x = Free(st, r)
    PROVE  Counted(x.seq[r], FALSE) /\ IsFinished(x.seq[r])
  <1>1. PICK s : s = st.seq[r]
    OBVIOUS
  <1>2. CASE HandsOver(s)
    <2>1. PICK l : l = (r :> SubSeq(s.block_table, 1,
                                    Min({CeilDiv(s.num_prompt_tokens, BlockSize),
                                         Len(s.block_table)}))) @@ st.sends
      OBVIOUS
    <2>2. x = [st EXCEPT !.sending = @ \cup {r}, !.sends = l]
      BY <1>1, <1>2, <2>1 DEF Free, SchedFields
    <2>3. x.seq = st.seq
      BY <2>2 DEF SchedFields
    <2> QED
      BY <2>3
  <1>3. CASE ~HandsOver(s)
    <2>1. PICK res : res = Deallocate(st.bm, s)
      OBVIOUS
    <2>2. PICK t : t = res.seq
      OBVIOUS
    <2>3. x = WithBlocks(st, r, res)
      BY <1>1, <1>3, <2>1 DEF Free, ReleaseBlocks
    <2>4. x.seq[r] = t
      BY <2>2, <2>3 DEF WithBlocks, SchedFields
    <2>5. Counted(t, FALSE) /\ IsFinished(t)
      BY <1>1, <2>1, <2>2, ReleasedCounts
    <2> QED
      BY <2>4, <2>5
  <1> QED
    BY <1>2, <1>3

(* What is left of r once its row was reconciled. *)
Settles(st, x, r, n) ==
    /\ Counted(x.seq[r], FALSE)
    /\ ~IsFinished(x.seq[r]) => x.seq[r].num_pending_tokens = n
    /\ \/ IsFinished(x.seq[r]) /\ x.sending \subseteq st.sending \cup {r}
       \/ x.sending = st.sending

(* s without the drafts that were rejected: m tokens of its row are left,  *)
(* and n are reserved by the step after it.                                *)
Returned(s, g, n, m) ==
    /\ SameLife(s, g) /\ IsSeq(g) /\ g.is_prefill \in BOOLEAN /\ ~g.is_prefill
    /\ g.num_pending_tokens = n + m /\ NumTokens(g) = NumTokens(s)
    /\ g.num_cached_tokens = NumTokens(s) + n + m - 1 /\ g.num_cached_tokens \in Nat
    /\ g.num_spec_tokens = s.num_spec_tokens /\ g.num_scheduled_tokens = 0

(* The drafts the sampler rejected are given back.                         *)
LEMMA GivenBack ==
    ASSUME NEW s, IsSeq(s), Counted(s, FALSE), s.status = "RUNNING", NEW n \in Nat, NEW d \in Nat,
           NEW m \in 1..(1 + d), s.num_pending_tokens = n + (1 + d),
           NEW g, g = GiveBack(s, d - (m - 1))
    PROVE  Returned(s, g, n, m)
  <1>1. /\ s.is_prefill \in BOOLEAN /\ s.num_cached_tokens \in Nat /\ s.num_scheduled_tokens = 0
        /\ s.num_prompt_tokens > 0 /\ s.num_prompt_tokens <= NumTokens(s) /\ ~IsFinished(s)
    BY DEF Counted, IsFinished
  <1>2. NumTokens(s) \in Nat /\ s.num_prompt_tokens \in Nat
    BY DEF IsSeq, NumTokens
  <1>3. s.num_pending_tokens # 0
    OBVIOUS
  <1>4. ~s.is_prefill
    BY <1>1, <1>3 DEF Counted
  <1>5. s.num_cached_tokens = NumPlannedTokens(s) - 1
    BY <1>1, <1>4 DEF Counted
  <1>6. NumPlannedTokens(s) = NumTokens(s) + s.num_pending_tokens
    BY DEF NumPlannedTokens
  <1>7. PICK k \in Int : k = d - (m - 1)
    OBVIOUS
  <1>8. PICK c : c = s.num_cached_tokens - k
    OBVIOUS
  <1>9. PICK p : p = s.num_pending_tokens - k
    OBVIOUS
  <1>10. g = [s EXCEPT !.num_cached_tokens = c, !.num_pending_tokens = p]
    BY <1>7, <1>8, <1>9 DEF GiveBack, IsSeq, SeqFields
  <1>11. p = n + m
    BY <1>7, <1>9
  <1>12. c = NumTokens(s) + n + m - 1 /\ c \in Nat
    <2>1. s.num_cached_tokens = NumTokens(s) + n + d
      BY <1>2, <1>5, <1>6
    <2> QED
      BY <1>1, <1>2, <1>7, <1>8, <2>1
  <1>13. /\ SameLife(s, g) /\ IsSeq(g) /\ g.is_prefill = s.is_prefill
         /\ g.num_pending_tokens = p /\ g.num_cached_tokens = c
         /\ g.num_spec_tokens = s.num_spec_tokens
         /\ g.num_scheduled_tokens = s.num_scheduled_tokens
    BY <1>10 DEF SameLife, SameTokens, IsSeq, SeqFields
  <1>14. NumTokens(g) = NumTokens(s)
    BY <1>13 DEF SameLife, SameTokens, NumTokens
  <1>15. g.is_prefill \in BOOLEAN /\ ~g.is_prefill
    BY <1>1, <1>4, <1>13
  <1> QED
    BY <1>1, <1>11, <1>12, <1>13, <1>14, <1>15 DEF Returned

(* A sequence whose row is committed, once it has not stopped.             *)
LEMMA CommittedCounts ==
    ASSUME NEW g, IsSeq(g), NEW cs, NEW reason, NEW n \in Nat, NEW m \in Nat, reason = NoReason,
           g.is_prefill \in BOOLEAN /\ ~g.is_prefill, g.num_pending_tokens = n + m,
           g.num_cached_tokens = NumTokens(g) + n + m - 1, g.num_cached_tokens \in Nat,
           g.num_spec_tokens \in Nat, g.num_scheduled_tokens = 0,
           g.num_prompt_tokens > 0, g.num_prompt_tokens <= NumTokens(g),
           Uses(g, cs, reason, m), IsSeq(cs), cs.num_prompt_tokens = g.num_prompt_tokens,
           cs.status = "RUNNING"
    PROVE  Counted(cs, FALSE) /\ cs.num_pending_tokens = n
  <1>1. /\ cs.is_prefill = g.is_prefill /\ cs.num_cached_tokens = g.num_cached_tokens
        /\ cs.num_spec_tokens = g.num_spec_tokens
        /\ cs.num_scheduled_tokens = g.num_scheduled_tokens
        /\ cs.num_pending_tokens = g.num_pending_tokens - m
        /\ NumTokens(cs) = NumTokens(g) + m
    BY DEF Uses
  <1>2. NumTokens(g) \in Nat /\ g.num_prompt_tokens \in Nat
    BY DEF IsSeq, NumTokens
  <1>3. cs.num_pending_tokens = n
    BY <1>1
  <1>4. NumPlannedTokens(cs) = NumTokens(g) + m + n
    BY <1>1, <1>3 DEF NumPlannedTokens
  <1>5. cs.num_cached_tokens = NumPlannedTokens(cs) - 1 /\ cs.num_cached_tokens \in Nat
    BY <1>1, <1>2, <1>4
  <1>6. cs.is_prefill \in BOOLEAN /\ ~cs.is_prefill /\ ~IsFinished(cs)
    BY <1>1 DEF IsFinished
  <1>7. cs.num_prompt_tokens > 0 /\ cs.num_prompt_tokens <= NumTokens(cs)
    BY <1>1, <1>2
  <1>8. cs.num_spec_tokens \in Nat /\ cs.num_scheduled_tokens = 0
    BY <1>1
  <1>9. Counted(cs, FALSE)
    BY <1>3, <1>5, <1>6, <1>7, <1>8 DEF Counted
  <1> QED
    BY <1>3, <1>9

(* Drafts for the next step.                                               *)
LEMMA DraftedCounts ==
    ASSUME NEW cs, IsSeq(cs), Counted(cs, FALSE), cs.status = "RUNNING",
           cs.is_prefill \in BOOLEAN /\ ~cs.is_prefill, NEW t,
           t = IF NumSpeculativeTokens > 0 /\ cs.num_pending_tokens = 0
               THEN [cs EXCEPT !.num_spec_tokens = NumSpeculativeTokens] ELSE cs
    PROVE  Counted(t, FALSE) /\ t.num_pending_tokens = cs.num_pending_tokens
  <1>1. CASE t = cs
    BY <1>1
  <1>2. CASE t = [cs EXCEPT !.num_spec_tokens = NumSpeculativeTokens]
    <2>1. /\ t.is_prefill = cs.is_prefill /\ t.num_cached_tokens = cs.num_cached_tokens
          /\ t.num_pending_tokens = cs.num_pending_tokens
          /\ t.num_scheduled_tokens = cs.num_scheduled_tokens
          /\ t.num_spec_tokens = NumSpeculativeTokens /\ t.status = cs.status
          /\ t.num_prompt_tokens = cs.num_prompt_tokens /\ t.token_ids = cs.token_ids
      BY <1>2 DEF IsSeq, SeqFields
    <2>2. NumTokens(t) = NumTokens(cs) /\ NumPlannedTokens(t) = NumPlannedTokens(cs)
      BY <2>1 DEF NumTokens, NumPlannedTokens
    <2>3. t.is_prefill \in BOOLEAN /\ ~t.is_prefill /\ ~IsFinished(t) /\ ~IsFinished(cs)
      BY <2>1 DEF IsFinished
    <2>4. t.num_spec_tokens \in Nat
      BY <2>1, SchedulerAssumption
    <2>5. Counted(t, FALSE)
      BY <2>1, <2>2, <2>3, <2>4 DEF Counted
    <2> QED
      BY <2>1, <2>5
  <1> QED
    BY <1>1, <1>2

(* A sequence that may be ended as it is. *)
MayEnd(cs) ==
    /\ IsSeq(cs) /\ cs.is_prefill \in BOOLEAN /\ cs.num_cached_tokens \in Nat
    /\ cs.num_spec_tokens \in Nat /\ cs.num_scheduled_tokens = 0
    /\ cs.num_prompt_tokens > 0 /\ cs.num_prompt_tokens <= NumTokens(cs)

(* A sequence that a committed token has stopped.                          *)
LEMMA StoppedCounts ==
    ASSUME NEW y1, DOMAIN y1 = SchedFields, NEW r \in DOMAIN y1.seq, NEW cs, NEW reason, MayEnd(cs),
           y1.seq[r] = DropPending(cs), NEW y2, y2 = Drop(y1, r, reason), NEW y, y = Free(y2, r)
    PROVE  /\ Counted(y.seq[r], FALSE) /\ IsFinished(y.seq[r])
           /\ y.sending \subseteq y1.sending \cup {r}
  <1>1. PICK d : d = DropPending(cs)
    OBVIOUS
  <1>2. /\ SameLife(cs, d) /\ IsSeq(d) /\ d.is_prefill = cs.is_prefill
        /\ d.num_cached_tokens = cs.num_cached_tokens /\ d.num_spec_tokens = cs.num_spec_tokens
        /\ d.num_scheduled_tokens = cs.num_scheduled_tokens
    BY <1>1 DEF DropPending, SameLife, SameTokens, IsSeq, SeqFields, MayEnd
  <1>3. DOMAIN y1 = SchedFields /\ y1.seq[r] = d
    BY <1>1
  <1>4. PICK e : e = y2.seq[r]
    OBVIOUS
  <1>5. /\ Alters(y1, y2, r) /\ DOMAIN e = SeqFields
        /\ SameTokens(d, e) /\ e.status = "FINISHED" /\ e.finish_reason = reason
        /\ e.num_preemptions = d.num_preemptions
        /\ e.num_pending_tokens = 0 /\ e.num_cached_tokens = d.num_cached_tokens
        /\ e.is_prefill = d.is_prefill /\ e.num_spec_tokens = d.num_spec_tokens
        /\ e.num_scheduled_tokens = d.num_scheduled_tokens
    <2>1. r \in DOMAIN y1.seq /\ IsSeq(y1.seq[r]) /\ d = y1.seq[r]
      BY <1>2, <1>3
    <2> QED
      BY <1>3, <1>4, <2>1, DropEnds
  <1>6. /\ e.is_prefill \in BOOLEAN /\ e.num_cached_tokens \in Nat /\ e.num_spec_tokens \in Nat
        /\ e.num_scheduled_tokens = 0
    BY <1>2, <1>5 DEF MayEnd
  <1>7. e.num_prompt_tokens > 0 /\ e.num_prompt_tokens <= NumTokens(e)
    <2>1. e.num_prompt_tokens = cs.num_prompt_tokens /\ e.token_ids = cs.token_ids
      BY <1>2, <1>5 DEF SameLife, SameTokens
    <2> QED
      BY <2>1 DEF NumTokens, MayEnd
  <1>8. IsFinished(e) /\ IsSeq(e)
    BY <1>5 DEF IsFinished, SameTokens
  <1>9. Counted(e, FALSE)
    BY <1>5, <1>6, <1>7, <1>8 DEF Counted
  <1>10. DOMAIN y2 = SchedFields /\ r \in DOMAIN y2.seq
    BY <1>3, <1>5 DEF Drop, Finish, SchedFields, Alters
  <1>11. Counted(y.seq[r], FALSE) /\ IsFinished(y.seq[r])
    BY <1>4, <1>8, <1>9, <1>10, FreedCounts
  <1>12. y2.sending = y1.sending
    BY <1>3 DEF Drop, Finish, SchedFields
  <1>13. Frees(y2, y, r)
    BY <1>4, <1>8, <1>10, FreeMoves
  <1> QED
    BY <1>3, <1>11, <1>12, <1>13 DEF Frees

(* reconcile(), for a row that counts: its reservations are gone.          *)
LEMMA RowCounted ==
    ASSUME NEW st, Settled(st), NEW row, RowFits(st, row), ~RowIsVoid(st, row), Sized(row),
           NumCompletionTokens(st.seq[row.req]) < MaxTokens[row.req], NEW acc, acc.st = st,
           Counted(st.seq[row.req], FALSE), NEW n \in Nat,
           st.seq[row.req].num_pending_tokens = n + (1 + row.num_draft_tokens)
    PROVE  LET x == ReconcileRow(acc, row) IN Settles(st, x.st, row.req, n)
  <1>1. PICK r : r = row.req
    OBVIOUS
  <1>2. PICK s : s = st.seq[r]
    OBVIOUS
  <1>3. /\ r \in DOMAIN st.seq /\ r \in Reqs /\ row.tokens \in Seq(Vocab) /\ s.status = "RUNNING"
        /\ IsSeq(s) /\ DOMAIN st = SchedFields
    BY <1>1, <1>2 DEF RowFits, Settled, Shape
  <1>4. PICK tokens \in Seq(Vocab) : tokens = row.tokens
    BY <1>3
  <1>5. PICK d : d = row.num_draft_tokens
    OBVIOUS
  <1>6. PICK m : m = Len(tokens)
    OBVIOUS
  <1>7. d \in Nat /\ m \in 1..(1 + d) /\ m \in Nat /\ s.num_pending_tokens = n + (1 + d)
    BY <1>1, <1>2, <1>4, <1>5, <1>6 DEF Sized
  <1>8. PICK g : g = GiveBack(s, d - (m - 1))
    OBVIOUS
  <1>9. Counted(s, FALSE)
    BY <1>1, <1>2
  <1>10. /\ SameLife(s, g) /\ IsSeq(g) /\ g.is_prefill \in BOOLEAN /\ ~g.is_prefill
         /\ g.num_pending_tokens = n + m /\ NumTokens(g) = NumTokens(s)
         /\ g.num_cached_tokens = NumTokens(s) + n + m - 1 /\ g.num_cached_tokens \in Nat
         /\ g.num_spec_tokens = s.num_spec_tokens /\ g.num_scheduled_tokens = 0
    <2>1. Returned(s, g, n, m)
      BY <1>3, <1>7, <1>8, <1>9, GivenBack
    <2> QED
      BY <2>1 DEF Returned
  <1>11. /\ g.num_prompt_tokens = s.num_prompt_tokens /\ g.status = "RUNNING"
         /\ g.num_spec_tokens \in Nat /\ s.num_prompt_tokens \in Nat /\ NumTokens(s) \in Nat
         /\ s.num_prompt_tokens > 0 /\ s.num_prompt_tokens <= NumTokens(s)
    BY <1>3, <1>9, <1>10 DEF SameLife, SameTokens, Counted, IsSeq, NumTokens
  <1>12. PICK c : c = CommitRow(g, r, tokens)
    OBVIOUS
  <1>13. PICK cs : cs = c.s
    OBVIOUS
  <1>14. PICK why : why = c.reason
    OBVIOUS
  <1>15. Committing(g, r, cs, why)
    <2>1. NumCompletionTokens(g) < MaxTokens[r]
      BY <1>1, <1>2, <1>10, <1>11 DEF NumCompletionTokens
    <2> QED
      BY <1>3, <1>10, <1>12, <1>13, <1>14, <2>1, RowCommitted
  <1>16. Uses(g, cs, why, m)
    <2>1. g.num_pending_tokens \in Nat
      BY <1>7, <1>10
    <2> QED
      BY <1>6, <1>10, <1>12, <1>13, <1>14, <2>1, RowUses
  <1>17. /\ IsSeq(cs) /\ cs.status = "RUNNING" /\ cs.num_prompt_tokens = g.num_prompt_tokens
         /\ NumTokens(cs) = NumTokens(g) + cs.num_new_tokens /\ cs.num_new_tokens \in Nat
    BY <1>11, <1>15 DEF Committing, Grown, NumTokens, IsSeq
  <1>18. PICK x : x = ReconcileRow(acc, row)
    OBVIOUS
  <1>19. ASSUME why = NoReason PROVE Settles(st, x.st, r, n)
    <2>1. PICK t : t = IF NumSpeculativeTokens > 0 /\ cs.num_pending_tokens = 0
                       THEN [cs EXCEPT !.num_spec_tokens = NumSpeculativeTokens] ELSE cs
      OBVIOUS
    <2>2. PICK y : y = [st EXCEPT !.seq[r] = t]
      OBVIOUS
    <2>3. PICK ms : ms = Append(acc.stepped, r)
      OBVIOUS
    <2>4. x = [st |-> y, stepped |-> ms]
      BY <1>1, <1>2, <1>4, <1>5, <1>6, <1>8, <1>12, <1>13, <1>14, <1>18, <1>19, <2>1, <2>2, <2>3
         DEF ReconcileRow
    <2>5. g.num_cached_tokens = NumTokens(g) + n + m - 1 /\ g.num_prompt_tokens > 0
          /\ g.num_prompt_tokens <= NumTokens(g)
      BY <1>10, <1>11
    <2>6. Counted(cs, FALSE) /\ cs.num_pending_tokens = n
      BY <1>7, <1>10, <1>11, <1>16, <1>17, <1>19, <2>5, CommittedCounts
    <2>7. cs.is_prefill \in BOOLEAN /\ ~cs.is_prefill
      BY <1>10, <1>16 DEF Uses
    <2>8. Counted(t, FALSE) /\ t.num_pending_tokens = cs.num_pending_tokens
      BY <1>17, <2>1, <2>6, <2>7, DraftedCounts
    <2>9. y.seq[r] = t /\ y.sending = st.sending
      BY <1>3, <2>2 DEF SchedFields
    <2>10. Settles(st, y, r, n)
      BY <2>6, <2>8, <2>9 DEF Settles
    <2> QED
      BY <2>4, <2>10
  <1>20. ASSUME why # NoReason PROVE Settles(st, x.st, r, n)
    <2>1. PICK w : w = Without(st.running, r)
      OBVIOUS
    <2>2. PICK y1 : y1 = [st EXCEPT !.seq[r] = DropPending(cs), !.running = w]
      OBVIOUS
    <2>3. PICK y2 : y2 = Drop(y1, r, why)
      OBVIOUS
    <2>4. PICK y : y = Free(y2, r)
      OBVIOUS
    <2>5. PICK ms : ms = Append(acc.stepped, r)
      OBVIOUS
    <2>6. x = [st |-> y, stepped |-> ms]
      <3>1. y1 = [st EXCEPT !.seq[r] = DropPending(c.s), !.running = Without(@, r)]
        BY <1>3, <1>13, <2>1, <2>2 DEF SchedFields
      <3> QED
        BY <1>1, <1>2, <1>4, <1>5, <1>6, <1>8, <1>12, <1>14, <1>18, <1>20, <2>3, <2>4, <2>5, <3>1
           DEF ReconcileRow
    <2>7. cs.num_prompt_tokens > 0 /\ cs.num_prompt_tokens <= NumTokens(cs)
      BY <1>10, <1>11, <1>17
    <2>8. /\ Counted(y.seq[r], FALSE) /\ IsFinished(y.seq[r])
          /\ y.sending \subseteq st.sending \cup {r}
      <3>1. MayEnd(cs)
        BY <1>10, <1>11, <1>16, <1>17, <2>7 DEF MayEnd, Uses
      <3> QED
        <4>1. /\ DOMAIN y1 = SchedFields /\ r \in DOMAIN y1.seq /\ y1.seq[r] = DropPending(cs)
              /\ y1.sending = st.sending
          BY <1>3, <2>2 DEF SchedFields
        <4>2. /\ Counted(y.seq[r], FALSE) /\ IsFinished(y.seq[r])
              /\ y.sending \subseteq y1.sending \cup {r}
          BY <2>3, <2>4, <3>1, <4>1, StoppedCounts
        <4> QED
          BY <4>1, <4>2
    <2>9. Settles(st, y, r, n)
      BY <2>8 DEF Settles
    <2> QED
      BY <2>6, <2>9
  <1> QED
    BY <1>1, <1>18, <1>19, <1>20

(* What is reserved for a live sequence after i rows: what its row will    *)
(* commit, if that is still to come and not void, and n more for the step  *)
(* launched after it.                                                      *)
Owes(st, rows, n, q, i) ==
    ~IsFinished(st.seq[q]) =>
        /\ \A j \in (i + 1)..Len(rows) : rows[j].req = q /\ ~RowIsVoid(st, rows[j]) =>
             st.seq[q].num_pending_tokens = n + (1 + rows[j].num_draft_tokens)
        /\ (\A j \in (i + 1)..Len(rows) : rows[j].req = q => RowIsVoid(st, rows[j])) =>
             st.seq[q].num_pending_tokens = n

(* That of everyone.                                                       *)
Owing(st, rows, N, i) == \A q \in DOMAIN st.seq : Owes(st, rows, N[q], q, i)

(* The row of another request changes nothing.                             *)
LEMMA OwesOn ==
    ASSUME NEW st, NEW x, NEW rows, NEW n, NEW q, NEW i \in 1..Len(rows), Len(rows) \in Nat,
           rows[i].req # q, x.seq[q] = st.seq[q], Owes(st, rows, n, q, i - 1)
    PROVE  Owes(x, rows, n, q, i)
  <1>1. \A j : j \in i..Len(rows) <=> (j \in (i + 1)..Len(rows) \/ j = i)
    OBVIOUS
  <1>2. (i - 1) + 1 = i
    OBVIOUS
  <1>3. \A j \in 1..Len(rows) : rows[j].req = q => (RowIsVoid(x, rows[j]) <=> RowIsVoid(st, rows[j]))
    BY DEF RowIsVoid
  <1>4. \A j \in (i + 1)..Len(rows) : j \in 1..Len(rows)
    OBVIOUS
  <1>5. ASSUME ~IsFinished(x.seq[q]), NEW j \in (i + 1)..Len(rows), rows[j].req = q,
               ~RowIsVoid(x, rows[j])
        PROVE  x.seq[q].num_pending_tokens = n + (1 + rows[j].num_draft_tokens)
    BY <1>1, <1>2, <1>3, <1>4, <1>5 DEF Owes
  <1>6. ASSUME ~IsFinished(x.seq[q]),
               \A j \in (i + 1)..Len(rows) : rows[j].req = q => RowIsVoid(x, rows[j])
        PROVE  x.seq[q].num_pending_tokens = n
    <2>1. \A j \in i..Len(rows) : rows[j].req = q => RowIsVoid(st, rows[j])
      BY <1>1, <1>3, <1>4, <1>6
    <2> QED
      BY <1>2, <1>6, <2>1 DEF Owes
  <1> QED
    BY <1>5, <1>6 DEF Owes

(* Once its row is behind, only what comes after it is reserved.           *)
LEMMA OwesNoMore ==
    ASSUME NEW st, NEW rows, NEW n, NEW q, NEW i \in 1..Len(rows), Len(rows) \in Nat,
           rows[i].req = q, \A j \in 1..Len(rows) : rows[j].req = q => j = i,
           ~IsFinished(st.seq[q]) => st.seq[q].num_pending_tokens = n
    PROVE  Owes(st, rows, n, q, i)
  <1>1. \A j \in (i + 1)..Len(rows) : rows[j].req # q
    <2> SUFFICES ASSUME NEW j \in (i + 1)..Len(rows), rows[j].req = q PROVE FALSE
      OBVIOUS
    <2>1. j \in 1..Len(rows) /\ j # i
      OBVIOUS
    <2> QED
      BY <2>1
  <1> QED
    BY <1>1 DEF Owes

(* One row more.                                                           *)
LEMMA NextOwing ==
    ASSUME NEW st0, Settled(st0), ShortOfLimit(st0), NEW rows, RowsFit(st0, rows),
           \A j \in 1..Len(rows) : Sized(rows[j]),
           NEW N, \A q \in DOMAIN st0.seq : N[q] \in Nat,
           NEW i \in 1..Len(rows), NEW p, Reconciled(st0, rows, p.st, p.stepped, i - 1),
           Counts(p.st), Owing(p.st, rows, N, i - 1)
    PROVE  LET x == ReconcileRow(p, rows[i]) IN Counts(x.st) /\ Owing(x.st, rows, N, i)
  <1>1. PICK row : row = rows[i]
    OBVIOUS
  <1>2. PICK r : r = row.req
    OBVIOUS
  <1>3. PICK st : st = p.st
    OBVIOUS
  <1>4. PICK old : old = p.stepped
    OBVIOUS
  <1>5. /\ Settled(st) /\ DOMAIN st.seq = DOMAIN st0.seq
        /\ \A q \in DOMAIN st0.seq :
             IF q \in ToSet(old)
             THEN /\ Commits(q, st0.seq[q], st.seq[q])
                  /\ \E j \in 1..(i - 1) : rows[j].req = q /\ ~RowIsVoid(st0, rows[j])
             ELSE st.seq[q] = st0.seq[q]
    BY <1>3, <1>4 DEF Reconciled
  <1>6. Len(rows) \in Nat /\ \A j \in 1..Len(rows) : rows[j].req = r => j = i
    BY <1>1, <1>2 DEF RowsFit
  <1>7. RowFits(st0, row) /\ r \in DOMAIN st0.seq
    BY <1>1, <1>2 DEF RowsFit, RowFits
  <1>8. st.seq[r] = st0.seq[r]
    <2>1. r \notin ToSet(old)
      <3> SUFFICES ASSUME r \in ToSet(old) PROVE FALSE
        OBVIOUS
      <3>1. PICK j \in 1..(i - 1) : rows[j].req = r
        BY <1>5, <1>7
      <3>2. j \in 1..Len(rows) /\ j # i
        BY <1>6
      <3> QED
        BY <1>6, <3>1, <3>2
    <2> QED
      BY <1>5, <1>7, <2>1
  <1>9. PICK x : x = ReconcileRow(p, row)
    OBVIOUS
  <1>10. PICK n : n = N[r]
    OBVIOUS
  <1>11. n \in Nat /\ Owes(st, rows, n, r, i - 1) /\ Counted(st.seq[r], FALSE)
    BY <1>3, <1>5, <1>7, <1>10 DEF Owing, Counts
  <1>12. (i - 1) + 1 = i /\ i \in i..Len(rows) /\ \A j \in i..Len(rows) : j \in 1..Len(rows)
    BY <1>6
  <1>13. CASE RowIsVoid(st, row)
    <2>1. x = p
      BY <1>3, <1>9, <1>13 DEF ReconcileRow
    <2>2. ~IsFinished(st.seq[r]) => st.seq[r].num_pending_tokens = n
      <3>1. \A j \in i..Len(rows) : rows[j].req = r => RowIsVoid(st, rows[j])
        BY <1>1, <1>6, <1>12, <1>13
      <3> QED
        BY <1>11, <1>12, <3>1 DEF Owes
    <2>3. ASSUME NEW q \in DOMAIN st.seq PROVE Owes(st, rows, N[q], q, i)
      <3>1. CASE q = r
        <4>1. Owes(st, rows, n, r, i)
          BY <1>1, <1>2, <1>6, <2>2, OwesNoMore
        <4> QED
          BY <1>10, <3>1, <4>1
      <3>2. CASE q # r
        <4>1. Owes(st, rows, N[q], q, i - 1) /\ rows[i].req # q
          BY <1>1, <1>2, <1>3, <3>2 DEF Owing
        <4> QED
          BY <1>6, <4>1, OwesOn
      <3> QED
        BY <3>1, <3>2
    <2>4. Owing(st, rows, N, i)
      BY <2>3 DEF Owing
    <2> QED
      BY <1>1, <1>3, <1>9, <2>1, <2>4
  <1>14. CASE ~RowIsVoid(st, row)
    <2>1. RowFits(st, row)
      BY <1>2, <1>5, <1>7, <1>8, <1>14 DEF RowFits, RowIsVoid
    <2>2. ~IsFinished(st.seq[r])
      BY <1>2, <1>14 DEF RowIsVoid
    <2>3. NumCompletionTokens(st.seq[r]) < MaxTokens[r]
      BY <1>7, <1>8, <2>2 DEF ShortOfLimit
    <2>4. st.seq[r].num_pending_tokens = n + (1 + row.num_draft_tokens)
      BY <1>1, <1>2, <1>11, <1>12, <1>14, <2>2 DEF Owes
    <2>5. Sized(row)
      BY <1>1
    <2>6. PICK z : z = x.st
      OBVIOUS
    <2>7. Steps(st, z, r)
      BY <1>2, <1>3, <1>5, <1>9, <1>14, <2>1, <2>3, <2>6, RowReconciled
    <2>8. Settles(st, z, r, n)
      BY <1>2, <1>3, <1>5, <1>9, <1>11, <1>14, <2>1, <2>3, <2>4, <2>5, <2>6, RowCounted
    <2>9. DOMAIN z.seq = DOMAIN st.seq /\ \A q \in DOMAIN st.seq : q # r => z.seq[q] = st.seq[q]
      BY <2>7 DEF Steps
    <2>10. Counts(st)
      BY <1>3
    <2>11. Counts(z)
      <3>1. ASSUME NEW q \in DOMAIN z.seq PROVE Counted(z.seq[q], FALSE)
        <4>1. CASE q = r
          BY <2>8, <4>1 DEF Settles
        <4>2. CASE q # r
          BY <2>9, <2>10, <4>2 DEF Counts
        <4> QED
          BY <4>1, <4>2
      <3>2. ASSUME NEW q \in z.sending \cap DOMAIN z.seq PROVE IsFinished(z.seq[q])
        <4>1. CASE q = r
          <5>1. r \notin st.sending
            BY <1>5, <1>7, <2>2, <2>10 DEF Counts
          <5> QED
            BY <2>8, <3>2, <4>1, <5>1 DEF Settles
        <4>2. CASE q # r
          BY <2>8, <2>9, <2>10, <3>2, <4>2 DEF Settles, Counts
        <4> QED
          BY <4>1, <4>2
      <3> QED
        BY <3>1, <3>2 DEF Counts
    <2>12. ASSUME NEW q \in DOMAIN z.seq PROVE Owes(z, rows, N[q], q, i)
      <3>1. CASE q = r
        <4>1. ~IsFinished(z.seq[r]) => z.seq[r].num_pending_tokens = n
          BY <2>8 DEF Settles
        <4>2. Owes(z, rows, n, r, i)
          BY <1>1, <1>2, <1>6, <4>1, OwesNoMore
        <4> QED
          BY <1>10, <3>1, <4>2
      <3>2. CASE q # r
        <4>1. Owes(st, rows, N[q], q, i - 1) /\ rows[i].req # q /\ z.seq[q] = st.seq[q]
          BY <1>1, <1>2, <1>3, <2>9, <3>2 DEF Owing
        <4> QED
          BY <1>6, <4>1, OwesOn
      <3> QED
        BY <3>1, <3>2
    <2>13. Owing(z, rows, N, i)
      BY <2>12 DEF Owing
    <2> QED
      BY <1>1, <1>9, <2>6, <2>11, <2>13
  <1> QED
    BY <1>13, <1>14

(* The loop of reconcile().                                                *)
OwingInv(a, b, c, p, i) ==
    Reconciled(a, b, p.st, p.stepped, i) /\ Counts(p.st) /\ Owing(p.st, b, c, i)
OwingLoop == INSTANCE Loops WITH Round <- ReconcileRound, Inv <- OwingInv

(* reconcile(): the counters stay in order; what is still reserved for a   *)
(* live sequence is what the step launched after this one may sample.      *)
LEMMA StepOwing ==
    ASSUME NEW st0, Settled(st0), ShortOfLimit(st0), NEW rows, RowsFit(st0, rows),
           \A j \in 1..Len(rows) : Sized(rows[j]),
           NEW N, \A q \in DOMAIN st0.seq : N[q] \in Nat, Counts(st0), Owing(st0, rows, N, 0)
    PROVE  LET x == Reconcile(st0, rows)
           IN  /\ Counts(x.st)
               /\ \A q \in DOMAIN x.st.seq :
                    ~IsFinished(x.st.seq[q]) => x.st.seq[q].num_pending_tokens = N[q]
  <1>1. PICK k : k = Len(rows)
    OBVIOUS
  <1>2. k \in Nat
    BY <1>1 DEF RowsFit
  <1>3. PICK start : start = [st |-> st0, stepped |-> << >>]
    OBVIOUS
  <1>4. OwingInv(st0, rows, N, start, 0)
    <2>1. start.st = st0 /\ start.stepped = << >>
      BY <1>3
    <2>2. PICK e : e = << >>
      OBVIOUS
    <2>3. List(e, DOMAIN st0.seq) /\ ToSet(e) = {}
      BY <2>2, QueueEmpty DEF List
    <2>4. Reconciled(st0, rows, st0, e, 0)
      BY <2>3 DEF Reconciled
    <2> QED
      BY <2>1, <2>2, <2>4 DEF OwingInv
  <1>5. ASSUME NEW i \in 1..k, NEW q, OwingInv(st0, rows, N, q, i - 1)
        PROVE  OwingInv(st0, rows, N, ReconcileRound(st0, rows, N, q, i), i)
    <2>1. Reconciled(st0, rows, q.st, q.stepped, i - 1) /\ Counts(q.st) /\ Owing(q.st, rows, N, i - 1)
      BY <1>5 DEF OwingInv
    <2>2. PICK x : x = ReconcileRow(q, rows[i])
      OBVIOUS
    <2>3. Reconciled(st0, rows, x.st, x.stepped, i)
      BY <1>1, <2>1, <2>2, NextReconciled
    <2>4. Counts(x.st) /\ Owing(x.st, rows, N, i)
      BY <1>1, <2>1, <2>2, NextOwing
    <2> QED
      BY <2>2, <2>3, <2>4 DEF OwingInv, ReconcileRound
  <1>6. PICK x : x = OwingLoop!Loop(st0, rows, N, start, k)
    OBVIOUS
  <1>7. OwingInv(st0, rows, N, x, k)
    <2>1. OwingInv(st0, rows, N, OwingLoop!Loop(st0, rows, N, start, k), k)
      BY <1>2, <1>4, <1>5, CountsUp, OwingLoop!LoopInvariant
    <2> QED
      BY <1>6, <2>1
  <1>8. Reconcile(st0, rows) = x
    BY <1>1, <1>3, <1>6 DEF Reconcile, Repeat, OwingLoop!Loop, ReconcileRound
  <1>9. ASSUME NEW q \in DOMAIN x.st.seq, ~IsFinished(x.st.seq[q])
        PROVE  x.st.seq[q].num_pending_tokens = N[q]
    <2>1. Owes(x.st, rows, N[q], q, k)
      BY <1>7 DEF OwingInv, Owing
    <2>2. \A j \in (k + 1)..Len(rows) : FALSE
      BY <1>1, <1>2
    <2> QED
      BY <1>9, <2>1, <2>2 DEF Owes
  <1> QED
    BY <1>7, <1>8, <1>9 DEF OwingInv

-----------------------------------------------------------------------------
(* The engine between its steps, as the counters see it: nothing is        *)
(* reserved but for the rows in flight. *)
Tally(st, flight) ==
    /\ Counts(st)
    /\ Fits(flight)
    /\ \A i \in 1..Len(flight.rows) : Sized(flight.rows[i])
    /\ \A q \in DOMAIN st.seq : Owes(st, flight.rows, 0, q, 0)

(* The inductive invariant of the counters, on top of LifeInv. *)
CountInv == Tally(sched, in_flight)

(* The rows just launched are the reservations of their sequences.         *)
LEMMA FlightOwes ==
    ASSUME NEW st, NEW y, NEW rows, Len(rows) \in Nat, Stamped(y, rows), NEW q, NEW n,
           st.seq[q].num_preemptions = y.seq[q].num_preemptions,
           ~IsFinished(st.seq[q]) =>
             /\ \A k \in 1..Len(rows) : rows[k].req = q =>
                  st.seq[q].num_pending_tokens = n + (1 + rows[k].num_draft_tokens)
             /\ NoRow(rows, q) => st.seq[q].num_pending_tokens = n
    PROVE  Owes(st, rows, n, q, 0)
  <1>1. 0 + 1 = 1
    OBVIOUS
  <1>2. ASSUME ~IsFinished(st.seq[q]), NEW k \in 1..Len(rows), rows[k].req = q
        PROVE  ~RowIsVoid(st, rows[k])
    BY <1>2 DEF Stamped, RowIsVoid
  <1>3. ASSUME ~IsFinished(st.seq[q]), \A k \in 1..Len(rows) : rows[k].req = q => RowIsVoid(st, rows[k])
        PROVE  st.seq[q].num_pending_tokens = n
    BY <1>2, <1>3 DEF NoRow
  <1> QED
    BY <1>1, <1>3 DEF Owes

(* What a launch reserves for q, beyond what was left. *)
Extra(s, t) == t.num_pending_tokens - Left(s, t)

(* It is what the row of q may sample. *)
IsExtra(s, t, rows, q, n) ==
    /\ n \in Nat /\ t.num_pending_tokens = n + Left(s, t)
    /\ \A k \in 1..Len(rows) : rows[k].req = q => n = 0 + (1 + rows[k].num_draft_tokens)
    /\ NoRow(rows, q) => n = 0

(* A launch reserves for its rows and for nothing else.                    *)
LEMMA ReservedMore ==
    ASSUME NEW s, NEW t, NEW rows, NEW q, Reserved(s, t, rows, q), Counted(s, FALSE),
           \A k \in 1..Len(rows) : Sized(rows[k])
    PROVE  IsExtra(s, t, rows, q, Extra(s, t))
  <1> DEFINE n == t.num_pending_tokens - Left(s, t)
  <1>1. Left(s, t) \in Nat
    BY DEF Left, Counted
  <1>2. ASSUME NEW k \in 1..Len(rows), rows[k].req = q
        PROVE  n = 0 + (1 + rows[k].num_draft_tokens) /\ n \in Nat /\ t.num_pending_tokens = n + Left(s, t)
    <2>1. PICK d \in Nat : d = rows[k].num_draft_tokens
      BY DEF Sized
    <2>2. t.num_pending_tokens = Left(s, t) + (1 + d)
      BY <1>2, <2>1 DEF Reserved
    <2> QED
      BY <1>1, <2>1, <2>2
  <1>3. ASSUME NoRow(rows, q) PROVE n = 0 /\ n \in Nat /\ t.num_pending_tokens = n + Left(s, t)
    <2>1. t.num_pending_tokens = Left(s, t)
      BY <1>3 DEF Reserved
    <2> QED
      BY <1>1, <2>1
  <1>4. IsExtra(s, t, rows, q, n)
    <2> HIDE DEF n
    <2> QED
      BY <1>1, <1>2, <1>3 DEF NoRow, IsExtra
  <1> QED
    BY <1>4 DEF Extra

(* The rows of the step before, once the next was launched: what they are  *)
(* owed is still reserved, unless they became void.                        *)
LEMMA OldRowsOwe ==
    ASSUME NEW st, NEW y, NEW rows, RowsFit(st, rows), NEW q \in DOMAIN st.seq,
           IsSeq(st.seq[q]), IsSeq(y.seq[q]), LifeStep(st.seq[q], y.seq[q]),
           Owes(st, rows, 0, q, 0), \A k \in 1..Len(rows) : Sized(rows[k]), NEW n \in Nat,
           y.seq[q].num_pending_tokens = n + Left(st.seq[q], y.seq[q])
    PROVE  Owes(y, rows, n, q, 0)
  <1>1. PICK s : s = st.seq[q]
    OBVIOUS
  <1>2. PICK t : t = y.seq[q]
    OBVIOUS
  <1>3. 0 + 1 = 1
    OBVIOUS
  <1>4. /\ s.num_preemptions \in Nat /\ t.num_preemptions \in Nat
        /\ s.num_preemptions <= t.num_preemptions
        /\ IsFinished(s) => IsFinished(t)
    BY <1>1, <1>2 DEF IsSeq, LifeStep
  <1>5. ASSUME ~IsFinished(t), NEW k \in 1..Len(rows), rows[k].req = q, ~RowIsVoid(y, rows[k])
        PROVE  t.num_pending_tokens = n + (1 + rows[k].num_draft_tokens)
    <2>1. PICK d \in Nat : d = rows[k].num_draft_tokens
      BY DEF Sized
    <2>2. /\ rows[k].num_preemptions = t.num_preemptions
          /\ rows[k].num_preemptions <= s.num_preemptions
      BY <1>1, <1>2, <1>5 DEF RowIsVoid, RowsFit, RowFits
    <2>3. t.num_preemptions = s.num_preemptions
      BY <1>4, <2>2
    <2>4. ~IsFinished(s) /\ ~RowIsVoid(st, rows[k])
      BY <1>1, <1>4, <1>5, <2>2, <2>3 DEF RowIsVoid
    <2>5. s.num_pending_tokens = 0 + (1 + d)
      BY <1>1, <1>3, <1>5, <2>1, <2>4 DEF Owes
    <2>6. Left(s, t) = s.num_pending_tokens
      BY <1>5, <2>3 DEF Left
    <2> QED
      BY <1>1, <1>2, <2>1, <2>5, <2>6
  <1>6. ASSUME ~IsFinished(t), \A k \in 1..Len(rows) : rows[k].req = q => RowIsVoid(y, rows[k])
        PROVE  t.num_pending_tokens = n
    <2>1. Left(s, t) = 0
      <3>1. CASE t.num_preemptions # s.num_preemptions
        BY <3>1 DEF Left
      <3>2. CASE t.num_preemptions = s.num_preemptions
        <4>1. \A k \in 1..Len(rows) : rows[k].req = q => RowIsVoid(st, rows[k])
          BY <1>1, <1>2, <1>6, <3>2 DEF RowIsVoid
        <4>2. s.num_pending_tokens = 0
          BY <1>1, <1>3, <1>4, <1>6, <4>1 DEF Owes
        <4> QED
          BY <4>2 DEF Left
      <3> QED
        BY <3>1, <3>2
    <2> QED
      BY <1>1, <1>2, <2>1
  <1> QED
    BY <1>2, <1>3, <1>5, <1>6 DEF Owes

(* step() with async_scheduling: the rows of the step just launched are    *)
(* what is left reserved.                                                  *)
LEMMA AsyncCounts ==
    ASSUME NEW st, NEW flight, NEW cl, Life(st, flight.rows, cl), Tally(st, flight),
           NEW rows, rows = flight.rows, NEW l \in Launches(st, rows),
           NEW rec, rec = Reconcile(l.st, rows)
    PROVE  Tally(rec.st, l.flight)
  <1>1. Settled(st) /\ Shape(st) /\ DOMAIN st.seq \subseteq Reqs /\ RowsFit(st, rows)
    BY DEF Life, Settled, Shape
  <1>2. PICK y : y = l.st
    OBVIOUS
  <1>3. PICK D : D = ToSet(l.dropped)
    OBVIOUS
  <1>4. PICK fl : fl = l.flight
    OBVIOUS
  <1>5. PICK new : new = fl.rows
    OBVIOUS
  <1>6. Settled(y) /\ Evolves(st, y, D) /\ D \subseteq DOMAIN st.seq /\ RowsFit(y, new)
    BY <1>1, <1>2, <1>3, <1>4, <1>5, LaunchSettles DEF Launched
  <1>7. RowsFit(y, rows)
    BY <1>1, <1>6, RowsFitOn
  <1>8. ShortOfLimit(y)
    <2>1. ShortOfLimit(st)
      BY <1>1, InformedShort DEF Life
    <2> QED
      BY <1>6, <2>1, ShortOn
  <1>9. PICK x : x = rec.st
    OBVIOUS
  <1>10. Reconciled(y, rows, x, rec.stepped, Len(rows))
    BY <1>2, <1>6, <1>7, <1>8, <1>9, StepReconciled
  <1>11. DOMAIN y.seq = DOMAIN st.seq /\ DOMAIN x.seq = DOMAIN st.seq
    BY <1>6, <1>10 DEF Evolves, Reconciled
  <1>12. Counts(st) /\ (\A k \in 1..Len(rows) : Sized(rows[k]))
         /\ (\A q \in DOMAIN st.seq : Owes(st, rows, 0, q, 0))
    BY DEF Tally
  <1>13. /\ Counts(y) /\ Fits(fl) /\ Stamped(y, new)
         /\ \A k \in 1..Len(new) : Sized(new[k])
         /\ \A q \in DOMAIN st.seq : Reserved(st.seq[q], y.seq[q], new, q)
    <2>1. LaunchCounts(st, l)
      BY <1>1, <1>12, LaunchCounted
    <2> QED
      BY <1>2, <1>4, <1>5, <2>1 DEF LaunchCounts
  <1>14. PICK N : N = [q \in DOMAIN st.seq |-> Extra(st.seq[q], y.seq[q])]
    OBVIOUS
  <1>15. ASSUME NEW q \in DOMAIN st.seq
         PROVE  /\ N[q] \in Nat /\ Owes(y, rows, N[q], q, 0)
                /\ \A k \in 1..Len(new) : new[k].req = q => N[q] = 0 + (1 + new[k].num_draft_tokens)
                /\ NoRow(new, q) => N[q] = 0
    <2>1. PICK s : s = st.seq[q]
      OBVIOUS
    <2>2. PICK t : t = y.seq[q]
      OBVIOUS
    <2>3. PICK n : n = N[q]
      OBVIOUS
    <2>4. Reserved(s, t, new, q) /\ Counted(s, FALSE) /\ n = Extra(s, t)
      BY <1>12, <1>13, <1>14, <2>1, <2>2, <2>3 DEF Counts
    <2>5. IsExtra(s, t, new, q, n)
      BY <1>13, <2>4, ReservedMore
    <2>6. IsSeq(st.seq[q]) /\ IsSeq(y.seq[q]) /\ LifeStep(st.seq[q], y.seq[q])
      BY <1>1, <1>6, <1>11 DEF Settled, Shape, Evolves
    <2>7. y.seq[q].num_pending_tokens = n + Left(st.seq[q], y.seq[q]) /\ n \in Nat
      BY <2>1, <2>2, <2>5 DEF IsExtra
    <2>8. Owes(y, rows, n, q, 0)
      BY <1>1, <1>12, <2>6, <2>7, OldRowsOwe
    <2> QED
      BY <2>3, <2>5, <2>8 DEF IsExtra
  <1>16. Owing(y, rows, N, 0) /\ \A q \in DOMAIN y.seq : N[q] \in Nat
    BY <1>11, <1>15 DEF Owing
  <1>17. /\ Counts(x)
         /\ \A q \in DOMAIN x.seq : ~IsFinished(x.seq[q]) => x.seq[q].num_pending_tokens = N[q]
    BY <1>2, <1>6, <1>7, <1>8, <1>9, <1>12, <1>13, <1>16, StepOwing
  <1>18. ASSUME NEW q \in DOMAIN x.seq PROVE Owes(x, new, 0, q, 0)
    <2>1. x.seq[q].num_preemptions = y.seq[q].num_preemptions
      BY <1>10, <1>11 DEF Reconciled, Commits
    <2>2. Len(new) \in Nat
      BY <1>6 DEF RowsFit
    <2>3. ~IsFinished(x.seq[q]) =>
             /\ \A k \in 1..Len(new) : new[k].req = q =>
                  x.seq[q].num_pending_tokens = 0 + (1 + new[k].num_draft_tokens)
             /\ NoRow(new, q) => x.seq[q].num_pending_tokens = 0
      BY <1>11, <1>15, <1>17
    <2> QED
      BY <1>13, <2>1, <2>2, <2>3, FlightOwes
  <1> QED
    BY <1>4, <1>5, <1>9, <1>13, <1>17, <1>18 DEF Tally

(* step() without it: nothing is left reserved before the launch.          *)
LEMMA SyncCounts ==
    ASSUME NEW st, NEW flight, NEW cl, Life(st, flight.rows, cl), Tally(st, flight),
           NEW rows, rows = flight.rows, NEW rec, rec = Reconcile(st, rows),
           NEW l \in Launches(rec.st, << >>)
    PROVE  Tally(l.st, l.flight)
  <1>1. Settled(st) /\ DOMAIN st.seq \subseteq Reqs /\ RowsFit(st, rows)
    BY DEF Life, Settled, Shape
  <1>2. PICK y : y = rec.st
    OBVIOUS
  <1>3. ShortOfLimit(st)
    BY <1>1, InformedShort DEF Life
  <1>4. Reconciled(st, rows, y, rec.stepped, Len(rows))
    BY <1>1, <1>2, <1>3, StepReconciled
  <1>5. Settled(y)
    BY <1>4 DEF Reconciled
  <1>6. Counts(st) /\ (\A k \in 1..Len(rows) : Sized(rows[k]))
         /\ (\A q \in DOMAIN st.seq : Owes(st, rows, 0, q, 0))
    BY DEF Tally
  <1>7. PICK N : N = [q \in DOMAIN st.seq |-> 0]
    OBVIOUS
  <1>8. Owing(st, rows, N, 0) /\ \A q \in DOMAIN st.seq : N[q] \in Nat
    BY <1>6, <1>7 DEF Owing
  <1>9. /\ Counts(y)
        /\ \A q \in DOMAIN y.seq : ~IsFinished(y.seq[q]) => y.seq[q].num_pending_tokens = N[q]
    BY <1>1, <1>2, <1>3, <1>6, <1>8, StepOwing
  <1>10. DOMAIN y.seq = DOMAIN st.seq
    BY <1>4 DEF Reconciled
  <1>11. PICK x : x = l.st
    OBVIOUS
  <1>12. PICK fl : fl = l.flight
    OBVIOUS
  <1>13. PICK new : new = fl.rows
    OBVIOUS
  <1>14. PICK D : D = ToSet(l.dropped)
    OBVIOUS
  <1>15. /\ Counts(x) /\ Fits(fl) /\ Stamped(x, new)
         /\ \A k \in 1..Len(new) : Sized(new[k])
         /\ \A q \in DOMAIN y.seq : Reserved(y.seq[q], x.seq[q], new, q)
         /\ Evolves(y, x, D) /\ RowsFit(x, new)
    <2>1. PICK e : e = << >>
      OBVIOUS
    <2>2. l \in Launches(y, e)
      BY <1>2, <2>1
    <2>3. Launched(y, l) /\ LaunchCounts(y, l)
      BY <1>5, <1>9, <2>2, LaunchSettles, LaunchCounted
    <2> QED
      BY <1>11, <1>12, <1>13, <1>14, <2>3 DEF Launched, LaunchCounts
  <1>16. ASSUME NEW q \in DOMAIN x.seq PROVE Owes(x, new, 0, q, 0)
    <2>1. q \in DOMAIN y.seq /\ LifeStep(y.seq[q], x.seq[q]) /\ Reserved(y.seq[q], x.seq[q], new, q)
      BY <1>15 DEF Evolves
    <2>2. PICK s : s = y.seq[q]
      OBVIOUS
    <2>3. PICK t : t = x.seq[q]
      OBVIOUS
    <2>4. ASSUME ~IsFinished(t) PROVE Left(s, t) = 0
      <3>1. ~IsFinished(s)
        BY <2>1, <2>2, <2>3, <2>4 DEF LifeStep
      <3>2. s.num_pending_tokens = 0
        BY <1>7, <1>9, <1>10, <2>1, <2>2, <3>1
      <3> QED
        BY <3>2 DEF Left
    <2>5. ~IsFinished(t) =>
             /\ \A k \in 1..Len(new) : new[k].req = q =>
                  t.num_pending_tokens = 0 + (1 + new[k].num_draft_tokens)
             /\ NoRow(new, q) => t.num_pending_tokens = 0
      BY <2>1, <2>2, <2>3, <2>4 DEF Reserved
    <2>6. Len(new) \in Nat
      BY <1>15 DEF RowsFit
    <2> QED
      BY <1>15, <2>3, <2>5, <2>6, FlightOwes
  <1> QED
    BY <1>11, <1>12, <1>13, <1>15, <1>16 DEF Tally

(* A sequence that has not changed is owed what it was.                    *)
LEMMA OwesSame ==
    ASSUME NEW st, NEW x, NEW rows, NEW q, x.seq[q] = st.seq[q], Owes(st, rows, 0, q, 0)
    PROVE  Owes(x, rows, 0, q, 0)
  <1>1. \A j \in 1..Len(rows) : rows[j].req = q => (RowIsVoid(x, rows[j]) <=> RowIsVoid(st, rows[j]))
    BY DEF RowIsVoid
  <1>2. 0 + 1 = 1
    OBVIOUS
  <1> QED
    BY <1>1, <1>2 DEF Owes

(* Before the first request.                                               *)
LEMMA InitCounts ==
    Init => CountInv
  <1> SUFFICES ASSUME Init PROVE CountInv
    OBVIOUS
  <1>1. PICK st : st = sched
    OBVIOUS
  <1>2. PICK flight : flight = in_flight
    OBVIOUS
  <1>3. PICK e : e = << >>
    OBVIOUS
  <1>4. PICK bm : bm = InitBlockManager
    OBVIOUS
  <1>5. st = [waiting |-> e, running |-> e, recving |-> {}, sending |-> {}, live |-> {},
              seq |-> e, bm |-> bm, loads |-> e, sends |-> e]
    BY <1>1, <1>3, <1>4 DEF Init, InitScheduler
  <1>6. st.sending = {} /\ st.seq = e
    BY <1>5
  <1>7. DOMAIN e = {} /\ Len(e) = 0
    BY <1>3
  <1>8. flight = NoStep
    BY <1>2 DEF Init
  <1>9. flight.rows = e
    BY <1>3, <1>8 DEF NoStep
  <1>10. Fits(flight)
    BY <1>8, NoStepFits
  <1>11. Tally(st, flight)
    BY <1>6, <1>7, <1>9, <1>10 DEF Tally, Counts
  <1> QED
    BY <1>1, <1>2, <1>11 DEF CountInv

(* The counters of a new request.                                          *)
LEMMA NewCounted ==
    ASSUME NEW r \in Reqs, NEW n \in Nat, NEW s, s = NewSequence(Prompt[r], n, Transfer[r])
    PROVE  Counted(s, FALSE) /\ s.num_pending_tokens = 0
  <1>1. PICK p \in Seq(Vocab) : p = Prompt[r]
    BY EngineAssumption
  <1>2. PICK k \in Nat : k = Len(p)
    OBVIOUS
  <1>3. PICK f : f = Transfer[r].do_remote_prefill
    OBVIOUS
  <1>4. PICK g : g = Transfer[r].do_remote_decode
    OBVIOUS
  <1>5. PICK e : e = << >>
    OBVIOUS
  <1>6. PICK yes : yes = TRUE
    OBVIOUS
  <1>7. s = [status               |-> "WAITING",
             token_ids            |-> p,
             num_prompt_tokens    |-> k,
             num_cached_tokens    |-> 0,
             num_pending_tokens   |-> 0,
             num_published_blocks |-> 0,
             num_scheduled_tokens |-> 0,
             num_new_tokens       |-> 0,
             num_spec_tokens      |-> 0,
             is_prefill           |-> yes,
             block_table          |-> e,
             finish_reason        |-> NoReason,
             num_preemptions      |-> 0,
             arrival              |-> n,
             do_remote_prefill    |-> f,
             do_remote_decode     |-> g]
    BY <1>1, <1>2, <1>3, <1>4, <1>5, <1>6 DEF NewSequence
  <1>8. /\ s.status = "WAITING" /\ s.token_ids = p /\ s.num_prompt_tokens = k
        /\ s.num_cached_tokens = 0 /\ s.num_pending_tokens = 0 /\ s.num_spec_tokens = 0
        /\ s.num_scheduled_tokens = 0 /\ s.is_prefill = yes
    BY <1>7
  <1>9. k > 0 /\ NumTokens(s) = k
    BY <1>1, <1>2, <1>8, SchedulerAssumption DEF NumTokens
  <1>10. ~IsFinished(s) /\ s.is_prefill \in BOOLEAN /\ s.is_prefill
    BY <1>6, <1>8 DEF IsFinished
  <1> QED
    BY <1>8, <1>9, <1>10 DEF Counted

(* add_request: nothing is reserved for the newcomer.                      *)
LEMMA AddCounts ==
    ASSUME NEW st, NEW flight, NEW cl, Life(st, flight.rows, cl), Tally(st, flight),
           NEW r \in Reqs, r \notin DOMAIN st.seq, NEW x, x = AddSequence(st, r)
    PROVE  Tally(x, flight)
  <1>1. PICK D : D = DOMAIN st.seq
    OBVIOUS
  <1>2. PICK E : E = D \cup {r}
    OBVIOUS
  <1>3. PICK rows : rows = flight.rows
    OBVIOUS
  <1>4. /\ DOMAIN st = SchedFields /\ D \subseteq Reqs /\ Queue(st.waiting, D)
        /\ Tracked(st) \subseteq D /\ RowsFit(st, rows)
    BY <1>1, <1>3 DEF Life, Settled, Shape
  <1>5. IsFiniteSet(D) /\ Cardinality(D) \in Nat
    BY <1>4, EngineAssumption, FS_Subset, FS_CardinalityType
  <1>6. PICK n \in Nat : n = Cardinality(D) + 1
    BY <1>5
  <1>7. PICK s : s = NewSequence(Prompt[r], n, Transfer[r])
    OBVIOUS
  <1>8. Counted(s, FALSE) /\ s.num_pending_tokens = 0
    BY <1>7, NewCounted
  <1>9. PICK f : f = [q \in E |-> IF q = r THEN s ELSE st.seq[q]]
    OBVIOUS
  <1>10. PICK y : y = [st EXCEPT !.seq = f, !.live = @ \cup {r}]
    OBVIOUS
  <1>11. x = PolicyAdd(y, r)
    BY <1>1, <1>2, <1>4, <1>6, <1>7, <1>9, <1>10 DEF AddSequence, SchedFields
  <1>12. /\ DOMAIN y = SchedFields /\ y.seq = f /\ y.waiting = st.waiting
         /\ y.sending = st.sending
    BY <1>4, <1>10 DEF SchedFields
  <1>13. Queue(y.waiting, E) /\ r \in E /\ r \notin ToSet(y.waiting)
    BY <1>1, <1>2, <1>4, <1>12 DEF Queue, ToSet
  <1>14. x.seq = f /\ x.sending = st.sending
    <2>1. LET z == PolicyAdd(y, r)
          IN  /\ DOMAIN z = SchedFields
              /\ Queue(z.waiting, E) /\ ToSet(z.waiting) = ToSet(y.waiting) \cup {r}
              /\ z.running = y.running /\ z.live = y.live /\ z.seq = y.seq
              /\ z.recving = y.recving /\ z.sending = y.sending
      BY <1>12, <1>13, AddWaits
    <2> QED
      BY <1>11, <1>12, <2>1
  <1>15. DOMAIN x.seq = E /\ x.seq[r] = s /\ \A q \in D : x.seq[q] = st.seq[q]
    BY <1>1, <1>2, <1>9, <1>14
  <1>16. r \notin x.sending
    BY <1>1, <1>4, <1>14 DEF Tracked
  <1>17. Counts(x)
    BY <1>1, <1>2, <1>8, <1>14, <1>15, <1>16 DEF Counts, Tally
  <1>18. NoRow(rows, r)
    BY <1>4 DEF RowsFit, RowFits, NoRow
  <1>19. Owes(x, rows, 0, r, 0)
    <2>1. 0 + 1 = 1
      OBVIOUS
    <2> QED
      BY <1>8, <1>15, <1>18, <2>1 DEF Owes, NoRow
  <1>20. ASSUME NEW q \in D PROVE Owes(x, rows, 0, q, 0)
    BY <1>1, <1>3, <1>15, OwesSame DEF Tally
  <1> QED
    BY <1>2, <1>3, <1>15, <1>17, <1>19, <1>20 DEF Tally

(* What an abort does to the counters. *)
Quits(st, x, r) == Counted(x.seq[r], FALSE) /\ x.sending \subseteq st.sending \cup {r}

(* abort, of a request that is loading: it had nothing reserved.           *)
LEMMA LoadingQuits ==
    ASSUME NEW st, Settled(st), NEW r \in st.live, NEW reason, Counted(st.seq[r], FALSE),
           st.seq[r].status = "WAITING_FOR_REMOTE_KVS", NEW x, x = Abort(st, r, reason)
    PROVE  Quits(st, x, r)
  <1>1. PICK s : s = st.seq[r]
    OBVIOUS
  <1>2. DOMAIN st = SchedFields /\ r \in DOMAIN st.seq /\ IsSeq(s)
    BY <1>1 DEF Settled, Shape, Tracked
  <1>3. PICK y : y = [st EXCEPT !.live = @ \ {r}]
    OBVIOUS
  <1>4. x = Finish(y, r, reason)
    BY <1>3 DEF Abort
  <1>5. DOMAIN y = SchedFields /\ y.seq = st.seq /\ y.sending = st.sending
    BY <1>2, <1>3 DEF SchedFields
  <1>6. x.sending = st.sending
    BY <1>4, <1>5 DEF Finish, SchedFields
  <1>7. PICK t : t = x.seq[r]
    OBVIOUS
  <1>8. t = [[s EXCEPT !.status = "FINISHED"] EXCEPT !.finish_reason = reason]
    <2>1. r \in DOMAIN y.seq /\ y.seq[r] = s /\ DOMAIN s = SeqFields
      BY <1>1, <1>2, <1>5 DEF IsSeq
    <2>2. DOMAIN y = SchedFields
      BY <1>5
    <2> QED
      BY <1>4, <1>7, <2>1, <2>2 DEF Finish, SchedFields, SeqFields
  <1>9. /\ DOMAIN t = SeqFields /\ t.status = "FINISHED"
        /\ t.token_ids = s.token_ids /\ t.num_prompt_tokens = s.num_prompt_tokens
        /\ t.num_new_tokens = s.num_new_tokens /\ t.num_preemptions = s.num_preemptions
        /\ t.arrival = s.arrival /\ t.num_cached_tokens = s.num_cached_tokens
        /\ t.num_pending_tokens = s.num_pending_tokens
        /\ t.num_spec_tokens = s.num_spec_tokens
        /\ t.num_scheduled_tokens = s.num_scheduled_tokens
    BY <1>2, <1>8 DEF IsSeq, SeqFields
  <1>10. t.is_prefill = s.is_prefill
    BY <1>2, <1>8 DEF IsSeq, SeqFields
  <1>11. SameTokens(s, t)
    BY <1>2, <1>9 DEF SameTokens, IsSeq, Status
  <1>12. s.num_pending_tokens = 0 /\ s.num_cached_tokens \in Nat
    BY <1>1 DEF Counted, IsFinished
  <1>13. Counted(t, FALSE)
    <2>1. Counted(s, FALSE) /\ t.num_pending_tokens = 0 /\ t.num_cached_tokens \in Nat
      BY <1>1, <1>9, <1>12
    <2> QED
      BY <1>2, <1>9, <1>10, <1>11, <2>1, EndedCounted
  <1> QED
    BY <1>6, <1>7, <1>13 DEF Quits

(* abort, of a request that waits or runs: what was reserved is dropped.   *)
LEMMA QueuedQuits ==
    ASSUME NEW st, Settled(st), NEW r \in st.live, NEW reason, Counted(st.seq[r], FALSE),
           st.seq[r].status # "WAITING_FOR_REMOTE_KVS", NEW x, x = Abort(st, r, reason)
    PROVE  Quits(st, x, r)
  <1>1. PICK s : s = st.seq[r]
    OBVIOUS
  <1>2. /\ DOMAIN st = SchedFields /\ r \in DOMAIN st.seq /\ IsSeq(s) /\ DOMAIN s = SeqFields
    BY <1>1 DEF Settled, Shape, Tracked, IsSeq
  <1>3. PICK g : g = [st EXCEPT !.live = @ \ {r}]
    OBVIOUS
  <1>4. DOMAIN g = SchedFields /\ g.seq = st.seq /\ g.sending = st.sending
    BY <1>2, <1>3 DEF SchedFields
  <1>5. PICK dq : dq = IF s.status = "WAITING" THEN [g EXCEPT !.waiting = Without(@, r)]
                       ELSE [g EXCEPT !.running = Without(@, r)]
    OBVIOUS
  <1>6. DOMAIN dq = SchedFields /\ dq.seq = st.seq /\ dq.sending = st.sending
    BY <1>4, <1>5 DEF SchedFields
  <1>7. PICK d : d = DropPending(s)
    OBVIOUS
  <1>8. PICK y1 : y1 = [dq EXCEPT !.seq[r] = d]
    OBVIOUS
  <1>9. PICK y : y = Finish(y1, r, reason)
    OBVIOUS
  <1>10. x = Free(y, r)
    <2>1. y1 = [dq EXCEPT !.seq[r] = DropPending(@)]
      BY <1>1, <1>2, <1>6, <1>7, <1>8 DEF SchedFields
    <2> QED
      BY <1>1, <1>3, <1>5, <1>9, <2>1 DEF Abort
  <1>11. /\ DOMAIN y1 = SchedFields /\ r \in DOMAIN y1.seq /\ y1.seq[r] = d
         /\ y1.sending = st.sending
    BY <1>2, <1>6, <1>8 DEF SchedFields
  <1>12. DOMAIN d = SeqFields
    BY <1>2, <1>7 DEF DropPending, SeqFields
  <1>13. PICK e : e = y.seq[r]
    OBVIOUS
  <1>14. DOMAIN y = SchedFields /\ r \in DOMAIN y.seq /\ y.sending = st.sending
    BY <1>9, <1>11 DEF Finish, SchedFields
  <1>15. e = [[d EXCEPT !.status = "FINISHED"] EXCEPT !.finish_reason = reason]
    BY <1>9, <1>11, <1>12, <1>13 DEF Finish, SchedFields, SeqFields
  <1>16. /\ DOMAIN e = SeqFields /\ e.status = "FINISHED"
         /\ e.token_ids = s.token_ids /\ e.num_prompt_tokens = s.num_prompt_tokens
         /\ e.num_new_tokens = s.num_new_tokens /\ e.num_preemptions = s.num_preemptions
         /\ e.arrival = s.arrival /\ e.num_cached_tokens = s.num_cached_tokens
         /\ e.num_pending_tokens = 0
         /\ e.num_spec_tokens = s.num_spec_tokens
         /\ e.num_scheduled_tokens = s.num_scheduled_tokens
    BY <1>2, <1>7, <1>15 DEF DropPending, SeqFields
  <1>17. e.is_prefill = s.is_prefill
    BY <1>2, <1>7, <1>15 DEF DropPending, SeqFields
  <1>18. SameTokens(s, e)
    BY <1>2, <1>16 DEF SameTokens, IsSeq, Status
  <1>19. Counted(e, FALSE)
    <2>1. Counted(s, FALSE) /\ s.num_cached_tokens \in Nat
      BY <1>1 DEF Counted
    <2>2. e.num_cached_tokens \in Nat
      BY <1>16, <2>1
    <2> QED
      BY <1>2, <1>16, <1>17, <1>18, <2>1, <2>2, EndedCounted
  <1>20. IsSeq(e) /\ IsFinished(e)
    BY <1>16, <1>18 DEF SameTokens, IsFinished
  <1>21. Counted(x.seq[r], FALSE)
    BY <1>10, <1>13, <1>14, <1>19, <1>20, FreedCounts
  <1>22. Frees(y, x, r)
    BY <1>10, <1>13, <1>14, <1>20, FreeMoves
  <1> QED
    BY <1>14, <1>21, <1>22 DEF Frees, Quits

(* abort_request: the rows of the request in flight are void, and nothing  *)
(* is reserved for it.                                                     *)
LEMMA AbortCounts ==
    ASSUME NEW st, NEW flight, NEW cl, Life(st, flight.rows, cl), Tally(st, flight),
           NEW r \in st.live, NEW reason, NEW x, x = Abort(st, r, reason)
    PROVE  Tally(x, flight)
  <1>1. Settled(st) /\ r \in DOMAIN st.seq
    BY DEF Life, Settled, Shape, Tracked
  <1>2. Counts(st) /\ Counted(st.seq[r], FALSE)
    BY <1>1 DEF Tally, Counts
  <1>3. Aborts(st, x, r, reason)
    BY <1>1, LoadingAborted, QueuedAborted
  <1>4. Quits(st, x, r)
    BY <1>1, <1>2, LoadingQuits, QueuedQuits
  <1>5. /\ DOMAIN x.seq = DOMAIN st.seq /\ IsFinished(x.seq[r])
        /\ \A q \in DOMAIN st.seq : q # r => x.seq[q] = st.seq[q]
    BY <1>3 DEF Aborts, Resettles, IsFinished
  <1>6. Counts(x)
    BY <1>2, <1>4, <1>5 DEF Counts, Quits
  <1>7. ASSUME NEW q \in DOMAIN x.seq PROVE Owes(x, flight.rows, 0, q, 0)
    <2>1. CASE q = r
      BY <1>5, <2>1 DEF Owes
    <2>2. CASE q # r
      BY <1>5, <2>2, OwesSame DEF Tally
    <2> QED
      BY <2>1, <2>2
  <1> QED
    BY <1>6, <1>7 DEF Tally

(* Whatever the engine does, it keeps its counters.                        *)
LEMMA NextCounts ==
    ASSUME LifeInv, CountInv, Next
    PROVE  CountInv'
  <1>1. PICK st : st = sched
    OBVIOUS
  <1>2. PICK flight : flight = in_flight
    OBVIOUS
  <1>3. PICK rows : rows = flight.rows
    OBVIOUS
  <1>4. PICK cl : cl = clients
    OBVIOUS
  <1>5. PICK x : x = sched'
    OBVIOUS
  <1>6. PICK new : new = in_flight'
    OBVIOUS
  <1>7. Life(st, flight.rows, cl) /\ Tally(st, flight)
    BY <1>1, <1>2, <1>4 DEF LifeInv, CountInv
  <1> SUFFICES Tally(x, new)
    BY <1>5, <1>6 DEF CountInv
  <1>8. ASSUME NEW r \in Reqs, AddRequest(r) PROVE Tally(x, new)
    <2>1. r \notin DOMAIN st.seq /\ x = AddSequence(st, r) /\ new = flight
      BY <1>1, <1>2, <1>5, <1>6, <1>8 DEF AddRequest
    <2> QED
      BY <1>7, <2>1, AddCounts
  <1>9. ASSUME NEW r \in Reqs, NEW reason \in {"abort", "stop"}, AbortRequest(r, reason)
        PROVE  Tally(x, new)
    <2>1. r \in st.live /\ x = Abort(st, r, reason) /\ new = flight
      BY <1>1, <1>2, <1>5, <1>6, <1>9 DEF AbortRequest
    <2> QED
      BY <1>7, <2>1, AbortCounts
  <1>10. ASSUME StepAsync PROVE Tally(x, new)
    <2>1. PICK l \in Launches(sched, in_flight.rows) :
            \E rec \in {Reconcile(l.st, in_flight.rows)} : sched' = rec.st /\ in_flight' = l.flight
      BY <1>10 DEF StepAsync
    <2>2. PICK rec : /\ rec = Reconcile(l.st, in_flight.rows)
                     /\ sched' = rec.st /\ in_flight' = l.flight
      BY <2>1
    <2>3. l \in Launches(st, rows) /\ rec = Reconcile(l.st, rows)
      BY <1>1, <1>2, <1>3, <2>1, <2>2
    <2>4. Tally(rec.st, l.flight)
      BY <1>3, <1>7, <2>3, AsyncCounts
    <2> QED
      BY <1>5, <1>6, <2>2, <2>4
  <1>11. ASSUME StepSync PROVE Tally(x, new)
    <2>1. PICK rec \in {Reconcile(sched, in_flight.rows)} :
            \E l \in Launches(rec.st, << >>) : sched' = l.st /\ in_flight' = l.flight
      BY <1>11 DEF StepSync
    <2>2. PICK l \in Launches(rec.st, << >>) : sched' = l.st /\ in_flight' = l.flight
      BY <2>1
    <2>3. rec = Reconcile(st, rows)
      BY <1>1, <1>2, <1>3, <2>1
    <2>4. Tally(l.st, l.flight)
      BY <1>3, <1>7, <2>2, <2>3, SyncCounts
    <2> QED
      BY <1>5, <1>6, <2>2, <2>4
  <1> QED
    BY <1>8, <1>9, <1>10, <1>11 DEF Next

(* The counters, the reservations and the batch in flight agree in every   *)
(* state of the engine.                                                    *)
THEOREM CountInvariant == Spec => []CountInv
  <1>1. Init => CountInv
    BY InitCounts
  <1>2. LifeInv /\ CountInv /\ [Next]_vars => CountInv'
    <2> SUFFICES ASSUME LifeInv, CountInv, [Next]_vars PROVE CountInv'
      OBVIOUS
    <2>1. CASE Next
      BY <2>1, NextCounts
    <2>2. CASE UNCHANGED vars
      BY <2>2 DEF vars, CountInv
    <2> QED
      BY <2>1, <2>2
  <1> QED
    BY <1>1, <1>2, LifeInvariant, PTL DEF Spec

(* The scheduler's queues and sets hold requests that have arrived, and    *)
(* the counters are never negative: nobody gives back more reservations    *)
(* or slots than it has, whatever was rejected, preempted or aborted, and  *)
(* no plan of a step outlives it.                                          *)
THEOREM EngineTypes == Spec => []TypeOK
  <1>1. LifeInv /\ CountInv => TypeOK
    <2> SUFFICES ASSUME LifeInv, CountInv PROVE TypeOK
      OBVIOUS
    <2>1. PICK st : st = sched
      OBVIOUS
    <2>2. PICK D : D = DOMAIN st.seq
      OBVIOUS
    <2>3. /\ Queue(st.waiting, D) /\ Queue(st.running, D) /\ Tracked(st) \subseteq D
          /\ \A r \in D : IsSeq(st.seq[r])
      BY <2>1, <2>2 DEF LifeInv, Life, Settled, Shape
    <2>4. ToSet(st.waiting) \subseteq D /\ ToSet(st.running) \subseteq D
      BY <2>3 DEF Queue, ToSet
    <2>5. st.live \subseteq D /\ st.recving \subseteq D /\ st.sending \subseteq D
      BY <2>3 DEF Tracked
    <2>6. ASSUME NEW r \in D
          PROVE  /\ st.seq[r].status \in Status
                 /\ st.seq[r].num_pending_tokens \in Nat
                 /\ st.seq[r].num_cached_tokens \in Nat
                 /\ st.seq[r].num_scheduled_tokens = 0
      <3>1. Counted(st.seq[r], FALSE)
        BY <2>1, <2>2 DEF CountInv, Tally, Counts
      <3> QED
        BY <2>3, <3>1 DEF Counted, IsSeq
    <2>7. in_flight.launched \in BOOLEAN
      BY DEF CountInv, Tally, Fits
    <2> QED
      BY <2>1, <2>2, <2>4, <2>5, <2>6, <2>7 DEF TypeOK, Arrived, Running
  <1> QED
    BY <1>1, LifeInvariant, CountInvariant, PTL

(* With or without async_scheduling, num_pending_tokens of a running       *)
(* sequence is what its row in flight may still commit, and nothing when   *)
(* it has none; a decoding one is computed up to its last planned token.   *)
THEOREM EnginePending == Spec => []PendingMatchesFlight
  <1>1. LifeInv /\ CountInv => PendingMatchesFlight
    <2> SUFFICES ASSUME LifeInv, CountInv, NEW r \in Running
                 PROVE  /\ sched.seq[r].num_pending_tokens =
                             IF FlightRow(r) = {} THEN 0
                             ELSE 1 + in_flight.rows[Max(FlightRow(r))].num_draft_tokens
                        /\ ~sched.seq[r].is_prefill =>
                             sched.seq[r].num_cached_tokens = NumPlannedTokens(sched.seq[r]) - 1
                        /\ sched.seq[r].is_prefill =>
                             sched.seq[r].num_cached_tokens < NumTokens(sched.seq[r])
      BY DEF PendingMatchesFlight
    <2>1. PICK st : st = sched
      OBVIOUS
    <2>2. PICK rows : rows = in_flight.rows
      OBVIOUS
    <2>3. PICK s : s = st.seq[r]
      OBVIOUS
    <2>4. Settled(st) /\ RowsFit(st, rows)
      BY <2>1, <2>2 DEF LifeInv, Life
    <2>5. r \in ToSet(st.running) /\ Queue(st.running, DOMAIN st.seq)
      BY <2>1, <2>4 DEF Running, Settled, Shape
    <2>6. r \in DOMAIN st.seq
      BY <2>5 DEF Queue, ToSet
    <2>7. s.status = "RUNNING"
      BY <2>3, <2>4, <2>5, <2>6 DEF Settled, Placed
    <2>8. ~IsFinished(s)
      BY <2>7 DEF IsFinished
    <2>9. Counted(s, FALSE) /\ Owes(st, rows, 0, r, 0) /\ \A k \in 1..Len(rows) : Sized(rows[k])
      BY <2>1, <2>2, <2>3, <2>6 DEF CountInv, Tally, Counts
    <2>10. PICK R : R = FlightRow(r)
      OBVIOUS
    <2>11. R = {k \in 1..Len(rows) : rows[k].req = r /\ ~RowIsVoid(st, rows[k])}
      BY <2>1, <2>2, <2>10 DEF FlightRow
    <2>12. 0 + 1 = 1
      OBVIOUS
    <2>13. s.num_pending_tokens = IF R = {} THEN 0 ELSE 1 + rows[Max(R)].num_draft_tokens
      <3>1. CASE R = {}
        <4>1. \A k \in 1..Len(rows) : rows[k].req = r => RowIsVoid(st, rows[k])
          BY <2>11, <3>1
        <4>2. s.num_pending_tokens = 0
          BY <2>3, <2>8, <2>9, <2>12, <4>1 DEF Owes
        <4> QED
          BY <3>1, <4>2
      <3>2. CASE R # {}
        <4>1. PICK k \in 1..Len(rows) : k \in R
          BY <2>11, <3>2
        <4>2. R = {k}
          BY <2>4, <2>11, <4>1 DEF RowsFit
        <4>3. k \in Int
          BY <2>4 DEF RowsFit
        <4>4. Max(R) = k
          BY <4>2, <4>3 DEF Max
        <4>5. s.num_pending_tokens = 0 + (1 + rows[k].num_draft_tokens)
          BY <2>3, <2>8, <2>9, <2>11, <2>12, <4>1 DEF Owes
        <4>6. rows[k].num_draft_tokens \in Nat
          BY <2>9 DEF Sized
        <4>7. s.num_pending_tokens = 1 + rows[k].num_draft_tokens
          BY <4>5, <4>6
        <4> QED
          BY <3>2, <4>4, <4>7
      <3> QED
        BY <3>1, <3>2
    <2>14. /\ ~s.is_prefill => s.num_cached_tokens = NumPlannedTokens(s) - 1
           /\ s.is_prefill => s.num_cached_tokens < NumTokens(s)
      BY <2>8, <2>9 DEF Counted
    <2> QED
      BY <2>1, <2>2, <2>3, <2>10, <2>13, <2>14
  <1> QED
    BY <1>1, LifeInvariant, CountInvariant, PTL

(* No step computes more tokens or rows than max_num_batched_tokens and    *)
(* max_num_seqs allow, in any configuration.                               *)
THEOREM EngineBatchSizes ==
    Spec => [](/\ Len(in_flight.batch) <= MaxNumSeqs
               /\ TotalTokens(in_flight.batch) <= MaxNumBatchedTokens)
  <1>1. CountInv => /\ Len(in_flight.batch) <= MaxNumSeqs
                    /\ TotalTokens(in_flight.batch) <= MaxNumBatchedTokens
    BY DEF CountInv, Tally, Fits
  <1> QED
    BY <1>1, CountInvariant, PTL

(* And every row of a step computes something, unless whole prompts only   *)
(* are scheduled and some of them are loaded from elsewhere: a load that   *)
(* _schedule_whole_prompts admits with no tokens and that then does not    *)
(* start is scheduled with whatever is left of the budget.                 *)
THEOREM EngineBatches ==
    ASSUME EnableChunkedPrefill \/ ~HasConnector
    PROVE  Spec => []BatchWithinLimits
  <1>1. CountInv => BatchWithinLimits
    BY DEF CountInv, Tally, Fits, Exact, BatchWithinLimits
  <1> QED
    BY <1>1, CountInvariant, PTL
=============================================================================
