------------------------- MODULE NixlTransfer_proofs -------------------------
(***************************************************************************)
(* The transfer of a request's blocks, for any sizes of the two engines,   *)
(* any number of requests and any faults: what is read is held, what is    *)
(* reported has landed where it belongs, readers are counted right, and    *)
(* every step is one that KVTransfer allows.                               *)
(***************************************************************************)
EXTENDS NixlTransfer, FiniteSetTheorems, WellFoundedInduction, TLAPS

(* The layout of a topology t: what NixlTransfer computes from top. *)
Producers(t) == 0..(t.ptp - 1)
Consumers(t) == 0..(t.ctp - 1)
HeadsOf(t) == IF t.heads # 0 THEN t.heads
              ELSE CHOOSE n \in 1..(t.ptp * t.ctp) :
                      /\ n % t.ptp = 0 /\ n % t.ctp = 0
                      /\ \A k \in 1..(n - 1) : k % t.ptp # 0 \/ k % t.ctp # 0
SharesOf(t, c) == HeadShares(c, t.ctp, t.ptp, HeadsOf(t))
ReadersOf(t, p) == Len(HeadShares(p, t.ptp, t.ctp, HeadsOf(t)))
ShareIds(t, c) == DOMAIN SharesOf(t, c)
RankOf(t, c, i) == SharesOf(t, c)[i].rank
MovesOf(t, c, i) ==
    LET share == SharesOf(t, c)[i]
        first == share.rank * (HeadsOf(t) \div t.ptp) + share.remote_head
    IN  IF t.heads # 0
        THEN {<<share.local_head + k, first + k>> : k \in 0..(share.num_heads - 1)}
        ELSE IF i = 1 THEN {<<0, 0>>} ELSE {}
Sharing(t, p) == {c \in Consumers(t) : \E i \in ShareIds(t, c) : RankOf(t, c, i) = p}

(* The specification's operators are those of its topology. *)
LEMMA Here ==
    /\ PRanks = Producers(top) /\ CRanks = Consumers(top) /\ Heads = HeadsOf(top)
    /\ \A c : Shares(c) = SharesOf(top, c) /\ DOMAIN Shares(c) = ShareIds(top, c)
    /\ \A c, i : Moves(c, i) = MovesOf(top, c, i) /\ Shares(c)[i].rank = RankOf(top, c, i)
    /\ \A p : Readers(p) = ReadersOf(top, p)
  <1>1. PRanks = Producers(top) /\ CRanks = Consumers(top)
    BY DEF PRanks, CRanks, Producers, Consumers
  <1>2. Heads = HeadsOf(top)
    BY DEF Heads, HeadsOf
  <1>3. \A c : Shares(c) = SharesOf(top, c)
    BY <1>2 DEF Shares, SharesOf
  <1>4. \A c, i : Moves(c, i) = MovesOf(top, c, i)
    BY <1>2, <1>3 DEF Moves, MovesOf
  <1>5. \A p : Readers(p) = ReadersOf(top, p)
    BY <1>2 DEF Readers, ReadersOf
  <1> QED
    BY <1>1, <1>2, <1>3, <1>4, <1>5 DEF ShareIds, RankOf

-----------------------------------------------------------------------------
ReadStates == {"todo", "notify", "none", "PROC", "DONE", "ERR"}
Items == [req : Reqs, reads : BOOLEAN]
Senders == [to_send : SUBSET Reqs, due : SUBSET Reqs, notified : [Reqs -> Nat],
            finished : SUBSET Reqs]
Loads(t) == [pc : {"none", "posting", "polling", "over"}, next : Nat, reads : Seq(ReadStates),
             unnotified : SUBSET Producers(t), failed : BOOLEAN]
Readings(t) == [queue : Seq(Items), load : [Reqs -> Loads(t)], known : SUBSET Producers(t),
                finished : SUBSET Reqs, failed : SUBSET Reqs]
Cells == Nat \X (Nat \cup {"stale"})

Types ==
    /\ top \in Topologies
    /\ send \in [Reqs -> {"none", "queued", "held", "freed"}]
    /\ recv \in [Reqs -> {"none", "queued", "loading", "loaded", "failed"}]
    /\ producer \in [Producers(top) -> Senders] /\ sent \in [Reqs -> Nat]
    /\ consumer \in [Consumers(top) -> Readings(top)]
    /\ recved \in [count : [Reqs -> Nat], failed : SUBSET Reqs]
    /\ waiting \in Seq(Items)
    /\ notifs \subseteq Producers(top) \X Reqs \X Consumers(top)
    /\ landed \in [Consumers(top) -> [Reqs -> SUBSET Cells]]
    /\ expired \subseteq Reqs

(* A request is passed on once, and its load begins once. *)
Once(q) == \A i, j \in 1..Len(q) : q[i].req = q[j].req => i = j
Begun == {"loading", "loaded", "failed"}
QueueOK(rank, v) ==
    /\ Once(rank.queue)
    /\ \A i \in 1..Len(rank.queue) :
          /\ v[rank.queue[i].req] \in Begun
          /\ rank.load[rank.queue[i].req].pc = "none"
    /\ \A r \in Reqs : rank.load[r].pc # "none" => v[r] \in Begun
Queues ==
    /\ Once(waiting)
    /\ \A i \in 1..Len(waiting) : recv[waiting[i].req] = "queued"
    /\ \A c \in Consumers(top) : QueueOK(consumer[c], recv)

Faulty(load) == load.failed \/ InState(load, "ERR") # {}

(* The shares of a load in order: those before next are posted or told,    *)
(* and all of them once it polls. Without a failure, those with something  *)
(* to move are the ones that are read, if any is.                          *)
Posted(t, c, load) ==
    /\ load.next \in ShareIds(t, c) /\ ~load.failed
    /\ \A p \in load.unnotified : \E i \in ShareIds(t, c) : RankOf(t, c, i) = p
    /\ \A i \in ShareIds(t, c) :
          IF i < load.next
          THEN load.reads[i] \notin {"todo", "notify"} /\ RankOf(t, c, i) \notin load.unnotified
          ELSE load.reads[i] \in {"todo", "notify"} /\ RankOf(t, c, i) \in load.unnotified
Readable(reads, moves) ==
    IF reads /\ moves # {} THEN {"todo", "PROC", "DONE", "ERR"} ELSE {"notify", "none"}
ReadsWhatMoves(t, c, load) ==
    \E reads \in BOOLEAN : \A i \in ShareIds(t, c) :
        load.reads[i] \in Readable(reads, MovesOf(t, c, i))
LoadOK(t, c, load) ==
    /\ load.pc = "none" => load = NoLoad
    /\ load.pc # "none" => Len(load.reads) = Len(SharesOf(t, c))
    /\ load.pc = "posting" => Posted(t, c, load)
    /\ load.pc \in {"polling", "over"} =>
          /\ load.unnotified = {}
          /\ ~load.failed => \A i \in ShareIds(t, c) : load.reads[i] \notin {"todo", "notify"}
    /\ load.pc = "over" =>
          InState(load, "PROC") = {} /\ (~load.failed => InState(load, "ERR") = {})
    /\ load.pc # "none" /\ ~load.failed => ReadsWhatMoves(t, c, load)
LoadsOK == \A c \in Consumers(top), r \in Reqs : LoadOK(top, c, consumer[c].load[r])

(* Ranks of the consumer that have told their engine that a load is over.  *)
Told(rank, r) == rank.load[r].pc = "over" /\ r \notin rank.finished \cup rank.failed
ToldBy(t, ranks, r) == {c \in Consumers(t) : Told(ranks[c], r)}
ReportOK(rank, r, state, failed) ==
    /\ r \in rank.finished \cup rank.failed => rank.load[r].pc = "over" /\ state = "loading"
    /\ r \in rank.finished => ~rank.load[r].failed
    /\ rank.load[r].failed /\ Told(rank, r) =>
          state = "failed" \/ (state = "loading" /\ r \in failed)
Reports ==
    /\ \A c \in Consumers(top), r \in Reqs : ReportOK(consumer[c], r, recv[r], recved.failed)
    /\ \A r \in Reqs :
          IF recv[r] \in {"loaded", "failed"}
          THEN recved.count[r] = 0 /\ ToldBy(top, consumer, r) = Consumers(top)
          ELSE recved.count[r] = Cardinality(ToldBy(top, consumer, r))

(* A rank has ended with a producer rank once it neither reads from it nor *)
(* will: each end sends at most one notification, and no fault exactly one. *)
Ended(t, c, load, p) ==
    /\ load.pc # "none" /\ p \notin load.unnotified
    /\ \A i \in ShareIds(t, c) : RankOf(t, c, i) = p => load.reads[i] # "PROC"
EndedBy(t, ranks, p, r) == {c \in Sharing(t, p) : Ended(t, c, ranks[c].load[r], p)}
Taken(t, ranks, sentto, p, r) == {c \in EndedBy(t, ranks, p, r) : <<p, r, c>> \notin sentto}
NoneFaulty(t, ranks, r) == \A c \in Consumers(t) : ~Faulty(ranks[c].load[r])
NoticeOK(t, ranks, sentto, p, r, rank, exact) ==
    /\ \A c \in Consumers(t) : <<p, r, c>> \in sentto => c \in EndedBy(t, ranks, p, r)
    /\ rank.notified[r] <= Cardinality(Taken(t, ranks, sentto, p, r))
    /\ exact /\ NoneFaulty(t, ranks, r) =>
          rank.notified[r] = Cardinality(Taken(t, ranks, sentto, p, r))
Exactly(rank, r, state, gone) ==
    r \notin gone /\ (state \in {"none", "queued"} \/ r \in rank.to_send)
Notices ==
    \A p \in Producers(top), r \in Reqs :
        NoticeOK(top, consumer, notifs, p, r, producer[p],
                 Exactly(producer[p], r, send[r], expired))

(* Ranks of the producer that have told their engine that a send is over.  *)
Released(t, ranks, r) ==
    {p \in Producers(t) : r \notin ranks[p].to_send \cup ranks[p].finished}
SendOK(t, p, rank, r, state) ==
    /\ r \in rank.to_send =>
          state = "held" /\ r \notin rank.finished /\ rank.notified[r] < ReadersOf(t, p)
    /\ r \in rank.finished => state = "held"
AllEnded(t, ranks, p, r, rank, state, gone) ==
    state \in {"held", "freed"} /\ r \notin rank.to_send /\ r \notin gone
        => EndedBy(t, ranks, p, r) = Sharing(t, p)
Sends ==
    /\ \A p \in Producers(top), r \in Reqs :
          /\ SendOK(top, p, producer[p], r, send[r])
          /\ AllEnded(top, consumer, p, r, producer[p], send[r], expired)
    /\ \A r \in Reqs :
          sent[r] = IF send[r] = "held" THEN Cardinality(Released(top, producer, r)) ELSE 0

(* Until a deadline passes, what has landed is what was read, unspoilt. *)
Landed ==
    \A c \in Consumers(top), r \in Reqs : r \notin expired =>
        landed[c][r] = UNION {MovesOf(top, c, i) : i \in InState(consumer[c].load[r], "DONE")}

(* Only what was offered is asked for. *)
Offered == \A r \in Reqs : send[r] = "none" => recv[r] = "none"

(* The inductive invariant. *)
IInv ==
    /\ Types
    /\ Offered
    /\ Queues
    /\ LoadsOK
    /\ Reports
    /\ Notices
    /\ Sends
    /\ Landed

-----------------------------------------------------------------------------
(* Quotients and their multiples. *)
LEMMA DivBounds ==
    ASSUME NEW a \in Nat, NEW d \in Nat \ {0}
    PROVE  /\ a \div d \in Nat /\ (a \div d) * d <= a /\ a < (a \div d + 1) * d
           /\ a % d = a - (a \div d) * d
  OBVIOUS

(* Multiples of a number are ordered as their factors are. *)
LEMMA Multiples ==
    ASSUME NEW i \in Nat, NEW j \in Nat, NEW d \in Nat \ {0}
    PROVE  /\ i * d \in Nat /\ (i + 1) * d = i * d + d
           /\ i < j => i * d + d <= j * d
           /\ i <= j => i * d <= j * d
           /\ i * d < j * d => i < j
  OBVIOUS

(* A quotient compared with a number. *)
LEMMA DivAtMost ==
    ASSUME NEW a \in Nat, NEW d \in Nat \ {0}, NEW p \in Nat
    PROVE  a \div d <= p <=> a < (p + 1) * d
  <1> DEFINE k == a \div d
  <1>1. k \in Nat /\ k * d <= a /\ a < (k + 1) * d
    BY DivBounds
  <1> HIDE DEF k
  <1>2. k <= p => (k + 1) * d <= (p + 1) * d
    BY <1>1, Multiples
  <1>3. k > p => (p + 1) * d <= k * d
    BY <1>1, Multiples
  <1>4. k * d \in Nat /\ (k + 1) * d \in Nat /\ (p + 1) * d \in Nat
    BY <1>1, Multiples
  <1> QED
    BY <1>1, <1>2, <1>3, <1>4 DEF k

(* A quotient rounded up compared with a number. *)
LEMMA BelowCeilDiv ==
    ASSUME NEW a \in Nat, NEW d \in Nat \ {0}, NEW p \in Nat
    PROVE  CeilDiv(a, d) \in Nat /\ (p < CeilDiv(a, d) <=> p * d < a)
  <1>1. a + d - 1 \in Nat /\ CeilDiv(a, d) = (a + d - 1) \div d
    BY DEF CeilDiv
  <1>2. CeilDiv(a, d) \in Nat /\ (CeilDiv(a, d) <= p <=> a + d - 1 < (p + 1) * d)
    BY <1>1, DivBounds, DivAtMost
  <1>3. p * d \in Nat /\ (p + 1) * d = p * d + d
    BY Multiples
  <1> QED
    BY <1>2, <1>3

(* A number that d divides is d times its quotient. *)
LEMMA Exact ==
    ASSUME NEW a \in Nat \ {0}, NEW d \in Nat \ {0}, a % d = 0
    PROVE  a \div d \in Nat \ {0} /\ (a \div d) * d = a
  <1>1. a \div d \in Nat /\ (a \div d) * d = a
    BY DivBounds
  <1>2. a \div d # 0
    BY <1>1
  <1> QED
    BY <1>1, <1>2

(* The larger and the smaller of two numbers. *)
LEMMA OfTwo ==
    ASSUME NEW a \in Int, NEW b \in Int
    PROVE  /\ Max({a, b}) = IF a >= b THEN a ELSE b
           /\ Min({a, b}) = IF a <= b THEN a ELSE b
  <1>1. /\ \E x \in {a, b} : \A y \in {a, b} : x >= y
        /\ \E x \in {a, b} : \A y \in {a, b} : x <= y
    OBVIOUS
  <1>2. Max({a, b}) \in {a, b} /\ \A y \in {a, b} : Max({a, b}) >= y
    BY <1>1 DEF Max
  <1>3. Min({a, b}) \in {a, b} /\ \A y \in {a, b} : Min({a, b}) <= y
    BY <1>1 DEF Min
  <1> QED
    BY <1>2, <1>3

(* A set of numbers has a smallest one. *)
LEMMA Smallest ==
    ASSUME NEW n \in Nat, NEW S, S \subseteq 1..n, S # {}
    PROVE  \E x \in S : \A y \in S : x <= y
  <1> DEFINE T == {1..k : k \in S}
  <1>1. IsFiniteSet(1..n)
    BY FS_Interval
  <1>2. IsWellFoundedOn(StrictSubsetOrdering(1..n), FiniteSubsetsOf(1..n))
    BY FS_StrictSubsetOrderingWellFounded
  <1>3. T \subseteq FiniteSubsetsOf(1..n)
    <2> SUFFICES ASSUME NEW k \in S PROVE 1..k \in FiniteSubsetsOf(1..n)
      OBVIOUS
    <2>1. 1..k \subseteq 1..n
      OBVIOUS
    <2> QED
      BY <1>1, <2>1, FS_Subset DEF FiniteSubsetsOf
  <1>4. T # {}
    OBVIOUS
  <1> HIDE DEF T
  <1>5. PICK t \in T : \A y \in T : ~(<<y, t>> \in StrictSubsetOrdering(1..n))
    BY <1>2, <1>3, <1>4, WFMin
  <1>6. PICK x \in S : t = 1..x
    BY DEF T
  <1>7. ASSUME NEW y \in S, y < x PROVE FALSE
    <2>1. 1..y \in T
      BY DEF T
    <2>2. /\ 1..y \subseteq 1..n /\ 1..x \subseteq 1..n /\ 1..y \subseteq 1..x
          /\ 1..y # 1..x
      <3>1. x \in 1..x /\ x \notin 1..y
        BY <1>7
      <3> QED
        BY <1>7, <3>1
    <2> QED
      BY <1>5, <1>6, <2>1, <2>2 DEF StrictSubsetOrdering
  <1> QED
    BY <1>7

-----------------------------------------------------------------------------
(* Rank a of heads la each and rank b of heads lb each have one in common. *)
Overlap(a, la, b, lb) == a * la < (b + 1) * lb /\ b * lb < (a + 1) * la

(* What rank a has in common with rank b. *)
ShareOf(a, la, b, lb) ==
    LET first == Max({a * la, b * lb})
    IN  [rank |-> b, remote_head |-> first - b * lb, local_head |-> first - a * la,
         num_heads |-> Min({a * la + la, (b + 1) * lb}) - first]

(* The shares are the remote ranks with a head in common, in their order.  *)
SharesInOrder(rank, tp, remote_tp, heads) ==
    LET local == heads \div tp
        remote == heads \div remote_tp
        shares == HeadShares(rank, tp, remote_tp, heads)
        q0 == (rank * local) \div remote
    IN  /\ q0 \in Nat /\ Len(shares) \in Nat \ {0} /\ DOMAIN shares = 1..Len(shares)
        /\ \A i \in 1..Len(shares) :
              /\ shares[i].rank = q0 + i - 1 /\ shares[i].rank \in 0..(remote_tp - 1)
              /\ shares[i] = ShareOf(rank, local, q0 + i - 1, remote)
        /\ \A q \in 0..(remote_tp - 1) :
              q - q0 + 1 \in 1..Len(shares) <=> Overlap(rank, local, q, remote)

(* head_shares, for any rank of any size that divides the heads. *)
LEMMA ShareRanks ==
    ASSUME NEW tp \in Nat \ {0}, NEW remote_tp \in Nat \ {0}, NEW heads \in Nat \ {0},
           heads % tp = 0, heads % remote_tp = 0, NEW rank \in 0..(tp - 1)
    PROVE  SharesInOrder(rank, tp, remote_tp, heads)
  <1> DEFINE local == heads \div tp
             remote == heads \div remote_tp
             shares == HeadShares(rank, tp, remote_tp, heads)
             q0 == (rank * local) \div remote
  <1>1. /\ local \in Nat \ {0} /\ local * tp = heads
        /\ remote \in Nat \ {0} /\ remote * remote_tp = heads
    BY Exact
  <1> DEFINE start == rank * local
             end == start + local
             n == CeilDiv(end, remote) - q0
  <1> HIDE DEF local, remote, shares, q0
  <1>2. rank \in Nat /\ start \in Nat /\ end \in Nat /\ end = (rank + 1) * local
    BY <1>1, Multiples
  <1>3. end <= heads
    <2>1. rank + 1 \in Nat /\ rank + 1 <= tp
      BY <1>2
    <2>2. (rank + 1) * local <= tp * local
      BY <1>1, <2>1, Multiples
    <2>3. tp * local = heads
      BY <1>1
    <2> QED
      BY <1>2, <2>2, <2>3
  <1>4. q0 \in Nat
    BY <1>1, <1>2, DivBounds DEF q0
  <1>5. CeilDiv(end, remote) \in Nat
    BY <1>1, <1>2, BelowCeilDiv
  <1>6. q0 < CeilDiv(end, remote)
    <2>1. q0 * remote <= start
      BY <1>1, <1>2, DivBounds DEF q0
    <2>2. q0 * remote \in Nat /\ start < end
      BY <1>1, <1>2, <1>4, Multiples
    <2>3. q0 * remote < end
      BY <1>2, <2>1, <2>2
    <2> HIDE DEF end
    <2> QED
      BY <1>1, <1>2, <1>4, <2>3, BelowCeilDiv
  <1>7. CeilDiv(end, remote) <= remote_tp
    <2>1. remote_tp * remote = heads /\ remote_tp \in Nat /\ remote \in Nat \ {0} /\ end \in Nat
      BY <1>1, <1>2
    <2> HIDE DEF end
    <2>2. remote_tp < CeilDiv(end, remote) <=> remote_tp * remote < end
      BY <2>1, BelowCeilDiv
    <2> QED
      BY <1>3, <1>5, <2>1, <2>2
  <1>8. n \in Nat \ {0}
    BY <1>4, <1>5, <1>6
  <1>9. Len(shares) = n /\ DOMAIN shares = 1..n
        /\ \A i \in 1..n : /\ shares[i].rank = q0 + i - 1
                            /\ shares[i] = ShareOf(rank, local, q0 + i - 1, remote)
    <2>1. shares = [i \in 1..n |-> ShareOf(rank, local, q0 + i - 1, remote)]
      BY DEF HeadShares, ShareOf, shares, q0, local, remote
    <2>2. \A i \in 1..n : ShareOf(rank, local, q0 + i - 1, remote).rank = q0 + i - 1
      BY DEF ShareOf
    <2> HIDE DEF n, start, end
    <2> QED
      BY <1>8, <2>1, <2>2
  <1>10. \A i \in 1..n : q0 + i - 1 \in 0..(remote_tp - 1)
    <2> DEFINE k == CeilDiv(end, remote)
    <2> HIDE DEF k, end
    <2>1. k \in Nat /\ k <= remote_tp /\ n = k - q0
      BY <1>5, <1>7 DEF k, n
    <2> QED
      BY <1>4, <2>1
  <1>11. ASSUME NEW q \in 0..(remote_tp - 1)
         PROVE  q - q0 + 1 \in 1..n <=> Overlap(rank, local, q, remote)
    <2>1. q0 <= q <=> start < (q + 1) * remote
      BY <1>1, <1>2, DivAtMost DEF q0
    <2>2. q < CeilDiv(end, remote) <=> q * remote < end
      <3>1. q \in Nat /\ remote \in Nat \ {0} /\ end \in Nat
        BY <1>1, <1>2
      <3> HIDE DEF end
      <3> QED
        BY <3>1, BelowCeilDiv
    <2> DEFINE k == CeilDiv(end, remote)
    <2>3. q - q0 + 1 \in 1..n <=> q0 <= q /\ q < k
      <3> HIDE DEF end, k
      <3>1. k \in Nat /\ n = k - q0
        BY <1>5 DEF k, n
      <3> QED
        BY <1>4, <3>1
    <2> HIDE DEF k, end, start
    <2> QED
      BY <1>2, <2>1, <2>2, <2>3 DEF Overlap, k, start
  <1> HIDE DEF n
  <1> QED
    BY <1>4, <1>8, <1>9, <1>10, <1>11 DEF SharesInOrder, local, remote, shares, q0

(* Both engines' heads, in any topology. *)
LEMMA HeadsFacts ==
    ASSUME NEW t \in Topologies
    PROVE  /\ t.ptp \in Nat \ {0} /\ t.ctp \in Nat \ {0} /\ t.heads \in Nat
           /\ HeadsOf(t) \in Nat \ {0} /\ HeadsOf(t) % t.ptp = 0 /\ HeadsOf(t) % t.ctp = 0
           /\ t.heads # 0 => HeadsOf(t) = t.heads
  <1>1. /\ t.ptp \in Nat \ {0} /\ t.ctp \in Nat \ {0} /\ t.heads \in Nat
        /\ t.heads % t.ptp = 0 /\ t.heads % t.ctp = 0
    BY TopologyAssumption 
  <1>2. CASE t.heads # 0
    BY <1>1, <1>2 DEF HeadsOf
  <1>3. CASE t.heads = 0
    <2> DEFINE m == t.ptp * t.ctp
               S == {n \in 1..m : n % t.ptp = 0 /\ n % t.ctp = 0}
    <2>1. m \in Nat \ {0}
      BY <1>1
    <2>2. m % t.ptp = 0 /\ m % t.ctp = 0
      <3>1. ASSUME NEW a \in Nat \ {0}, NEW b \in Nat \ {0} PROVE (a * b) % b = 0
        <4> DEFINE x == a * b
                   k == x \div b
        <4>1. x \in Nat /\ k \in Nat /\ k * b <= x /\ x < (k + 1) * b /\ x % b = x - k * b
          BY Multiples, DivBounds
        <4>2. k = a
          <5>1. a <= k
            <6>1. (k + 1) \in Nat /\ a < k + 1
              <7> HIDE DEF k
              <7>1. a * b < (k + 1) * b
                BY <4>1
              <7> QED
                BY <4>1, <7>1, Multiples
            <6> QED
              BY <4>1, <6>1
          <5>2. k <= a
            <6> HIDE DEF k
            <6>1. k * b < (a + 1) * b
              BY <4>1, Multiples
            <6> QED
              BY <4>1, <6>1, Multiples
          <5> HIDE DEF k
          <5> QED
            BY <4>1, <5>1, <5>2
        <4> HIDE DEF k
        <4> QED
          BY <4>1, <4>2
      <3>2. m = t.ctp * t.ptp
        BY <1>1
      <3> QED
        BY <1>1, <3>1, <3>2
    <2>3. S \subseteq 1..m /\ S # {}
      BY <2>1, <2>2
    <2>4. PICK x \in S : \A y \in S : x <= y
      <3> HIDE DEF S, m
      <3> QED
        BY <2>1, <2>3, Smallest
    <2>5. \E n \in 1..m : /\ n % t.ptp = 0 /\ n % t.ctp = 0
                          /\ \A k \in 1..(n - 1) : k % t.ptp # 0 \/ k % t.ctp # 0
      <3>1. ASSUME NEW k \in 1..(x - 1) PROVE k % t.ptp # 0 \/ k % t.ctp # 0
        <4>1. k \in 1..m /\ ~(x <= k)
          BY <2>1
        <4>2. k \notin S
          BY <2>4, <4>1
        <4> QED
          BY <4>1, <4>2
      <3> QED
        BY <3>1
    <2>6. HeadsOf(t) \in 1..m /\ HeadsOf(t) % t.ptp = 0 /\ HeadsOf(t) % t.ctp = 0
      BY <1>3, <2>5 DEF HeadsOf
    <2> QED
      BY <1>1, <1>3, <2>1, <2>6
  <1> QED
    BY <1>2, <1>3

(* The shares of a rank, and the ranks that share with a producer rank:    *)
(* as many as the producer rank expects notifications.                     *)
LEMMA Layout ==
    ASSUME NEW t \in Topologies
    PROVE  /\ \A c \in Consumers(t) :
                 /\ Len(SharesOf(t, c)) \in Nat \ {0} /\ ShareIds(t, c) = 1..Len(SharesOf(t, c))
                 /\ \A i \in ShareIds(t, c) : RankOf(t, c, i) \in Producers(t)
                 /\ \A i, j \in ShareIds(t, c) : RankOf(t, c, i) = RankOf(t, c, j) => i = j
           /\ \A p \in Producers(t) : /\ IsFiniteSet(Sharing(t, p))
                                /\ Cardinality(Sharing(t, p)) = ReadersOf(t, p) /\ ReadersOf(t, p) \in Nat
           /\ IsFiniteSet(Producers(t)) /\ Cardinality(Producers(t)) \in Nat \ {0}
           /\ IsFiniteSet(Consumers(t)) /\ Cardinality(Consumers(t)) \in Nat \ {0}
  <1>1. /\ t.ptp \in Nat \ {0} /\ t.ctp \in Nat \ {0}
        /\ HeadsOf(t) \in Nat \ {0} /\ HeadsOf(t) % t.ptp = 0 /\ HeadsOf(t) % t.ctp = 0
    BY HeadsFacts
  <1> DEFINE lc == HeadsOf(t) \div t.ctp
             lp == HeadsOf(t) \div t.ptp
             first(c) == (c * lc) \div lp
  <1>2. ASSUME NEW c \in Consumers(t)
        PROVE  /\ first(c) \in Nat
               /\ Len(SharesOf(t, c)) \in Nat \ {0} /\ ShareIds(t, c) = 1..Len(SharesOf(t, c))
               /\ \A i \in 1..Len(SharesOf(t, c)) :
                    RankOf(t, c, i) = first(c) + i - 1 /\ RankOf(t, c, i) \in Producers(t)
               /\ \A q \in Producers(t) :
                    q - first(c) + 1 \in 1..Len(SharesOf(t, c)) <=> Overlap(c, lc, q, lp)
    <2> DEFINE shares == HeadShares(c, t.ctp, t.ptp, HeadsOf(t))
    <2>1. c \in 0..(t.ctp - 1)
      BY DEF Consumers
    <2>2. /\ first(c) \in Nat /\ Len(shares) \in Nat \ {0} /\ DOMAIN shares = 1..Len(shares)
          /\ \A i \in 1..Len(shares) :
                shares[i].rank = first(c) + i - 1 /\ shares[i].rank \in 0..(t.ptp - 1)
          /\ \A q \in 0..(t.ptp - 1) :
                q - first(c) + 1 \in 1..Len(shares) <=> Overlap(c, lc, q, lp)
      <3>1. SharesInOrder(c, t.ctp, t.ptp, HeadsOf(t))
        BY <1>1, <2>1, ShareRanks
      <3> QED
        BY <3>1 DEF SharesInOrder
    <2>3. shares = SharesOf(t, c)
      BY DEF SharesOf
    <2> HIDE DEF first, shares, lc, lp
    <2> QED
      BY <2>2, <2>3 DEF Producers, ShareIds, RankOf
  <1>3. ASSUME NEW c \in Consumers(t), NEW p \in Producers(t)
        PROVE  (\E i \in ShareIds(t, c) : RankOf(t, c, i) = p) <=> Overlap(c, lc, p, lp)
    <2> DEFINE f == first(c)
               n == Len(SharesOf(t, c))
    <2>1. /\ f \in Nat /\ n \in Nat /\ ShareIds(t, c) = 1..n
          /\ \A i \in 1..n : RankOf(t, c, i) = f + i - 1
          /\ p - f + 1 \in 1..n <=> Overlap(c, lc, p, lp)
      BY <1>2
    <2> HIDE DEF f, n, lc, lp
    <2>2. p \in Int
      BY <1>1 DEF Producers
    <2>3. (\E i \in 1..n : f + i - 1 = p) <=> p - f + 1 \in 1..n
      <3>1. \A i \in 1..n : f + i - 1 = p => i = p - f + 1
        BY <2>1, <2>2
      <3>2. f + (p - f + 1) - 1 = p
        BY <2>1, <2>2
      <3> QED
        BY <3>1, <3>2
    <2> QED
      BY <2>1, <2>3
  <1>4. ASSUME NEW p \in Producers(t)
        PROVE  /\ IsFiniteSet(Sharing(t, p)) /\ ReadersOf(t, p) \in Nat
               /\ Cardinality(Sharing(t, p)) = ReadersOf(t, p)
    <2> DEFINE shares == HeadShares(p, t.ptp, t.ctp, HeadsOf(t))
               q0 == (p * lp) \div lc
               n == Len(shares)
    <2>0. p \in 0..(t.ptp - 1)
      BY DEF Producers
    <2>1. /\ q0 \in Nat /\ n \in Nat \ {0}
          /\ \A i \in 1..n : q0 + i - 1 \in Consumers(t)
          /\ \A c \in Consumers(t) : c - q0 + 1 \in 1..n <=> Overlap(p, lp, c, lc)
      <3>1. /\ q0 \in Nat /\ n \in Nat \ {0}
            /\ \A i \in 1..n :
                  shares[i].rank = q0 + i - 1 /\ shares[i].rank \in 0..(t.ctp - 1)
            /\ \A c \in 0..(t.ctp - 1) : c - q0 + 1 \in 1..n <=> Overlap(p, lp, c, lc)
        <4>1. SharesInOrder(p, t.ptp, t.ctp, HeadsOf(t))
          BY <1>1, <2>0, ShareRanks
        <4> QED
          BY <4>1 DEF SharesInOrder
      <3> HIDE DEF q0, shares, n, lc, lp
      <3> QED
        BY <3>1 DEF Consumers
    <2>2. ReadersOf(t, p) = n
      BY DEF ReadersOf
    <2> HIDE DEF q0, n, lc, lp
    <2>3. \A c \in Consumers(t) : c \in Int
      BY <1>1 DEF Consumers
    <2>4. Sharing(t, p) = {c \in Consumers(t) : c - q0 + 1 \in 1..n}
      BY <1>3, <2>1 DEF Sharing, Overlap
    <2>5. Sharing(t, p) = q0..(q0 + n - 1)
      <3>1. ASSUME NEW c \in q0..(q0 + n - 1) PROVE c \in Consumers(t) /\ c - q0 + 1 \in 1..n
        <4>1. c - q0 + 1 \in 1..n /\ q0 + (c - q0 + 1) - 1 = c
          BY <2>1
        <4> QED
          BY <2>1, <4>1
      <3>2. ASSUME NEW c \in Consumers(t), c - q0 + 1 \in 1..n PROVE c \in q0..(q0 + n - 1)
        BY <2>1, <2>3, <3>2
      <3> QED
        BY <2>4, <3>1, <3>2
    <2>6. IsFiniteSet(q0..(q0 + n - 1)) /\ Cardinality(q0..(q0 + n - 1)) = n
      <3>1. q0 \in Int /\ q0 + n - 1 \in Int /\ ~(q0 > q0 + n - 1) /\ (q0 + n - 1) - q0 + 1 = n
        BY <2>1
      <3> QED
        BY <3>1, FS_Interval
    <2> QED
      BY <2>1, <2>2, <2>5, <2>6
  <1>5. /\ IsFiniteSet(Producers(t)) /\ Cardinality(Producers(t)) \in Nat \ {0}
        /\ IsFiniteSet(Consumers(t)) /\ Cardinality(Consumers(t)) \in Nat \ {0}
    <2>1. ASSUME NEW k \in Nat \ {0}
          PROVE  IsFiniteSet(0..(k - 1)) /\ Cardinality(0..(k - 1)) \in Nat \ {0}
      <3>1. 0 \in Int /\ k - 1 \in Int /\ ~(0 > k - 1) /\ (k - 1) - 0 + 1 = k
        OBVIOUS
      <3> QED
        BY <3>1, FS_Interval
    <2> QED
      BY <1>1, <2>1 DEF Producers, Consumers
  <1>6. ASSUME NEW c \in Consumers(t)
        PROVE  \A i, j \in ShareIds(t, c) : RankOf(t, c, i) = RankOf(t, c, j) => i = j
    <2> DEFINE f == first(c)
    <2>1. f \in Nat /\ ShareIds(t, c) = 1..Len(SharesOf(t, c)) /\ Len(SharesOf(t, c)) \in Nat
          /\ \A i \in 1..Len(SharesOf(t, c)) : RankOf(t, c, i) = f + i - 1
      BY <1>2
    <2> HIDE DEF f
    <2> QED
      BY <2>1
  <1> HIDE DEF first, lc, lp
  <1> QED
    BY <1>2, <1>4, <1>5, <1>6

(* Latents come in one piece; heads in pieces that make up the rank's own, *)
(* each at its place.                                                      *)
LEMMA MovesCover ==
    ASSUME NEW t \in Topologies, NEW c \in Consumers(t), NEW local, local = t.heads \div t.ctp
    PROVE  /\ \A i \in ShareIds(t, c) : MovesOf(t, c, i) \subseteq Nat \X Nat
           /\ UNION {MovesOf(t, c, i) : i \in ShareIds(t, c)} =
                 IF t.heads = 0 THEN {<<0, 0>>} ELSE {<<h, c * local + h>> : h \in 0..(local - 1)}
  <1>1. /\ Len(SharesOf(t, c)) \in Nat \ {0} /\ ShareIds(t, c) = 1..Len(SharesOf(t, c))
    BY Layout
  <1>2. CASE t.heads = 0
    <2>1. \A i \in ShareIds(t, c) : MovesOf(t, c, i) = IF i = 1 THEN {<<0, 0>>} ELSE {}
      BY <1>2 DEF MovesOf
    <2>2. 1 \in ShareIds(t, c)
      BY <1>1
    <2> QED
      BY <1>2, <2>1, <2>2
  <1>3. CASE t.heads # 0
    <2> DEFINE remote == HeadsOf(t) \div t.ptp
               start == c * local
               q0 == start \div remote
               n == Len(SharesOf(t, c))
               end == start + local
    <2>1. /\ t.ptp \in Nat \ {0} /\ t.ctp \in Nat \ {0} /\ HeadsOf(t) \in Nat \ {0}
          /\ HeadsOf(t) % t.ptp = 0 /\ HeadsOf(t) % t.ctp = 0 /\ local = HeadsOf(t) \div t.ctp
      BY <1>3, HeadsFacts
    <2>2. c \in 0..(t.ctp - 1)
      BY DEF Consumers
    <2>3. SharesInOrder(c, t.ctp, t.ptp, HeadsOf(t))
      BY <2>1, <2>2, ShareRanks
    <2>4. /\ q0 \in Nat /\ n \in Nat \ {0}
          /\ \A i \in 1..n : /\ q0 + i - 1 \in 0..(t.ptp - 1)
                              /\ SharesOf(t, c)[i] = ShareOf(c, local, q0 + i - 1, remote)
          /\ \A q \in 0..(t.ptp - 1) : q - q0 + 1 \in 1..n <=> Overlap(c, local, q, remote)
      BY <2>1, <2>3 DEF SharesInOrder, SharesOf
    <2>5. /\ local \in Nat \ {0} /\ local * t.ctp = HeadsOf(t)
          /\ remote \in Nat \ {0} /\ remote * t.ptp = HeadsOf(t)
      BY <2>1, Exact
    <2> HIDE DEF remote, q0, n
    <2>6. start \in Nat /\ end \in Nat /\ end = (c + 1) * local /\ end <= HeadsOf(t)
      <3>1. c \in Nat /\ c + 1 \in Nat /\ c + 1 <= t.ctp
        BY <2>1, <2>2
      <3>2. (c + 1) * local <= t.ctp * local /\ c * local \in Nat
            /\ (c + 1) * local = c * local + local
        BY <2>1, <2>5, <3>1, Multiples
      <3>3. t.ctp * local = HeadsOf(t)
        BY <2>1, <2>5
      <3> QED
        BY <2>5, <3>2, <3>3
    <2> HIDE DEF start, end
    <2> DEFINE lo(q) == IF start >= q * remote THEN start ELSE q * remote
               hi(q) == IF end <= (q + 1) * remote THEN end ELSE (q + 1) * remote
    <2>7. ASSUME NEW i \in ShareIds(t, c), NEW q, q = q0 + i - 1
          PROVE  /\ q \in 0..(t.ptp - 1) /\ q * remote \in Nat /\ (q + 1) * remote \in Nat
                 /\ MovesOf(t, c, i) = {<<lo(q) - start + k, lo(q) + k>> : k \in 0..(hi(q) - lo(q) - 1)}
      <3>1. q \in 0..(t.ptp - 1) /\ SharesOf(t, c)[i] = ShareOf(c, local, q, remote)
        BY <1>1, <2>4, <2>7 DEF n
      <3>2. q * remote \in Nat /\ (q + 1) * remote \in Nat
        <4>1. q \in Nat /\ q + 1 \in Nat
          BY <2>1, <3>1
        <4> QED
          BY <2>5, <4>1, Multiples
      <3> DEFINE x == q * remote
                 y == (q + 1) * remote
      <3>3. Max({start, x}) = lo(q) /\ Min({end, y}) = hi(q)
        <4>1. lo(q) = (IF start >= x THEN start ELSE x) /\ hi(q) = IF end <= y THEN end ELSE y
          OBVIOUS
        <4>2. x \in Int /\ y \in Int /\ start \in Int /\ end \in Int
          BY <2>6, <3>2
        <4> HIDE DEF x, y, lo, hi
        <4>3. /\ Max({start, x}) = IF start >= x THEN start ELSE x
              /\ Min({end, y}) = IF end <= y THEN end ELSE y
          BY <4>2, OfTwo
        <4> QED
          BY <4>1, <4>3
      <3>4. ShareOf(c, local, q, remote)
            = [rank |-> q, remote_head |-> lo(q) - x, local_head |-> lo(q) - start,
               num_heads |-> hi(q) - lo(q)]
        BY <3>3 DEF ShareOf, start, end
      <3>5. lo(q) \in Nat /\ hi(q) \in Nat /\ x \in Nat
        BY <2>6, <3>2
      <3> DEFINE share == SharesOf(t, c)[i]
                 first == share.rank * (HeadsOf(t) \div t.ptp) + share.remote_head
      <3>6. MovesOf(t, c, i) = {<<share.local_head + k, first + k>> : k \in 0..(share.num_heads - 1)}
        BY <1>3 DEF MovesOf
      <3>7. /\ share.local_head = lo(q) - start /\ share.num_heads = hi(q) - lo(q)
            /\ first = x + (lo(q) - x)
        BY <3>1, <3>4 DEF remote
      <3> HIDE DEF lo, hi, x, share, first
      <3>8. first = lo(q)
        BY <3>5, <3>7
      <3> QED
        BY <3>1, <3>2, <3>6, <3>7, <3>8
    <2>8. ASSUME NEW i \in ShareIds(t, c)
          PROVE  /\ MovesOf(t, c, i) \subseteq Nat \X Nat
                 /\ MovesOf(t, c, i) \subseteq {<<h, start + h>> : h \in 0..(local - 1)}
      <3> DEFINE q == q0 + i - 1
                 x == q * remote
                 y == (q + 1) * remote
      <3>1. /\ x \in Nat /\ y \in Nat
            /\ MovesOf(t, c, i) = {<<lo(q) - start + k, lo(q) + k>> : k \in 0..(hi(q) - lo(q) - 1)}
        BY <2>7
      <3>2. lo(q) \in Nat /\ hi(q) \in Nat /\ start <= lo(q) /\ hi(q) <= end
        <4>1. lo(q) = IF start >= x THEN start ELSE x
          OBVIOUS
        <4>2. hi(q) = IF end <= y THEN end ELSE y
          OBVIOUS
        <4> HIDE DEF x, y, lo, hi, q
        <4> QED
          BY <2>6, <3>1, <4>1, <4>2
      <3>3. end = start + local
        BY DEF end
      <3> HIDE DEF lo, hi, q, x, y
      <3> SUFFICES ASSUME NEW k \in 0..(hi(q) - lo(q) - 1)
                   PROVE  /\ <<lo(q) - start + k, lo(q) + k>> \in Nat \X Nat
                          /\ <<lo(q) - start + k, lo(q) + k>>
                                \in {<<h, start + h>> : h \in 0..(local - 1)}
        BY <3>1
      <3> DEFINE h == lo(q) - start + k
      <3>4. h \in 0..(local - 1) /\ start + h = lo(q) + k /\ h \in Nat /\ lo(q) + k \in Nat
        BY <2>5, <2>6, <3>2, <3>3
      <3> QED
        BY <3>4
    <2>9. ASSUME NEW h \in 0..(local - 1)
          PROVE  \E i \in ShareIds(t, c) : <<h, start + h>> \in MovesOf(t, c, i)
      <3> DEFINE g == start + h
                 q == g \div remote
                 x == q * remote
                 y == (q + 1) * remote
                 i == q - q0 + 1
      <3>1. g \in Nat /\ start <= g /\ g < end /\ g < HeadsOf(t)
        BY <2>1, <2>5, <2>6 DEF end
      <3>2. q \in Nat /\ x <= g /\ g < y
        <4> HIDE DEF g
        <4> QED
          BY <2>5, <3>1, DivBounds
      <3> HIDE DEF g, q
      <3>3. x \in Nat /\ y \in Nat
        BY <2>5, <3>2, Multiples
      <3>4. q \in 0..(t.ptp - 1)
        <4>1. t.ptp * remote = HeadsOf(t) /\ t.ptp \in Nat
          BY <2>1, <2>5
        <4>2. q * remote < t.ptp * remote
          BY <3>1, <3>2, <3>3, <4>1, <2>1
        <4>3. q < t.ptp
          BY <2>5, <3>2, <4>1, <4>2, Multiples
        <4> QED
          BY <3>2, <4>1, <4>3
      <3>5. Overlap(c, local, q, remote)
        <4> HIDE DEF x, y
        <4>1. start < y /\ x < end
          BY <2>6, <3>1, <3>2, <3>3
        <4> QED
          BY <2>6, <4>1 DEF Overlap, x, y, start
      <3>6. i \in ShareIds(t, c)
        BY <1>1, <2>4, <3>4, <3>5 DEF n
      <3>7. q = q0 + i - 1
        BY <2>4, <3>2
      <3> HIDE DEF i
      <3>8. MovesOf(t, c, i) = {<<lo(q) - start + k, lo(q) + k>> : k \in 0..(hi(q) - lo(q) - 1)}
        BY <2>7, <3>6, <3>7
      <3>9. lo(q) \in Nat /\ hi(q) \in Nat /\ lo(q) <= g /\ g < hi(q) /\ start <= lo(q)
        <4>1. lo(q) = (IF start >= x THEN start ELSE x) /\ hi(q) = IF end <= y THEN end ELSE y
          OBVIOUS
        <4> HIDE DEF x, y, lo, hi
        <4> QED
          BY <2>6, <3>1, <3>2, <3>3, <4>1
      <3> HIDE DEF lo, hi
      <3> DEFINE k == g - lo(q)
      <3>10. k \in 0..(hi(q) - lo(q) - 1) /\ lo(q) - start + k = h /\ lo(q) + k = g
        BY <2>6, <3>1, <3>9 DEF g
      <3>11. <<h, g>> \in MovesOf(t, c, i)
        <4> HIDE DEF k
        <4> QED
          BY <3>8, <3>10
      <3> QED
        BY <3>6, <3>11 DEF g
    <2>10. UNION {MovesOf(t, c, i) : i \in ShareIds(t, c)} = {<<h, start + h>> : h \in 0..(local - 1)}
      BY <2>8, <2>9
    <2> QED
      BY <1>3, <2>8, <2>10 DEF start
  <1> QED
    BY <1>2, <1>3

-----------------------------------------------------------------------------
(* The counted sets are finite. *)
LEMMA Counts ==
    ASSUME NEW t \in Topologies, NEW ranks, NEW p \in Producers(t), NEW r, NEW sentto
    PROVE  /\ IsFiniteSet(Sharing(t, p)) /\ Cardinality(Sharing(t, p)) = ReadersOf(t, p)
           /\ ReadersOf(t, p) \in Nat
           /\ EndedBy(t, ranks, p, r) \subseteq Sharing(t, p)
           /\ IsFiniteSet(EndedBy(t, ranks, p, r))
           /\ Cardinality(EndedBy(t, ranks, p, r)) \in Nat
           /\ IsFiniteSet(Taken(t, ranks, sentto, p, r))
           /\ Cardinality(Taken(t, ranks, sentto, p, r)) \in Nat
           /\ Cardinality(Taken(t, ranks, sentto, p, r)) <= Cardinality(EndedBy(t, ranks, p, r))
           /\ Cardinality(EndedBy(t, ranks, p, r)) <= ReadersOf(t, p)
           /\ Cardinality(EndedBy(t, ranks, p, r)) = ReadersOf(t, p)
                => EndedBy(t, ranks, p, r) = Sharing(t, p)
  <1> DEFINE S == Sharing(t, p)
             E == EndedBy(t, ranks, p, r)
             T == Taken(t, ranks, sentto, p, r)
  <1>1. IsFiniteSet(S) /\ Cardinality(S) = ReadersOf(t, p) /\ ReadersOf(t, p) \in Nat
    BY Layout
  <1>2. E \in SUBSET S /\ T \in SUBSET E
    BY DEF EndedBy, Taken
  <1> HIDE DEF S, E, T
  <1>3. IsFiniteSet(E) /\ Cardinality(E) <= Cardinality(S)
        /\ (Cardinality(S) = Cardinality(E) => S = E)
    BY <1>1, <1>2, FS_Subset
  <1>4. IsFiniteSet(T) /\ Cardinality(T) <= Cardinality(E)
    BY <1>2, <1>3, FS_Subset
  <1>5. Cardinality(E) \in Nat /\ Cardinality(T) \in Nat
    BY <1>3, <1>4, FS_CardinalityType
  <1> QED
    BY <1>1, <1>2, <1>3, <1>4, <1>5 DEF S, E, T

(* The types of a rank. *)
LEMMA ConsumerFacts ==
    ASSUME Types, NEW c \in Consumers(top)
    PROVE  /\ consumer[c] \in Readings(top) /\ consumer[c].queue \in Seq(Items)
           /\ Len(consumer[c].queue) \in Nat
           /\ \A i \in 1..Len(consumer[c].queue) : consumer[c].queue[i] \in Items
           /\ \A i \in 1..Len(consumer[c].queue) : consumer[c].queue[i].req \in Reqs
           /\ consumer[c].load \in [Reqs -> Loads(top)]
           /\ \A r \in Reqs : consumer[c].load[r] \in Loads(top)
           /\ consumer[c].finished \subseteq Reqs /\ consumer[c].failed \subseteq Reqs
           /\ consumer[c].known \subseteq Producers(top)
  <1>1. consumer[c] \in Readings(top)
    BY DEF Types
  <1> DEFINE w == consumer[c]
  <1> HIDE DEF w
  <1>2. /\ w.queue \in Seq(Items) /\ w.load \in [Reqs -> Loads(top)]
        /\ w.finished \subseteq Reqs /\ w.failed \subseteq Reqs /\ w.known \subseteq Producers(top)
    BY <1>1 DEF w, Readings
  <1> DEFINE q == w.queue
  <1> HIDE DEF q
  <1>3. q \in Seq(Items)
    BY <1>2 DEF q
  <1>4. Len(q) \in Nat /\ \A i \in 1..Len(q) : q[i] \in Items /\ q[i].req \in Reqs
    <2>1. Len(q) \in Nat /\ \A i \in 1..Len(q) : q[i] \in Items
      BY <1>3
    <2>2. \A x \in Items : x.req \in Reqs
      BY DEF Items
    <2> QED
      BY <2>1, <2>2
  <1>5. \A r \in Reqs : w.load[r] \in Loads(top)
    BY <1>2
  <1> QED
    BY <1>1, <1>2, <1>3, <1>4, <1>5 DEF w, q

(* The types of a producer's rank. *)
LEMMA ProducerFacts ==
    ASSUME Types, NEW p \in Producers(top)
    PROVE  /\ producer[p] \in Senders /\ producer[p].to_send \subseteq Reqs
           /\ producer[p].finished \subseteq Reqs /\ producer[p].due \subseteq Reqs
           /\ producer[p].notified \in [Reqs -> Nat]
           /\ \A r \in Reqs : producer[p].notified[r] \in Nat
  <1>1. producer[p] \in Senders
    BY DEF Types
  <1> QED
    BY <1>1 DEF Senders

(* In the first state nothing is on its way. *)
LEMMA InitIInv == Init => IInv
  <1> SUFFICES ASSUME Init PROVE IInv
    OBVIOUS
  <1> USE DEF Init
  <1>0. PRanks = Producers(top) /\ CRanks = Consumers(top) /\ top \in Topologies
    BY Here
  <1>1. NoLoad \in Loads(top)
    <2>1. << >> \in Seq(ReadStates)
      OBVIOUS
    <2> QED
      BY <2>1 DEF NoLoad, Loads
  <1>2. InState(NoLoad, "DONE") = {} /\ InState(NoLoad, "ERR") = {}
    BY DEF InState, NoLoad
  <1>3. \A c \in Consumers(top) :
           /\ consumer[c].queue = << >> /\ consumer[c].finished = {} /\ consumer[c].failed = {}
           /\ consumer[c].load = [r \in Reqs |-> NoLoad]
    BY <1>0
  <1>4. \A p \in Producers(top) :
           /\ producer[p].to_send = {} /\ producer[p].finished = {}
           /\ \A r \in Reqs : producer[p].notified[r] = 0
    BY <1>0
  <1>5. \A c \in Consumers(top), r \in Reqs :
           consumer[c].load[r] = NoLoad /\ consumer[c].load[r].pc = "none"
    <2>1. NoLoad.pc = "none"
      BY DEF NoLoad
    <2> HIDE DEF Init
    <2> QED
      BY <1>3, <2>1
  <1>6. Types
    <2>1. producer \in [Producers(top) -> Senders]
      BY <1>0 DEF Senders
    <2>2. consumer \in [Consumers(top) -> Readings(top)]
      <3>1. << >> \in Seq(Items)
        OBVIOUS
      <3> QED
        BY <1>0, <1>1, <3>1 DEF Readings
    <2>3. landed \in [Consumers(top) -> [Reqs -> SUBSET Cells]]
      BY <1>0
    <2>4. waiting \in Seq(Items)
      OBVIOUS
    <2> QED
      BY <1>0, <2>1, <2>2, <2>3, <2>4 DEF Types
  <1>14. /\ waiting = << >> /\ \A r \in Reqs : sent[r] = 0 /\ send[r] = "none" /\ recv[r] = "none"
         /\ notifs = {} /\ \A r \in Reqs : recved.count[r] = 0
    OBVIOUS
  <1>15. \A c \in Consumers(top), r \in Reqs : landed[c][r] = {}
    BY <1>0
  <1> HIDE DEF Init
  <1>7. Queues
    BY <1>3, <1>5, <1>14 DEF Queues, QueueOK, Once
  <1>8. LoadsOK
    BY <1>5 DEF LoadsOK, LoadOK
  <1>9. Reports
    <2>1. \A c \in Consumers(top), r \in Reqs :
             ~Told(consumer[c], r) /\ r \notin consumer[c].finished \cup consumer[c].failed
      BY <1>3, <1>5 DEF Told
    <2>2. \A r \in Reqs : ToldBy(top, consumer, r) = {}
      BY <2>1 DEF ToldBy
    <2> QED
      BY <1>14, <2>1, <2>2, FS_EmptySet DEF Reports, ReportOK
  <1>10. \A p \in Producers(top), r \in Reqs :
            /\ EndedBy(top, consumer, p, r) = {} /\ Taken(top, consumer, notifs, p, r) = {}
    <2>1. \A p \in Producers(top), r \in Reqs : EndedBy(top, consumer, p, r) = {}
      BY <1>5 DEF EndedBy, Ended, Sharing
    <2> QED
      BY <2>1 DEF Taken
  <1>11. Notices
    <2>1. \A p \in Producers(top), r \in Reqs :
             producer[p].notified[r] = Cardinality(Taken(top, consumer, notifs, p, r))
             /\ Cardinality(Taken(top, consumer, notifs, p, r)) = 0
      BY <1>4, <1>10, FS_EmptySet
    <2> QED
      BY <1>14, <2>1 DEF Notices, NoticeOK
  <1>12. Sends
    BY <1>4, <1>14 DEF Sends, SendOK, AllEnded
  <1>13. Landed
    BY <1>2, <1>5, <1>15 DEF Landed
  <1> QED
    BY <1>6, <1>7, <1>8, <1>9, <1>11, <1>12, <1>13, <1>14 DEF IInv, Offered

(* request_finished keeps the invariant. *)
LEMMA RequestFinishedIInv ==
    ASSUME IInv, NEW r \in Reqs, RequestFinished(r)
    PROVE  IInv' /\ [Promise!Next]_(Promise!vars)
  <1> USE DEF RequestFinished
  <1>1. Types'
    BY DEF IInv, Types
  <1>2. Queues' /\ LoadsOK' /\ Reports' /\ Landed'
    BY DEF IInv, Queues, LoadsOK, Reports, Landed
  <1>3. \A s \in Reqs \ {r} : send'[s] = send[s]
    BY DEF IInv, Types
  <1>4. send'[r] = "queued"
    BY DEF IInv, Types
  <1>5. Notices'
    <2> SUFFICES ASSUME NEW p \in Producers(top), NEW s \in Reqs
                 PROVE  NoticeOK(top, consumer, notifs, p, s, producer[p],
                                 Exactly(producer[p], s, send'[s], expired))
      BY DEF Notices
    <2>1. Exactly(producer[p], s, send'[s], expired) <=> Exactly(producer[p], s, send[s], expired)
      BY <1>3, <1>4 DEF Exactly
    <2>2. NoticeOK(top, consumer, notifs, p, s, producer[p],
                   Exactly(producer[p], s, send[s], expired))
      BY DEF IInv, Notices
    <2> QED
      BY <2>1, <2>2 DEF NoticeOK
  <1>6. Sends'
    <2>1. \A p \in Producers(top), s \in Reqs :
             /\ SendOK(top, p, producer[p], s, send'[s])
             /\ AllEnded(top, consumer, p, s, producer[p], send'[s], expired)
      BY <1>3, <1>4 DEF IInv, Sends, SendOK, AllEnded
    <2>2. \A s \in Reqs :
          sent[s] = IF send'[s] = "held" THEN Cardinality(Released(top, producer, s)) ELSE 0
      BY <1>3, <1>4 DEF IInv, Sends
    <2> QED
      BY <2>1, <2>2 DEF Sends
  <1>7. Promise!Next
    BY DEF Promise!Next, Promise!Offer
  <1> QED
    BY <1>1, <1>2, <1>3, <1>4, <1>5, <1>6, <1>7 DEF IInv, Offered

(* update_state_after_alloc keeps the invariant. *)
LEMMA UpdateStateAfterAllocIInv ==
    ASSUME IInv, NEW r \in Reqs, UpdateStateAfterAlloc(r)
    PROVE  IInv' /\ [Promise!Next]_(Promise!vars)
  <1> USE DEF UpdateStateAfterAlloc
  <1>1. PICK reads \in BOOLEAN : waiting' = Append(waiting, [req |-> r, reads |-> reads])
    OBVIOUS
  <1> DEFINE item == [req |-> r, reads |-> reads]
             n == Len(waiting)
  <1>2. item \in Items /\ waiting \in Seq(Items) /\ n \in Nat
    BY DEF IInv, Types, Items
  <1>3. Types'
    BY <1>1, <1>2 DEF IInv, Types
  <1>4. \A s \in Reqs \ {r} : recv'[s] = recv[s]
    BY DEF IInv, Types
  <1>5. recv'[r] = "queued" /\ recv[r] = "none"
    BY DEF IInv, Types
  <1>6. LoadsOK' /\ Notices' /\ Sends' /\ Landed'
    BY DEF IInv, LoadsOK, Notices, Sends, Landed
  <1>7. /\ Len(waiting') = n + 1 /\ waiting'[n + 1].req = r
        /\ \A i \in 1..n : /\ waiting'[i] = waiting[i] /\ waiting[i].req \in Reqs
                           /\ recv[waiting[i].req] = "queued"
    <2>1. \A i \in 1..n : waiting[i] \in Items /\ recv[waiting[i].req] = "queued"
      BY <1>2 DEF IInv, Queues
    <2>2. Len(waiting') = n + 1 /\ waiting'[n + 1] = item /\ \A i \in 1..n : waiting'[i] = waiting[i]
      BY <1>1, <1>2
    <2> QED
      BY <2>1, <2>2 DEF Items
  <1>8. Queues'
    <2>1. \A i \in 1..(n + 1) : i = n + 1 \/ i \in 1..n
      BY <1>2
    <2>2. Once(waiting')
      BY <1>5, <1>7, <2>1 DEF Once, IInv, Queues
    <2>3. \A i \in 1..Len(waiting') : recv'[waiting'[i].req] = "queued"
      BY <1>4, <1>5, <1>7, <2>1
    <2>4. ASSUME NEW c \in Consumers(top) PROVE QueueOK(consumer[c], recv')
      <3>1. QueueOK(consumer[c], recv)
        BY DEF IInv, Queues
      <3>2. \A i \in 1..Len(consumer[c].queue) : consumer[c].queue[i].req \in Reqs
        BY ConsumerFacts DEF IInv
      <3>3. \A s \in Reqs : recv[s] \in Begun => recv'[s] \in Begun
        BY <1>4, <1>5 DEF Begun
      <3> QED
        BY <3>1, <3>2, <3>3 DEF QueueOK
    <2> QED
      BY <2>2, <2>3, <2>4 DEF Queues
  <1>9. Reports'
    <2>1. \A c \in Consumers(top), s \in Reqs : ReportOK(consumer[c], s, recv'[s], recved.failed)
      BY <1>4, <1>5 DEF IInv, Reports, ReportOK
    <2>2. \A s \in Reqs :
          IF recv'[s] \in {"loaded", "failed"}
          THEN recved.count[s] = 0 /\ ToldBy(top, consumer, s) = Consumers(top)
          ELSE recved.count[s] = Cardinality(ToldBy(top, consumer, s))
      BY <1>4, <1>5 DEF IInv, Reports
    <2> QED
      BY <2>1, <2>2 DEF Reports
  <1>10. Promise!Next
    BY DEF Promise!Next, Promise!Load
  <1> QED
    BY <1>3, <1>4, <1>6, <1>8, <1>9, <1>10 DEF IInv, Offered

(* The clock: a deadline alone changes nothing that was counted. *)
LEMMA DeadlineIInv ==
    ASSUME IInv, NEW p \in Producers(top), NEW r \in Reqs, Deadline(p, r)
    PROVE  IInv' /\ UNCHANGED <<send, recv>>
  <1> USE DEF Deadline
  <1>1. producer' \in [Producers(top) -> Senders]
    <2>1. [producer[p] EXCEPT !.due = producer[p].due \cup {r}] \in Senders
      BY ProducerFacts DEF IInv, Senders
    <2> QED
      BY <2>1 DEF IInv, Types
  <1>2. \A q \in Producers(top) :
           /\ producer'[q].to_send = producer[q].to_send
           /\ producer'[q].finished = producer[q].finished
           /\ producer'[q].notified = producer[q].notified
    BY DEF IInv, Types, Senders
  <1>3. Types'
    BY <1>1 DEF IInv, Types
  <1>4. Queues' /\ LoadsOK' /\ Reports' /\ Landed'
    BY DEF IInv, Queues, LoadsOK, Reports, Landed
  <1>5. Notices'
    <2> SUFFICES ASSUME NEW q \in Producers(top), NEW s \in Reqs
                 PROVE  NoticeOK(top, consumer, notifs, q, s, producer'[q],
                                 Exactly(producer'[q], s, send[s], expired))
      BY DEF Notices
    <2>1. NoticeOK(top, consumer, notifs, q, s, producer[q],
                   Exactly(producer[q], s, send[s], expired))
      BY DEF IInv, Notices
    <2> QED
      BY <1>2, <2>1 DEF NoticeOK, Exactly
  <1>6. Sends'
    <2>1. \A s \in Reqs : Released(top, producer', s) = Released(top, producer, s)
      BY <1>2 DEF Released
    <2>2. \A q \in Producers(top), s \in Reqs :
             /\ SendOK(top, q, producer'[q], s, send[s])
             /\ AllEnded(top, consumer, q, s, producer'[q], send[s], expired)
      BY <1>2 DEF IInv, Sends, SendOK, AllEnded
    <2> QED
      BY <2>1, <2>2 DEF IInv, Sends
  <1> QED
    BY <1>3, <1>4, <1>5, <1>6 DEF IInv, Offered

-----------------------------------------------------------------------------
(* What a step on one load may do to the counts: a rank that ends with a   *)
(* producer rank sends its notification, or is faulty; a rank that had     *)
(* ended stays so.                                                         *)
EndsOnce(t, c, r, load, new, before, after) ==
    /\ Faulty(load) => Faulty(new)
    /\ \A p \in Producers(t), s \in Reqs, d \in Consumers(t) :
          s # r \/ d # c \/ c \notin Sharing(t, p) =>
              (<<p, s, d>> \in after <=> <<p, s, d>> \in before)
    /\ \A p \in Producers(t) : c \in Sharing(t, p) =>
          \/ /\ Ended(t, c, load, p) <=> Ended(t, c, new, p)
             /\ <<p, r, c>> \in after <=> <<p, r, c>> \in before
          \/ /\ ~Ended(t, c, load, p) /\ Ended(t, c, new, p)
             /\ <<p, r, c>> \in after \/ Faulty(new)

(* A step on one load of one rank keeps what relates all of them. *)
LEMMA LoadStep ==
    ASSUME IInv, NEW c \in Consumers(top), NEW r \in Reqs,
           UNCHANGED <<top, send, producer, sent, expired>>,
           \A d \in Consumers(top) \ {c} : consumer'[d].load = consumer[d].load,
           \A s \in Reqs \ {r} : consumer'[c].load[s] = consumer[c].load[s],
           LoadOK(top, c, consumer'[c].load[r]),
           EndsOnce(top, c, r, consumer[c].load[r], consumer'[c].load[r], notifs, notifs')
    PROVE  LoadsOK' /\ Notices' /\ Sends'
  <1>1. \A d \in Consumers(top), s \in Reqs :
           d # c \/ s # r => consumer'[d].load[s] = consumer[d].load[s]
    OBVIOUS
  <1>2. top \in Topologies
    BY DEF IInv, Types
  <1>3. LoadsOK'
    <2> SUFFICES ASSUME NEW d \in Consumers(top), NEW s \in Reqs
                 PROVE  LoadOK(top, d, consumer'[d].load[s])
      BY DEF LoadsOK
    <2>1. LoadOK(top, d, consumer[d].load[s])
      BY DEF IInv, LoadsOK
    <2> QED
      BY <1>1, <2>1
  <1>4. ASSUME NEW p \in Producers(top), NEW s \in Reqs
        PROVE  /\ EndedBy(top, consumer, p, s) \subseteq EndedBy(top, consumer', p, s)
               /\ \A e : NoticeOK(top, consumer, notifs, p, s, producer[p], e) =>
                         NoticeOK(top, consumer', notifs', p, s, producer[p], e)
    <2> DEFINE EB == EndedBy(top, consumer, p, s)
               EN == EndedBy(top, consumer', p, s)
               TB == Taken(top, consumer, notifs, p, s)
               TN == Taken(top, consumer', notifs', p, s)
               old == consumer[c].load[r]
               new == consumer'[c].load[r]
    <2>1. \A d \in Sharing(top, p) : d \in Consumers(top)
      BY DEF Sharing
    <2>2. NoneFaulty(top, consumer', s) => NoneFaulty(top, consumer, s)
      BY <1>1 DEF NoneFaulty, EndsOnce
    <2>3. \A d \in Sharing(top, p) : d # c \/ s # r => (d \in EN <=> d \in EB)
      BY <1>1, <2>1 DEF EndedBy
    <2>4. EB \subseteq Sharing(top, p) /\ EN \subseteq Sharing(top, p)
      BY DEF EndedBy
    <2>5. IsFiniteSet(TB) /\ Cardinality(TB) \in Nat
      BY <1>2, Counts
    <2>6. producer[p].notified[s] \in Nat
      BY ProducerFacts DEF IInv
    <2>7. CASE s # r \/ c \notin Sharing(top, p) \/ /\ Ended(top, c, old, p) <=> Ended(top, c, new, p)
                                                    /\ <<p, r, c>> \in notifs' <=> <<p, r, c>> \in notifs
      <3>1. EN = EB
        <4>1. c \in Sharing(top, p) /\ s = r => (c \in EN <=> c \in EB)
          BY <2>7 DEF EndedBy
        <4> QED
          BY <2>3, <2>4, <4>1
      <3>2. \A d \in Consumers(top) : <<p, s, d>> \in notifs' <=> <<p, s, d>> \in notifs
        BY <2>7 DEF EndsOnce
      <3>3. TN = TB
        <4> HIDE DEF EB, EN
        <4>1. TN = {d \in EN : <<p, s, d>> \notin notifs'} /\ TB = {d \in EB : <<p, s, d>> \notin notifs}
          BY DEF Taken, EB, EN
        <4> QED
          BY <2>1, <2>4, <3>1, <3>2, <4>1
      <3> QED
        BY <2>2, <3>1, <3>2, <3>3 DEF NoticeOK
    <2>8. CASE /\ s = r /\ c \in Sharing(top, p) /\ ~Ended(top, c, old, p) /\ Ended(top, c, new, p)
               /\ <<p, r, c>> \in notifs' \/ Faulty(new)
      <3>1. EN = EB \cup {c} /\ c \notin EB
        <4>1. c \in EN /\ c \notin EB
          BY <2>8 DEF EndedBy
        <4> QED
          BY <2>3, <2>4, <4>1
      <3>2. \A d \in Consumers(top) \ {c} : <<p, s, d>> \in notifs' <=> <<p, s, d>> \in notifs
        BY DEF EndsOnce
      <3> HIDE DEF EB, EN
      <3>3. TN = {d \in EN : <<p, s, d>> \notin notifs'} /\ TB = {d \in EB : <<p, s, d>> \notin notifs}
        BY DEF Taken, EB, EN
      <3>4. c \notin TB /\ TN = IF <<p, r, c>> \in notifs' THEN TB ELSE TB \cup {c}
        BY <2>1, <2>4, <2>8, <3>1, <3>2, <3>3
      <3> HIDE DEF TN, TB
      <3>5. <<p, r, c>> \notin notifs' => Cardinality(TN) = Cardinality(TB) + 1
        BY <2>5, <3>4, FS_AddElement
      <3>6. <<p, r, c>> \in notifs' => Cardinality(TN) = Cardinality(TB)
        BY <3>4
      <3>7. ~NoneFaulty(top, consumer', s) \/ <<p, r, c>> \in notifs'
        BY <2>8 DEF NoneFaulty
      <3> SUFFICES ASSUME NEW e, NoticeOK(top, consumer, notifs, p, s, producer[p], e)
                   PROVE  NoticeOK(top, consumer', notifs', p, s, producer[p], e)
        BY <3>1 DEF EB, EN
      <3>8. /\ \A d \in Consumers(top) : <<p, s, d>> \in notifs => d \in EB
            /\ producer[p].notified[s] <= Cardinality(TB)
            /\ e /\ NoneFaulty(top, consumer, s) => producer[p].notified[s] = Cardinality(TB)
        BY DEF NoticeOK, EB, TB
      <3>9. \A d \in Consumers(top) : <<p, s, d>> \in notifs' => d \in EN
        BY <3>1, <3>2, <3>8
      <3>10. producer[p].notified[s] <= Cardinality(TN)
        BY <2>5, <2>6, <3>5, <3>6, <3>8
      <3>11. e /\ NoneFaulty(top, consumer', s) => producer[p].notified[s] = Cardinality(TN)
        BY <2>2, <3>6, <3>7, <3>8
      <3> QED
        BY <3>9, <3>10, <3>11 DEF NoticeOK, EN, TN
    <2> QED
      BY <2>7, <2>8 DEF EndsOnce
  <1>5. Notices'
    BY <1>4 DEF IInv, Notices
  <1>6. Sends'
    <2>1. ASSUME NEW p \in Producers(top), NEW s \in Reqs
          PROVE  AllEnded(top, consumer', p, s, producer[p], send[s], expired)
      <3>1. AllEnded(top, consumer, p, s, producer[p], send[s], expired)
        BY DEF IInv, Sends
      <3>2. EndedBy(top, consumer', p, s) \subseteq Sharing(top, p)
        BY DEF EndedBy
      <3> QED
        BY <1>4, <3>1, <3>2 DEF AllEnded
    <2> QED
      BY <2>1 DEF IInv, Sends
  <1> QED
    BY <1>3, <1>5, <1>6

-----------------------------------------------------------------------------
(* A load that was not over and is not yet is not reported. *)
LEMMA NotOver ==
    ASSUME IInv, NEW c \in Consumers(top), NEW r \in Reqs,
           UNCHANGED <<top, recv, recved>>,
           \A d \in Consumers(top) \ {c} : consumer'[d] = consumer[d],
           \A s \in Reqs \ {r} : consumer'[c].load[s] = consumer[c].load[s],
           consumer'[c].finished = consumer[c].finished,
           consumer'[c].failed = consumer[c].failed,
           consumer[c].load[r].pc # "over", consumer'[c].load[r].pc # "over"
    PROVE  Reports'
  <1>1. \A d \in Consumers(top), s \in Reqs : Told(consumer'[d], s) <=> Told(consumer[d], s)
    <2> SUFFICES ASSUME NEW d \in Consumers(top), NEW s \in Reqs
                 PROVE  Told(consumer'[d], s) <=> Told(consumer[d], s)
      OBVIOUS
    <2>1. CASE d # c
      BY <2>1
    <2>2. CASE d = c /\ s # r
      BY <2>2 DEF Told
    <2>3. CASE d = c /\ s = r
      BY <2>3 DEF Told
    <2> QED
      BY <2>1, <2>2, <2>3
  <1>2. \A s \in Reqs : ToldBy(top, consumer', s) = ToldBy(top, consumer, s)
    BY <1>1 DEF ToldBy
  <1>3. ASSUME NEW d \in Consumers(top), NEW s \in Reqs
        PROVE  ReportOK(consumer'[d], s, recv[s], recved.failed)
    <2>1. ReportOK(consumer[d], s, recv[s], recved.failed)
      BY DEF IInv, Reports
    <2>2. CASE d # c
      BY <2>1, <2>2
    <2>3. CASE d = c /\ s # r
      BY <1>1, <2>1, <2>3 DEF ReportOK
    <2>4. CASE d = c /\ s = r
      BY <1>1, <2>1, <2>4 DEF ReportOK, Told
    <2> QED
      BY <2>2, <2>3, <2>4
  <1> QED
    BY <1>2, <1>3 DEF IInv, Reports

(* The queues are as they were, and so are the loads that have begun. *)
LEMMA SameQueues ==
    ASSUME IInv, NEW c \in Consumers(top), NEW r \in Reqs,
           UNCHANGED <<top, recv, waiting>>,
           \A d \in Consumers(top) \ {c} : consumer'[d] = consumer[d],
           \A s \in Reqs \ {r} : consumer'[c].load[s] = consumer[c].load[s],
           consumer'[c].queue = consumer[c].queue,
           consumer[c].load[r].pc # "none", consumer'[c].load[r].pc # "none"
    PROVE  Queues'
  <1>1. ASSUME NEW d \in Consumers(top) PROVE QueueOK(consumer'[d], recv)
    <2>1. QueueOK(consumer[d], recv)
      BY DEF IInv, Queues
    <2>2. CASE d # c
      BY <2>1, <2>2
    <2>3. CASE d = c
      <3>1. \A i \in 1..Len(consumer[c].queue) : consumer[c].queue[i].req \in Reqs
        BY ConsumerFacts DEF IInv
      <3>2. Once(consumer'[c].queue)
        BY <2>1, <2>3 DEF QueueOK
      <3>3. \A i \in 1..Len(consumer[c].queue) :
               /\ recv[consumer[c].queue[i].req] \in Begun
               /\ consumer[c].load[consumer[c].queue[i].req].pc = "none"
        BY <2>1, <2>3 DEF QueueOK
      <3>4. \A i \in 1..Len(consumer[c].queue) : consumer[c].queue[i].req \in Reqs \ {r}
        BY <3>1, <3>3
      <3>5. \A i \in 1..Len(consumer[c].queue) :
               consumer'[c].load[consumer[c].queue[i].req].pc = "none"
        BY <3>3, <3>4
      <3>6. \A s \in Reqs : consumer'[c].load[s].pc # "none" => recv[s] \in Begun
        BY <2>1, <2>3 DEF QueueOK
      <3> QED
        BY <2>3, <3>2, <3>3, <3>5, <3>6 DEF QueueOK
    <2> QED
      BY <2>2, <2>3
  <1> QED
    BY <1>1 DEF IInv, Queues

(* An assignment to one load, and to the known ranks. *)
LEMMA SetLoad ==
    ASSUME Types, NEW c \in Consumers(top), NEW r \in Reqs, NEW load \in Loads(top),
           NEW known \in SUBSET Producers(top),
           consumer' = [consumer EXCEPT ![c].load[r] = load, ![c].known = known]
    PROVE  /\ consumer' \in [Consumers(top) -> Readings(top)]
           /\ \A d \in Consumers(top) \ {c} : consumer'[d] = consumer[d]
           /\ \A s \in Reqs \ {r} : consumer'[c].load[s] = consumer[c].load[s]
           /\ consumer'[c].load[r] = load
           /\ consumer'[c].queue = consumer[c].queue
           /\ consumer'[c].finished = consumer[c].finished
           /\ consumer'[c].failed = consumer[c].failed
  <1> DEFINE w == consumer[c]
             loads == [w.load EXCEPT ![r] = load]
             v == [w EXCEPT !.load = loads, !.known = known]
  <1>1. w \in Readings(top) /\ w.load \in [Reqs -> Loads(top)]
    BY ConsumerFacts
  <1>2. consumer \in [Consumers(top) -> Readings(top)]
    BY DEF Types
  <1>3. consumer' = [consumer EXCEPT ![c] = v]
    BY <1>1, <1>2 DEF Readings
  <1>4. /\ loads \in [Reqs -> Loads(top)] /\ loads[r] = load
        /\ \A s \in Reqs \ {r} : loads[s] = w.load[s]
    BY <1>1
  <1> HIDE DEF loads
  <1>5. /\ v \in Readings(top) /\ v.load = loads /\ v.queue = w.queue
        /\ v.finished = w.finished /\ v.failed = w.failed
    BY <1>1, <1>4 DEF Readings
  <1> HIDE DEF v, w
  <1>6. consumer'[c] = v /\ consumer' \in [Consumers(top) -> Readings(top)]
        /\ \A d \in Consumers(top) \ {c} : consumer'[d] = consumer[d]
    BY <1>2, <1>3, <1>5
  <1> QED
    BY <1>4, <1>5, <1>6 DEF w

(* A load's fields. *)
LEMMA LoadFacts ==
    ASSUME IInv, NEW c \in Consumers(top), NEW r \in Reqs, NEW load, load = consumer[c].load[r]
    PROVE  /\ load \in Loads(top) /\ LoadOK(top, c, load)
           /\ load.pc \in {"none", "posting", "polling", "over"} /\ load.next \in Nat
           /\ load.reads \in Seq(ReadStates) /\ load.unnotified \subseteq Producers(top)
           /\ load.failed \in BOOLEAN
           /\ DOMAIN load.reads = 1..Len(load.reads)
           /\ load.pc # "none" => DOMAIN load.reads = ShareIds(top, c)
           /\ top \in Topologies
  <1>1. load \in Loads(top) /\ LoadOK(top, c, load) /\ top \in Topologies
    BY ConsumerFacts DEF IInv, LoadsOK, Types
  <1>2. /\ load.pc \in {"none", "posting", "polling", "over"} /\ load.next \in Nat
        /\ load.reads \in Seq(ReadStates) /\ load.unnotified \subseteq Producers(top)
        /\ load.failed \in BOOLEAN
    BY <1>1 DEF Loads
  <1>3. ShareIds(top, c) = 1..Len(SharesOf(top, c))
    BY <1>1, Layout
  <1>4. DOMAIN load.reads = 1..Len(load.reads)
    BY <1>2
  <1> QED
    BY <1>1, <1>2, <1>3, <1>4 DEF LoadOK

(* _start takes a load from the queue. *)
LEMMA StartIInv ==
    ASSUME IInv, NEW c \in Consumers(top), Start(c)
    PROVE  IInv' /\ UNCHANGED <<send, recv>>
  <1>1. UNCHANGED <<top, send, producer, sent, recv, waiting, recved, notifs, landed, expired>>
    BY DEF Start
  <1> DEFINE w == consumer[c]
             q == w.queue
  <1>2. PICK item : item = Head(q)
    OBVIOUS
  <1> DEFINE r == item.req
  <1>3. PICK load : load = [pc |-> "posting", next |-> 1,
                  reads |-> [i \in ShareIds(top, c) |->
                                IF item.reads /\ MovesOf(top, c, i) # {} THEN "todo" ELSE "notify"],
                  unnotified |-> {RankOf(top, c, i) : i \in ShareIds(top, c)},
                  failed |-> FALSE]
    OBVIOUS
  <1>4. q # << >> /\ consumer' = [consumer EXCEPT ![c].queue = Tail(q), ![c].load[r] = load]
    <2>1. q # << >> /\ consumer' = [consumer EXCEPT
              ![c].queue = Tail(q),
              ![c].load[r] = [pc |-> "posting", next |-> 1,
                  reads |-> [i \in DOMAIN Shares(c) |->
                                IF item.reads /\ Moves(c, i) # {} THEN "todo" ELSE "notify"],
                  unnotified |-> {Shares(c)[i].rank : i \in DOMAIN Shares(c)},
                  failed |-> FALSE]]
      BY <1>2 DEF Start
    <2>2. [pc |-> "posting", next |-> 1,
                  reads |-> [i \in DOMAIN Shares(c) |->
                                IF item.reads /\ Moves(c, i) # {} THEN "todo" ELSE "notify"],
                  unnotified |-> {Shares(c)[i].rank : i \in DOMAIN Shares(c)},
                  failed |-> FALSE] = load
      <3>1. \A i : Moves(c, i) = MovesOf(top, c, i) /\ Shares(c)[i].rank = RankOf(top, c, i)
        BY Here
      <3>2. DOMAIN Shares(c) = ShareIds(top, c)
        BY Here
      <3>3. [i \in DOMAIN Shares(c) |->
                IF item.reads /\ Moves(c, i) # {} THEN "todo" ELSE "notify"]
            = [i \in ShareIds(top, c) |->
                IF item.reads /\ MovesOf(top, c, i) # {} THEN "todo" ELSE "notify"]
        BY <3>1, <3>2, Zenon
      <3>4. {Shares(c)[i].rank : i \in DOMAIN Shares(c)}
            = {RankOf(top, c, i) : i \in ShareIds(top, c)}
        BY <3>1, <3>2
      <3> QED
        BY <1>3, <3>3, <3>4, Zenon
    <2> QED
      BY <2>1, <2>2
  <1>5. /\ w \in Readings(top) /\ q \in Seq(Items) /\ Len(q) \in Nat /\ w.load \in [Reqs -> Loads(top)]
        /\ top \in Topologies /\ consumer \in [Consumers(top) -> Readings(top)]
    BY ConsumerFacts DEF IInv, Types
  <1>6. /\ Tail(q) \in Seq(Items) /\ Len(Tail(q)) = Len(q) - 1 /\ Len(q) >= 1
        /\ \A i \in 1..Len(Tail(q)) : Tail(q)[i] = q[i + 1] /\ i + 1 \in 1..Len(q)
        /\ item = q[1] /\ item \in Items
    <2> HIDE DEF q
    <2> QED
      BY <1>2, <1>4, <1>5
  <1>7. r \in Reqs /\ item.reads \in BOOLEAN
    BY <1>6 DEF Items
  <1>8. /\ Len(SharesOf(top, c)) \in Nat \ {0} /\ ShareIds(top, c) = 1..Len(SharesOf(top, c))
        /\ \A i \in ShareIds(top, c) : RankOf(top, c, i) \in Producers(top)
    BY <1>5, Layout
  <1>9. /\ load \in Loads(top) /\ load.pc = "posting" /\ load.next = 1 /\ ~load.failed
        /\ Len(load.reads) = Len(SharesOf(top, c))
        /\ \A i \in ShareIds(top, c) :
              load.reads[i] = IF item.reads /\ MovesOf(top, c, i) # {} THEN "todo" ELSE "notify"
        /\ load.unnotified = {RankOf(top, c, i) : i \in ShareIds(top, c)}
        /\ DOMAIN load.reads = ShareIds(top, c)
    <2> DEFINE n == Len(SharesOf(top, c))
               reads == [i \in 1..n |->
                           IF item.reads /\ MovesOf(top, c, i) # {} THEN "todo" ELSE "notify"]
    <2>1. reads \in Seq(ReadStates) /\ Len(reads) = n
      <3> HIDE DEF n
      <3>1. n \in Nat
        BY <1>8 DEF n
      <3> QED
        BY <3>1 DEF ReadStates
    <2>2. load = [pc |-> "posting", next |-> 1, reads |-> reads,
                  unnotified |-> {RankOf(top, c, i) : i \in ShareIds(top, c)}, failed |-> FALSE]
      BY <1>3, <1>8
    <2>3. \A i \in ShareIds(top, c) :
              reads[i] = IF item.reads /\ MovesOf(top, c, i) # {} THEN "todo" ELSE "notify"
      BY <1>8
    <2>4. {RankOf(top, c, i) : i \in ShareIds(top, c)} \subseteq Producers(top)
      BY <1>8
    <2>5. DOMAIN reads = ShareIds(top, c)
      BY <1>8
    <2> HIDE DEF reads
    <2>6. load \in Loads(top)
      BY <2>1, <2>2, <2>4 DEF Loads
    <2> QED
      BY <2>1, <2>2, <2>3, <2>5, <2>6
  <1> DEFINE loads == [w.load EXCEPT ![r] = load]
             v == [w EXCEPT !.queue = Tail(q), !.load = loads]
  <1>10. consumer' = [consumer EXCEPT ![c] = v]
    BY <1>4, <1>5 DEF Readings
  <1>11. /\ loads \in [Reqs -> Loads(top)] /\ loads[r] = load
         /\ \A s \in Reqs \ {r} : loads[s] = w.load[s]
    BY <1>5, <1>7, <1>9
  <1> HIDE DEF loads
  <1>12. /\ v \in Readings(top) /\ v.load = loads /\ v.queue = Tail(q)
         /\ v.finished = w.finished /\ v.failed = w.failed
    BY <1>5, <1>6, <1>11 DEF Readings
  <1> HIDE DEF v
  <1>13. consumer'[c] = v /\ consumer' \in [Consumers(top) -> Readings(top)]
         /\ \A d \in Consumers(top) \ {c} : consumer'[d] = consumer[d]
    BY <1>5, <1>10, <1>12
  <1>14. QueueOK(w, recv)
    BY DEF IInv, Queues
  <1>15. /\ w.load[r].pc = "none" /\ recv[r] \in Begun /\ w.load[r] = NoLoad
         /\ \A i \in 1..Len(q) : q[i].req \in Reqs
         /\ \A i \in 1..Len(Tail(q)) : Tail(q)[i].req # r
    <2>1. 1 \in 1..Len(q)
      BY <1>5, <1>6
    <2>2. w.load[r].pc = "none" /\ recv[r] \in Begun
      BY <1>6, <1>14, <2>1 DEF QueueOK
    <2>3. LoadOK(top, c, w.load[r])
      BY <1>7 DEF IInv, LoadsOK
    <2>4. \A i \in 1..Len(Tail(q)) : i + 1 # 1
      BY <1>5, <1>6
    <2>5. \A i \in 1..Len(Tail(q)) : Tail(q)[i].req # r
      BY <1>6, <1>14, <2>1, <2>4 DEF QueueOK, Once
    <2> QED
      BY <2>2, <2>3, <2>5, ConsumerFacts DEF LoadOK, IInv
  <1>16. Types'
    BY <1>1, <1>13 DEF IInv, Types
  <1>17. QueueOK(v, recv)
    <2>1. Once(Tail(q))
      <3> SUFFICES ASSUME NEW i \in 1..Len(Tail(q)), NEW j \in 1..Len(Tail(q)),
                          Tail(q)[i].req = Tail(q)[j].req
                   PROVE  i = j
        BY DEF Once
      <3>1. i + 1 = j + 1
        BY <1>6, <1>14 DEF QueueOK, Once
      <3> QED
        BY <1>5, <1>6, <3>1
    <2>2. \A i \in 1..Len(Tail(q)) :
             recv[Tail(q)[i].req] \in Begun /\ loads[Tail(q)[i].req].pc = "none"
      BY <1>6, <1>11, <1>14, <1>15 DEF QueueOK
    <2>3. \A s \in Reqs : loads[s].pc # "none" => recv[s] \in Begun
      BY <1>11, <1>14, <1>15 DEF QueueOK
    <2> QED
      BY <1>12, <2>1, <2>2, <2>3 DEF QueueOK
  <1>18. Queues'
    BY <1>1, <1>13, <1>17 DEF IInv, Queues
  <1>19. LoadOK(top, c, load)
    <2>1. Posted(top, c, load)
      BY <1>8, <1>9 DEF Posted
    <2>2. ReadsWhatMoves(top, c, load)
      BY <1>7, <1>9 DEF ReadsWhatMoves, Readable
    <2> QED
      BY <1>9, <2>1, <2>2 DEF LoadOK
  <1>20. EndsOnce(top, c, r, w.load[r], load, notifs, notifs')
    <2>1. ~Faulty(w.load[r])
      BY <1>15 DEF Faulty, NoLoad, InState
    <2>2. \A p \in Producers(top) : ~Ended(top, c, w.load[r], p)
      BY <1>15 DEF Ended
    <2>3. \A p \in Producers(top) : c \in Sharing(top, p) => ~Ended(top, c, load, p)
      BY <1>9 DEF Ended, Sharing
    <2> QED
      BY <1>1, <2>1, <2>2, <2>3 DEF EndsOnce
  <1>21. LoadsOK' /\ Notices' /\ Sends'
    BY <1>1, <1>7, <1>11, <1>12, <1>13, <1>19, <1>20, LoadStep
  <1>22. Reports'
    BY <1>1, <1>7, <1>9, <1>11, <1>12, <1>13, <1>15, NotOver
  <1>23. Landed'
    <2>1. InState(w.load[r], "DONE") = {} /\ InState(load, "DONE") = {}
      BY <1>9, <1>15 DEF InState, NoLoad
    <2>2. \A d \in Consumers(top), s \in Reqs :
             InState(consumer'[d].load[s], "DONE") = InState(consumer[d].load[s], "DONE")
      BY <1>11, <1>12, <1>13, <2>1
    <2> QED
      BY <1>1, <2>2 DEF IInv, Landed
  <1> QED
    BY <1>1, <1>16, <1>18, <1>21, <1>22, <1>23 DEF IInv, Offered

-----------------------------------------------------------------------------
(* A load with the state of one of its reads changed. *)
LEMMA SetRead ==
    ASSUME NEW seq \in Seq(ReadStates), NEW i \in 1..Len(seq), NEW read \in ReadStates
    PROVE  /\ [seq EXCEPT ![i] = read] \in Seq(ReadStates)
           /\ Len([seq EXCEPT ![i] = read]) = Len(seq)
           /\ DOMAIN [seq EXCEPT ![i] = read] = DOMAIN seq
           /\ \A j \in DOMAIN seq : [seq EXCEPT ![i] = read][j] = IF j = i THEN read ELSE seq[j]
  OBVIOUS

(* A load that has begun moves on, on its own rank, and is not over yet. *)
LEMMA MovesOn ==
    ASSUME IInv, NEW c \in Consumers(top), NEW r \in Reqs, NEW load, NEW new,
           load = consumer[c].load[r], consumer' \in [Consumers(top) -> Readings(top)],
           \A d \in Consumers(top) \ {c} : consumer'[d] = consumer[d],
           \A s \in Reqs \ {r} : consumer'[c].load[s] = consumer[c].load[s],
           consumer'[c].load[r] = new, consumer'[c].queue = consumer[c].queue,
           consumer'[c].finished = consumer[c].finished,
           consumer'[c].failed = consumer[c].failed,
           UNCHANGED <<top, send, producer, sent, recv, waiting, recved, expired>>,
           load.pc \notin {"none", "over"}, new.pc \notin {"none", "over"},
           LoadOK(top, c, new), EndsOnce(top, c, r, load, new, notifs, notifs'),
           notifs' \subseteq Producers(top) \X Reqs \X Consumers(top),
           landed' \in [Consumers(top) -> [Reqs -> SUBSET Cells]],
           \A d \in Consumers(top), s \in Reqs : d # c \/ s # r => landed'[d][s] = landed[d][s],
           r \notin expired =>
               landed'[c][r] = UNION {MovesOf(top, c, i) : i \in InState(new, "DONE")}
    PROVE  IInv' /\ UNCHANGED <<send, recv>>
  <1>1. Types
    BY DEF IInv
  <1>2. consumer[c].load[r].pc # "none" /\ consumer[c].load[r].pc # "over"
    OBVIOUS
  <1>8. consumer'[c].load[r].pc # "none" /\ consumer'[c].load[r].pc # "over"
    OBVIOUS
  <1>3. Types'
    BY <1>1, <1>2 DEF Types
  <1>4. Queues'
    BY <1>2, <1>8, SameQueues
  <1>5. LoadsOK' /\ Notices' /\ Sends'
    <2>1. LoadOK(top, c, consumer'[c].load[r])
      OBVIOUS
    <2>2. EndsOnce(top, c, r, consumer[c].load[r], consumer'[c].load[r], notifs, notifs')
      OBVIOUS
    <2> QED
      BY <2>1, <2>2, LoadStep
  <1>6. Reports'
    BY <1>2, <1>8, NotOver
  <1>7. Landed'
    <2> SUFFICES ASSUME NEW d \in Consumers(top), NEW s \in Reqs, s \notin expired
                 PROVE  landed'[d][s] =
                          UNION {MovesOf(top, d, i) : i \in InState(consumer'[d].load[s], "DONE")}
      BY DEF Landed
    <2>1. CASE d = c /\ s = r
      BY <1>2, <2>1
    <2>2. CASE d # c \/ s # r
      <3>1. consumer'[d].load[s] = consumer[d].load[s]
        BY <1>2, <2>2
      <3>2. landed[d][s] = UNION {MovesOf(top, d, i) : i \in InState(consumer[d].load[s], "DONE")}
        BY DEF IInv, Landed
      <3> QED
        BY <2>2, <3>1, <3>2
    <2> QED
      BY <2>1, <2>2
  <1> QED
    BY <1>3, <1>4, <1>5, <1>6, <1>7 DEF IInv, Offered

(* A load's facts while it posts, share i being next. *)
LEMMA PostingFacts ==
    ASSUME NEW t \in Topologies, NEW c \in Consumers(t), NEW load \in Loads(t),
           LoadOK(t, c, load), load.pc = "posting"
    PROVE  /\ load.next \in ShareIds(t, c) /\ load.next \in Nat /\ ~load.failed
           /\ ShareIds(t, c) = 1..Len(load.reads) /\ Len(load.reads) \in Nat
           /\ Len(load.reads) = Len(SharesOf(t, c))
           /\ ShareIds(t, c) = DOMAIN load.reads /\ load.reads \in Seq(ReadStates)
           /\ \A j \in ShareIds(t, c) : j \in Nat
           /\ \A j \in ShareIds(t, c) : RankOf(t, c, j) \in Producers(t)
           /\ \A j, k \in ShareIds(t, c) : RankOf(t, c, j) = RankOf(t, c, k) => j = k
           /\ \A j \in ShareIds(t, c) :
                 /\ RankOf(t, c, j) \in load.unnotified <=> j >= load.next
                 /\ load.reads[j] \in {"todo", "notify"} <=> j >= load.next
           /\ \A p \in load.unnotified : \E j \in ShareIds(t, c) : RankOf(t, c, j) = p
           /\ ReadsWhatMoves(t, c, load)
  <1>1. load.next \in Nat /\ load.reads \in Seq(ReadStates)
    BY DEF Loads
  <1>2. /\ ShareIds(t, c) = 1..Len(SharesOf(t, c)) /\ Len(SharesOf(t, c)) \in Nat
        /\ \A j \in ShareIds(t, c) : RankOf(t, c, j) \in Producers(t)
        /\ \A j, k \in ShareIds(t, c) : RankOf(t, c, j) = RankOf(t, c, k) => j = k
    BY Layout
  <1>3. Posted(t, c, load) /\ Len(load.reads) = Len(SharesOf(t, c)) /\ ~load.failed
        /\ ReadsWhatMoves(t, c, load)
    BY DEF LoadOK, Posted
  <1>4. DOMAIN load.reads = 1..Len(load.reads)
    BY <1>1
  <1>5. \A j \in ShareIds(t, c) : j \in Nat
    BY <1>2
  <1>6. \A j \in ShareIds(t, c) : j < load.next <=> ~(j >= load.next)
    BY <1>1, <1>5
  <1> QED
    BY <1>1, <1>2, <1>3, <1>4, <1>5, <1>6 DEF Posted

(* A share is posted: its read is in flight, or its notification is sent. *)
Posts(load, i, read, before, after, notice) ==
    \/ load.reads[i] = "notify" /\ read = "none" /\ after = before \cup {notice}
    \/ load.reads[i] = "todo" /\ read = "PROC" /\ after = before

(* A share is posted, or a rank that has nothing to read is notified. *)
LEMMA ShareDone ==
    ASSUME NEW t \in Topologies, NEW c \in Consumers(t), NEW r \in Reqs, NEW load \in Loads(t),
           LoadOK(t, c, load), load.pc = "posting", NEW i, i = load.next,
           NEW p, p = RankOf(t, c, i), NEW read, NEW new \in Loads(t),
           new.pc = (IF i = Len(SharesOf(t, c)) THEN "polling" ELSE "posting"),
           new.next = i + 1, new.reads = [load.reads EXCEPT ![i] = read],
           new.unnotified = load.unnotified \ {p}, new.failed = load.failed,
           NEW before, NEW after, Posts(load, i, read, before, after, <<p, r, c>>)
    PROVE  LoadOK(t, c, new) /\ EndsOnce(t, c, r, load, new, before, after)
  <1> USE DEF Posts
  <1>1. /\ i \in ShareIds(t, c) /\ i \in Nat /\ ~load.failed
        /\ ShareIds(t, c) = 1..Len(load.reads) /\ Len(load.reads) \in Nat
        /\ Len(load.reads) = Len(SharesOf(t, c))
        /\ ShareIds(t, c) = DOMAIN load.reads /\ load.reads \in Seq(ReadStates)
        /\ \A j \in ShareIds(t, c) : j \in Nat
        /\ \A j \in ShareIds(t, c) : RankOf(t, c, j) \in Producers(t)
        /\ \A j, k \in ShareIds(t, c) : RankOf(t, c, j) = RankOf(t, c, k) => j = k
        /\ \A j \in ShareIds(t, c) :
              /\ RankOf(t, c, j) \in load.unnotified <=> j >= i
              /\ load.reads[j] \in {"todo", "notify"} <=> j >= i
        /\ \A q \in load.unnotified : \E j \in ShareIds(t, c) : RankOf(t, c, j) = q
        /\ ReadsWhatMoves(t, c, load)
    BY PostingFacts
  <1>2. read \in ReadStates
    BY DEF ReadStates
  <1>3. /\ Len(new.reads) = Len(load.reads) /\ DOMAIN new.reads = ShareIds(t, c)
        /\ \A j \in ShareIds(t, c) : new.reads[j] = IF j = i THEN read ELSE load.reads[j]
    BY <1>1, <1>2, SetRead
  <1>4. \A j \in ShareIds(t, c) :
           /\ RankOf(t, c, j) \in new.unnotified <=> j >= i + 1
           /\ new.reads[j] \in {"todo", "notify"} <=> j >= i + 1
    <2>1. ASSUME NEW j \in ShareIds(t, c)
          PROVE  /\ RankOf(t, c, j) \in new.unnotified <=> j >= i /\ j # i
                 /\ new.reads[j] \in {"todo", "notify"} <=> j >= i /\ j # i
      BY <1>1, <1>3
    <2>2. \A j \in ShareIds(t, c) : j >= i /\ j # i <=> j >= i + 1
      BY <1>1
    <2> QED
      BY <2>1, <2>2
  <1>5. \A q \in new.unnotified : \E j \in ShareIds(t, c) : RankOf(t, c, j) = q
    BY <1>1
  <1>6. ReadsWhatMoves(t, c, new)
    <2>1. PICK reads \in BOOLEAN : \A j \in ShareIds(t, c) :
             load.reads[j] \in Readable(reads, MovesOf(t, c, j))
      BY <1>1 DEF ReadsWhatMoves
    <2>2. \A j \in ShareIds(t, c) : new.reads[j] \in Readable(reads, MovesOf(t, c, j))
      BY <1>1, <1>3, <2>1 DEF Readable
    <2> QED
      BY <2>2 DEF ReadsWhatMoves
  <1>9. LoadOK(t, c, new)
    <2>1. CASE i = Len(SharesOf(t, c))
      <3>1. \A j \in ShareIds(t, c) : ~(j >= i + 1)
        BY <1>1, <2>1
      <3>2. new.unnotified = {} /\ \A j \in ShareIds(t, c) : new.reads[j] \notin {"todo", "notify"}
        BY <1>4, <1>5, <3>1
      <3> QED
        BY <1>1, <1>3, <1>6, <2>1, <3>2 DEF LoadOK
    <2>2. CASE i # Len(SharesOf(t, c))
      <3>1. i + 1 \in ShareIds(t, c)
        BY <1>1, <2>2
      <3>2. \A j \in ShareIds(t, c) : j < i + 1 <=> ~(j >= i + 1)
        BY <1>1
      <3>3. Posted(t, c, new)
        BY <1>1, <1>4, <1>5, <3>1, <3>2 DEF Posted
      <3> QED
        BY <1>1, <1>3, <1>6, <2>2, <3>3 DEF LoadOK
    <2> QED
      BY <2>1, <2>2
  <1>10. Faulty(load) => Faulty(new)
    BY <1>1, <1>3 DEF Faulty, InState
  <1>11. c \in Sharing(t, p) /\ ~Ended(t, c, load, p)
    <2>1. i >= i
      BY <1>1
    <2> QED
      BY <1>1, <2>1 DEF Sharing, Ended
  <1>12. \A q \in Producers(t) : q # p => (Ended(t, c, load, q) <=> Ended(t, c, new, q))
    BY <1>1, <1>3 DEF Ended
  <1>13. p \notin new.unnotified
    OBVIOUS
  <1>14. Ended(t, c, new, p) <=> read # "PROC"
    BY <1>1, <1>3, <1>13 DEF Ended
  <1>15. \A q \in Producers(t), s \in Reqs, d \in Consumers(t) :
            q # p \/ s # r \/ d # c => (<<q, s, d>> \in after <=> <<q, s, d>> \in before)
    OBVIOUS
  <1>16. read # "PROC" => <<p, r, c>> \in after
    OBVIOUS
  <1>17. read = "PROC" => after = before
    OBVIOUS
  <1>18. \A q \in Producers(t), s \in Reqs, d \in Consumers(t) :
            s # r \/ d # c \/ c \notin Sharing(t, q) =>
                (<<q, s, d>> \in after <=> <<q, s, d>> \in before)
    BY <1>11, <1>15
  <1>19. ASSUME NEW q \in Producers(t), c \in Sharing(t, q)
         PROVE  \/ /\ Ended(t, c, load, q) <=> Ended(t, c, new, q)
                   /\ <<q, r, c>> \in after <=> <<q, r, c>> \in before
                \/ /\ ~Ended(t, c, load, q) /\ Ended(t, c, new, q)
                   /\ <<q, r, c>> \in after \/ Faulty(new)
    <2>1. CASE q # p
      BY <1>12, <1>15, <2>1
    <2>2. CASE q = p /\ read = "PROC"
      BY <1>11, <1>14, <1>17, <2>2
    <2>3. CASE q = p /\ read # "PROC"
      BY <1>11, <1>14, <1>16, <2>3
    <2> QED
      BY <2>1, <2>2, <2>3
  <1> QED
    BY <1>9, <1>10, <1>18, <1>19 DEF EndsOnce

(* A load fails while it posts: _fail leaves nothing to post. *)
LEMMA ShareFails ==
    ASSUME NEW t \in Topologies, NEW c \in Consumers(t), NEW r \in Reqs, NEW load \in Loads(t),
           LoadOK(t, c, load), load.pc = "posting", NEW i, i = load.next,
           NEW read \in {"none", "ERR"}, NEW new \in Loads(t),
           new.pc = "polling", new.reads = [load.reads EXCEPT ![i] = read],
           new.unnotified = {}, new.failed,
           NEW before, NEW told \in SUBSET {<<p, r, c>> : p \in load.unnotified}
    PROVE  LoadOK(t, c, new) /\ EndsOnce(t, c, r, load, new, before, before \cup told)
  <1>1. /\ i \in ShareIds(t, c) /\ i \in Nat
        /\ ShareIds(t, c) = 1..Len(load.reads) /\ Len(load.reads) = Len(SharesOf(t, c))
        /\ ShareIds(t, c) = DOMAIN load.reads /\ load.reads \in Seq(ReadStates)
        /\ \A j, k \in ShareIds(t, c) : RankOf(t, c, j) = RankOf(t, c, k) => j = k
        /\ \A j \in ShareIds(t, c) :
              /\ RankOf(t, c, j) \in load.unnotified <=> j >= i
              /\ load.reads[j] \in {"todo", "notify"} <=> j >= i
        /\ \A q \in load.unnotified : \E j \in ShareIds(t, c) : RankOf(t, c, j) = q
    BY PostingFacts
  <1>2. read \in ReadStates
    BY DEF ReadStates
  <1>3. /\ Len(new.reads) = Len(load.reads) /\ DOMAIN new.reads = ShareIds(t, c)
        /\ \A j \in ShareIds(t, c) : new.reads[j] = IF j = i THEN read ELSE load.reads[j]
    BY <1>1, <1>2, SetRead
  <1>4. LoadOK(t, c, new)
    BY <1>1, <1>3 DEF LoadOK
  <1>5. Faulty(new)
    BY DEF Faulty
  <1>6. \A q \in load.unnotified : c \in Sharing(t, q)
    BY <1>1 DEF Sharing
  <1>7. \A q \in Producers(t) : q \in load.unnotified =>
           ~Ended(t, c, load, q) /\ Ended(t, c, new, q)
    BY <1>1, <1>3 DEF Ended
  <1>8. \A q \in Producers(t) : q \notin load.unnotified =>
           (Ended(t, c, load, q) <=> Ended(t, c, new, q))
    <2>1. i >= i
      BY <1>1
    <2> QED
      BY <1>1, <1>3, <2>1 DEF Ended
  <1>9. \A q \in Producers(t), s \in Reqs, d \in Consumers(t) :
           q \notin load.unnotified \/ s # r \/ d # c => <<q, s, d>> \notin told
    OBVIOUS
  <1> QED
    BY <1>4, <1>5, <1>6, <1>7, <1>8, <1>9 DEF EndsOnce

(* _start, one share: posted, told, or failed. *)
LEMMA PostShareIInv ==
    ASSUME IInv, NEW c \in Consumers(top), NEW r \in Reqs, PostShare(c, r)
    PROVE  IInv' /\ UNCHANGED <<send, recv>>
  <1>1. UNCHANGED <<top, send, producer, sent, recv, waiting, recved, landed, expired>>
    BY DEF PostShare
  <1>2. PICK load : load = consumer[c].load[r]
    OBVIOUS
  <1>3. PICK i : i = load.next
    OBVIOUS
  <1>4. PICK p : p = RankOf(top, c, i)
    OBVIOUS
  <1>5. PICK known : known = consumer[c].known
    OBVIOUS
  <1>6. PICK n : n = Len(SharesOf(top, c))
    OBVIOUS
  <1>7. Shares(c)[load.next].rank = p /\ Len(Shares(c)) = n
    BY <1>3, <1>4, <1>6, Here
  <1>8. load.pc = "posting"
    BY <1>2 DEF PostShare
  <1>9. \/ \E read \in {"none", "PROC"}, told \in {{}, {<<p, r, c>>}} :
              /\ \/ load.reads[i] = "notify" /\ read = "none" /\ told = {<<p, r, c>>}
                 \/ load.reads[i] = "todo" /\ read = "PROC" /\ told = {}
              /\ consumer' = [consumer EXCEPT
                    ![c].load[r] = [load EXCEPT !.next = i + 1,
                                       !.pc = IF i = n THEN "polling" ELSE "posting",
                                       !.reads[i] = read, !.unnotified = load.unnotified \ {p}],
                    ![c].known = known \cup {p}]
              /\ notifs' = notifs \cup told
        \/ \E read \in {"none", "ERR"}, heard \in {known, known \cup {p}} :
              Fail(c, r, [load EXCEPT !.pc = "polling", !.reads[i] = read], heard)
    BY <1>2, <1>3, <1>5, <1>7 DEF PostShare
  <1>10. /\ load \in Loads(top) /\ LoadOK(top, c, load) /\ top \in Topologies
         /\ load.reads \in Seq(ReadStates) /\ load.unnotified \subseteq Producers(top)
         /\ load.failed \in BOOLEAN
    BY <1>2, LoadFacts
  <1>11. /\ i \in ShareIds(top, c) /\ i \in Nat /\ i \in 1..Len(load.reads)
         /\ p \in Producers(top) /\ ~load.failed
    BY <1>3, <1>4, <1>8, <1>10, PostingFacts
  <1>12. known \subseteq Producers(top) /\ notifs \subseteq Producers(top) \X Reqs \X Consumers(top)
         /\ landed \in [Consumers(top) -> [Reqs -> SUBSET Cells]] /\ Types
    BY <1>5, ConsumerFacts DEF IInv, Types
  <1>13. \A read \in {"none", "PROC", "ERR"} :
            LET reads == [load.reads EXCEPT ![i] = read]
            IN  /\ reads \in Seq(ReadStates) /\ DOMAIN reads = DOMAIN load.reads
                /\ {j \in DOMAIN reads : reads[j] = "DONE"} = {j \in DOMAIN load.reads : load.reads[j] = "DONE"}
    <2> SUFFICES ASSUME NEW read \in {"none", "PROC", "ERR"}, NEW reads, reads = [load.reads EXCEPT ![i] = read]
                 PROVE  /\ reads \in Seq(ReadStates) /\ DOMAIN reads = DOMAIN load.reads
                        /\ {j \in DOMAIN reads : reads[j] = "DONE"}
                              = {j \in DOMAIN load.reads : load.reads[j] = "DONE"}
      OBVIOUS
    <2>1. read \in ReadStates
      BY DEF ReadStates
    <2>2. /\ reads \in Seq(ReadStates) /\ DOMAIN reads = DOMAIN load.reads
          /\ \A j \in DOMAIN load.reads : reads[j] = IF j = i THEN read ELSE load.reads[j]
      BY <1>10, <1>11, <2>1, SetRead
    <2>3. load.reads[i] # "DONE"
      <3>1. Posted(top, c, load) /\ ~(i < i)
        BY <1>8, <1>10, <1>11 DEF LoadOK
      <3> QED
        BY <1>3, <1>11, <3>1 DEF Posted
    <2> QED
      BY <2>2, <2>3
  <1>14. r \notin expired =>
            landed[c][r] = UNION {MovesOf(top, c, j) : j \in InState(load, "DONE")}
    BY <1>2 DEF IInv, Landed
  <1>15. ASSUME NEW read \in {"none", "PROC"}, NEW told \in {{}, {<<p, r, c>>}},
                \/ load.reads[i] = "notify" /\ read = "none" /\ told = {<<p, r, c>>}
                \/ load.reads[i] = "todo" /\ read = "PROC" /\ told = {},
                consumer' = [consumer EXCEPT
                    ![c].load[r] = [load EXCEPT !.next = i + 1,
                                       !.pc = IF i = n THEN "polling" ELSE "posting",
                                       !.reads[i] = read, !.unnotified = load.unnotified \ {p}],
                    ![c].known = known \cup {p}],
                notifs' = notifs \cup told
         PROVE  IInv' /\ UNCHANGED <<send, recv>>
    <2>2. PICK new : new = [load EXCEPT !.next = i + 1,
                                       !.pc = IF i = n THEN "polling" ELSE "posting",
                                       !.reads[i] = read, !.unnotified = load.unnotified \ {p}]
      OBVIOUS
    <2>3. PICK heard : heard = known \cup {p}
      OBVIOUS
    <2>4. consumer' = [consumer EXCEPT ![c].load[r] = new, ![c].known = heard]
      BY <1>15, <2>2, <2>3
    <2>5. [load.reads EXCEPT ![i] = read] \in Seq(ReadStates)
      BY <1>13, <1>15
    <2>6. /\ new \in Loads(top) /\ new.pc = (IF i = n THEN "polling" ELSE "posting")
          /\ new.next = i + 1 /\ new.reads = [load.reads EXCEPT ![i] = read]
          /\ new.unnotified = load.unnotified \ {p} /\ new.failed = load.failed
      <3>1. PICK reads : reads = [load.reads EXCEPT ![i] = read]
        OBVIOUS
      <3>2. PICK pc \in {"polling", "posting"} : pc = IF i = n THEN "polling" ELSE "posting"
        OBVIOUS
      <3>3. PICK left \in SUBSET Producers(top) : left = load.unnotified \ {p}
        BY <1>10
      <3>4. new = [load EXCEPT !.next = i + 1, !.pc = pc, !.reads = reads, !.unnotified = left]
        BY <1>10, <2>2, <3>1, <3>2, <3>3 DEF Loads
      <3>5. reads \in Seq(ReadStates) /\ i + 1 \in Nat
        BY <1>11, <2>5, <3>1
      <3>6. /\ new \in Loads(top) /\ new.pc = pc /\ new.next = i + 1 /\ new.reads = reads
            /\ new.unnotified = left /\ new.failed = load.failed
        BY <1>10, <3>4, <3>5 DEF Loads
      <3> QED
        BY <3>1, <3>2, <3>3, <3>6
    <2>7. LoadOK(top, c, new) /\ EndsOnce(top, c, r, load, new, notifs, notifs')
      <3>1. \/ load.reads[i] = "notify" /\ read = "none" /\ notifs' = notifs \cup {<<p, r, c>>}
            \/ load.reads[i] = "todo" /\ read = "PROC" /\ notifs' = notifs
        BY <1>15
      <3>2. PICK after : after = notifs'
        OBVIOUS
      <3>3. LoadOK(top, c, new) /\ EndsOnce(top, c, r, load, new, notifs, after)
        <4>1. Posts(load, i, read, notifs, after, <<p, r, c>>)
          BY <3>1, <3>2 DEF Posts
        <4>2. new.pc = (IF i = Len(SharesOf(top, c)) THEN "polling" ELSE "posting")
          BY <1>6, <2>6
        <4> QED
          BY <1>3, <1>4, <1>8, <1>10, <2>6, <4>1, <4>2, ShareDone
      <3> QED
        BY <3>2, <3>3
    <2>8. heard \in SUBSET Producers(top) /\ notifs' \subseteq Producers(top) \X Reqs \X Consumers(top)
      BY <1>11, <1>12, <1>15, <2>3
    <2>9. InState(new, "DONE") = InState(load, "DONE")
      BY <1>13, <1>15, <2>6 DEF InState
    <2>10. /\ consumer' \in [Consumers(top) -> Readings(top)]
           /\ \A d \in Consumers(top) \ {c} : consumer'[d] = consumer[d]
           /\ \A s \in Reqs \ {r} : consumer'[c].load[s] = consumer[c].load[s]
           /\ consumer'[c].load[r] = new
           /\ consumer'[c].queue = consumer[c].queue
           /\ consumer'[c].finished = consumer[c].finished
           /\ consumer'[c].failed = consumer[c].failed
      BY <1>12, <2>4, <2>6, <2>8, SetLoad
    <2>11. load.pc \notin {"none", "over"} /\ new.pc \notin {"none", "over"}
      BY <1>8, <2>6
    <2>12. /\ landed' \in [Consumers(top) -> [Reqs -> SUBSET Cells]]
           /\ \A d \in Consumers(top), s \in Reqs : landed'[d][s] = landed[d][s]
           /\ r \notin expired =>
                landed'[c][r] = UNION {MovesOf(top, c, j) : j \in InState(new, "DONE")}
      BY <1>1, <1>12, <1>14, <2>9
    <2> QED
      BY <1>1, <1>2, <2>7, <2>8, <2>10, <2>11, <2>12, MovesOn
  <1>16. ASSUME NEW read \in {"none", "ERR"}, NEW heard \in {known, known \cup {p}},
                Fail(c, r, [load EXCEPT !.pc = "polling", !.reads[i] = read], heard)
         PROVE  IInv' /\ UNCHANGED <<send, recv>>
    <2>2. PICK mid : mid = [load EXCEPT !.pc = "polling", !.reads[i] = read]
      OBVIOUS
    <2>3. PICK new : new = [mid EXCEPT !.failed = TRUE, !.unnotified = {}]
      OBVIOUS
    <2>4. [load.reads EXCEPT ![i] = read] \in Seq(ReadStates)
      BY <1>13, <1>16
    <2>5. /\ mid \in Loads(top) /\ mid.pc = "polling" /\ mid.reads = [load.reads EXCEPT ![i] = read]
          /\ mid.unnotified = load.unnotified
      BY <1>10, <2>2, <2>4 DEF Loads
    <2>6. /\ new \in Loads(top) /\ new.pc = "polling" /\ new.reads = [load.reads EXCEPT ![i] = read]
          /\ new.unnotified = {} /\ new.failed
      BY <2>3, <2>5 DEF Loads
    <2>7. Fail(c, r, mid, heard)
      BY <1>16, <2>2
    <2>8. consumer' = [consumer EXCEPT ![c].load[r] = new, ![c].known = heard]
      BY <2>3, <2>7 DEF Fail
    <2>9. PICK told \in SUBSET {<<q, r, c>> : q \in load.unnotified} : notifs' = notifs \cup told
      BY <2>5, <2>7 DEF Fail
    <2>10. heard \in SUBSET Producers(top) /\ notifs' \subseteq Producers(top) \X Reqs \X Consumers(top)
      BY <1>10, <1>11, <1>12, <1>16, <2>9
    <2>11. LoadOK(top, c, new) /\ EndsOnce(top, c, r, load, new, notifs, notifs')
      <3>1. LoadOK(top, c, new) /\ EndsOnce(top, c, r, load, new, notifs, notifs \cup told)
        BY <1>3, <1>8, <1>10, <1>16, <2>6, ShareFails
      <3> QED
        BY <2>9, <3>1
    <2>12. InState(new, "DONE") = InState(load, "DONE")
      BY <1>13, <1>16, <2>6 DEF InState
    <2>13. /\ consumer' \in [Consumers(top) -> Readings(top)]
           /\ \A d \in Consumers(top) \ {c} : consumer'[d] = consumer[d]
           /\ \A s \in Reqs \ {r} : consumer'[c].load[s] = consumer[c].load[s]
           /\ consumer'[c].load[r] = new
           /\ consumer'[c].queue = consumer[c].queue
           /\ consumer'[c].finished = consumer[c].finished
           /\ consumer'[c].failed = consumer[c].failed
      BY <1>12, <2>6, <2>8, <2>10, SetLoad
    <2>14. load.pc \notin {"none", "over"} /\ new.pc \notin {"none", "over"}
      BY <1>8, <2>6
    <2>15. /\ landed' \in [Consumers(top) -> [Reqs -> SUBSET Cells]]
           /\ \A d \in Consumers(top), s \in Reqs : landed'[d][s] = landed[d][s]
           /\ r \notin expired =>
                landed'[c][r] = UNION {MovesOf(top, c, j) : j \in InState(new, "DONE")}
      BY <1>1, <1>12, <1>14, <2>12
    <2> QED
      BY <1>1, <1>2, <2>10, <2>11, <2>13, <2>14, <2>15, MovesOn
  <1> QED
    BY <1>9, <1>15, <1>16

(* The producer's blocks are held under a read: a rank that reads from one *)
(* of the producer's has not ended with it, and that one has not released. *)
LEMMA HeldWhileRead == IInv => ReadsHeldBlocks
  <1> SUFFICES ASSUME IInv, NEW c \in Consumers(top), NEW r \in Reqs,
                      InState(consumer[c].load[r], "PROC") # {}, send[r] = "freed", r \notin expired
               PROVE  FALSE
    BY Here DEF ReadsHeldBlocks
  <1>1. PICK load : load = consumer[c].load[r]
    OBVIOUS
  <1>2. PICK i \in DOMAIN load.reads : load.reads[i] = "PROC"
    BY <1>1 DEF InState
  <1>3. LoadOK(top, c, load) /\ top \in Topologies
        /\ (load.pc # "none" => DOMAIN load.reads = ShareIds(top, c))
    BY <1>1, LoadFacts
  <1>4. load.pc # "none"
    BY <1>2, <1>3 DEF LoadOK, NoLoad
  <1>5. PICK p \in Producers(top) : p = RankOf(top, c, i)
    BY <1>2, <1>3, <1>4, Layout
  <1>6. c \in Sharing(top, p) /\ ~Ended(top, c, load, p)
    BY <1>2, <1>3, <1>4, <1>5 DEF Sharing, Ended
  <1>7. c \notin EndedBy(top, consumer, p, r)
    BY <1>1, <1>6 DEF EndedBy
  <1>8. /\ SendOK(top, p, producer[p], r, send[r])
        /\ AllEnded(top, consumer, p, r, producer[p], send[r], expired)
    BY DEF IInv, Sends
  <1> QED
    BY <1>6, <1>7, <1>8 DEF SendOK, AllEnded

(* A read ends, and its notification is sent unless it failed. *)
Reread(load, new, i, read) ==
    /\ new.pc = load.pc /\ new.next = load.next /\ new.reads = [load.reads EXCEPT ![i] = read]
    /\ new.unnotified = load.unnotified /\ new.failed = load.failed
DoneWith(load, new, i, read) ==
    InState(new, "DONE") = IF read = "DONE" THEN InState(load, "DONE") \cup {i}
                           ELSE InState(load, "DONE")
Notifies(read, before, after, notice) ==
    after = before \cup {notice} \/ (after = before /\ read = "ERR")

(* A read ends, and its producer is notified unless that fails too. *)
LEMMA ReadDone ==
    ASSUME NEW t \in Topologies, NEW c \in Consumers(t), NEW r \in Reqs, NEW load \in Loads(t),
           LoadOK(t, c, load), load.pc \in {"posting", "polling"},
           NEW i \in ShareIds(t, c), load.reads[i] = "PROC",
           NEW p, p = RankOf(t, c, i), NEW read \in {"DONE", "ERR"}, NEW new \in Loads(t),
           Reread(load, new, i, read), NEW before, NEW after, Notifies(read, before, after, <<p, r, c>>)
    PROVE  /\ LoadOK(t, c, new) /\ EndsOnce(t, c, r, load, new, before, after)
           /\ DoneWith(load, new, i, read)
  <1> USE DEF Reread
  <1>1. load.reads \in Seq(ReadStates) /\ load.next \in Nat
    BY DEF Loads
  <1>2. /\ ShareIds(t, c) = 1..Len(SharesOf(t, c)) /\ Len(load.reads) = Len(SharesOf(t, c))
        /\ \A j, k \in ShareIds(t, c) : RankOf(t, c, j) = RankOf(t, c, k) => j = k
    BY Layout DEF LoadOK
  <1>3. DOMAIN load.reads = ShareIds(t, c) /\ i \in 1..Len(load.reads)
    BY <1>1, <1>2
  <1>4. read \in ReadStates
    BY DEF ReadStates
  <1>5. /\ Len(new.reads) = Len(load.reads) /\ DOMAIN new.reads = ShareIds(t, c)
        /\ \A j \in ShareIds(t, c) : new.reads[j] = IF j = i THEN read ELSE load.reads[j]
    BY <1>1, <1>3, <1>4, SetRead
  <1>6. p \notin load.unnotified
    BY DEF LoadOK, Posted
  <1>7. load.pc = "posting" => i < load.next
    BY DEF LoadOK, Posted
  <1>8. LoadOK(t, c, new)
    <2>1. ReadsWhatMoves(t, c, load) => ReadsWhatMoves(t, c, new)
      <3> SUFFICES ASSUME NEW reads \in BOOLEAN,
                          \A j \in ShareIds(t, c) : load.reads[j] \in Readable(reads, MovesOf(t, c, j))
                   PROVE  \A j \in ShareIds(t, c) : new.reads[j] \in Readable(reads, MovesOf(t, c, j))
        BY DEF ReadsWhatMoves
      <3> QED
        BY <1>5 DEF Readable
    <2>2. load.pc = "posting" => Posted(t, c, new)
      BY <1>5, <1>7 DEF LoadOK, Posted
    <2>3. ~load.failed /\ load.pc = "polling" =>
             \A j \in ShareIds(t, c) : new.reads[j] \notin {"todo", "notify"}
      BY <1>5 DEF LoadOK
    <2> QED
      BY <1>2, <1>5, <2>1, <2>2, <2>3 DEF LoadOK
  <1>9. Faulty(load) => Faulty(new)
    BY <1>3, <1>5 DEF Faulty, InState
  <1>10. read = "ERR" => Faulty(new)
    BY <1>5 DEF Faulty, InState
  <1>11. c \in Sharing(t, p) /\ ~Ended(t, c, load, p)
    BY DEF Sharing, Ended
  <1>12. Ended(t, c, new, p)
    BY <1>2, <1>5, <1>6 DEF Ended
  <1>13. \A q \in Producers(t) : q # p => (Ended(t, c, load, q) <=> Ended(t, c, new, q))
    BY <1>5 DEF Ended
  <1>14. \A q \in Producers(t), s \in Reqs, d \in Consumers(t) :
            q # p \/ s # r \/ d # c => (<<q, s, d>> \in after <=> <<q, s, d>> \in before)
    BY DEF Notifies
  <1>15. <<p, r, c>> \in after \/ Faulty(new)
    BY <1>10 DEF Notifies
  <1>16. EndsOnce(t, c, r, load, new, before, after)
    BY <1>9, <1>11, <1>12, <1>13, <1>14, <1>15 DEF EndsOnce
  <1>17. DoneWith(load, new, i, read)
    BY <1>3, <1>5 DEF DoneWith, InState
  <1> QED
    BY <1>8, <1>16, <1>17

(* NIXL ends a read. *)
LEMMA ReadEndsIInv ==
    ASSUME IInv, NEW c \in Consumers(top), NEW r \in Reqs, ReadEnds(c, r)
    PROVE  IInv' /\ UNCHANGED <<send, recv>>
  <1>1. UNCHANGED <<top, send, producer, sent, recv, waiting, recved, expired>>
    BY DEF ReadEnds
  <1>2. PICK load : load = consumer[c].load[r]
    OBVIOUS
  <1>3. \E i \in DOMAIN load.reads :
           LET m == <<Shares(c)[i].rank, r, c>>
               data == IF send[r] = "freed" THEN {<<h[1], "stale">> : h \in Moves(c, i)}
                       ELSE Moves(c, i)
           IN  /\ load.reads[i] = "PROC"
               /\ \/ /\ consumer' = [consumer EXCEPT ![c].load[r].reads[i] = "DONE"]
                     /\ landed' = [landed EXCEPT ![c][r] = @ \cup data]
                     /\ notifs' = notifs \cup {m}
                  \/ /\ consumer' = [consumer EXCEPT ![c].load[r].reads[i] = "ERR"]
                     /\ notifs' \in {notifs, notifs \cup {m}}
                     /\ landed' = landed
    BY <1>2 DEF ReadEnds
  <1>4. PICK i \in DOMAIN load.reads, read \in {"DONE", "ERR"} :
           LET m == <<Shares(c)[i].rank, r, c>>
               data == IF send[r] = "freed" THEN {<<h[1], "stale">> : h \in Moves(c, i)}
                       ELSE Moves(c, i)
           IN  /\ load.reads[i] = "PROC"
               /\ consumer' = [consumer EXCEPT ![c].load[r].reads[i] = read]
               /\ landed' = IF read = "DONE" THEN [landed EXCEPT ![c][r] = @ \cup data] ELSE landed
               /\ notifs' \in {notifs, notifs \cup {m}}
               /\ read = "DONE" => notifs' = notifs \cup {m}
    BY <1>3
  <1>5. PICK p : p = RankOf(top, c, i)
    OBVIOUS
  <1>6. PICK moves : moves = MovesOf(top, c, i)
    OBVIOUS
  <1>7. PICK data : data = IF send[r] = "freed" THEN {<<h[1], "stale">> : h \in moves} ELSE moves
    OBVIOUS
  <1>8. Shares(c)[i].rank = p /\ Moves(c, i) = moves
    BY <1>5, <1>6, Here
  <1>9. /\ load.reads[i] = "PROC"
        /\ consumer' = [consumer EXCEPT ![c].load[r].reads[i] = read]
        /\ landed' = IF read = "DONE" THEN [landed EXCEPT ![c][r] = @ \cup data] ELSE landed
        /\ notifs' \in {notifs, notifs \cup {<<p, r, c>>}}
        /\ read = "DONE" => notifs' = notifs \cup {<<p, r, c>>}
    BY <1>4, <1>7, <1>8
  <1>10. /\ load \in Loads(top) /\ LoadOK(top, c, load) /\ top \in Topologies
         /\ load.pc \in {"none", "posting", "polling", "over"}
         /\ load.reads \in Seq(ReadStates) /\ DOMAIN load.reads = 1..Len(load.reads)
         /\ load.pc # "none" => DOMAIN load.reads = ShareIds(top, c)
    BY <1>2, LoadFacts
  <1>11. load.pc \in {"posting", "polling"}
    BY <1>9, <1>10 DEF LoadOK, NoLoad, InState
  <1>12. i \in ShareIds(top, c) /\ p \in Producers(top)
    BY <1>5, <1>10, <1>11, Layout
  <1>13. PICK reads \in Seq(ReadStates) : reads = [load.reads EXCEPT ![i] = read]
    <2>1. read \in ReadStates
      BY DEF ReadStates
    <2>2. [load.reads EXCEPT ![i] = read] \in Seq(ReadStates)
      BY <1>10, <2>1, SetRead
    <2> QED
      BY <2>2
  <1>14. PICK new : new = [load EXCEPT !.reads = reads]
    OBVIOUS
  <1>15. /\ new \in Loads(top) /\ new.pc = load.pc /\ new.next = load.next /\ new.reads = reads
         /\ new.unnotified = load.unnotified /\ new.failed = load.failed
    BY <1>10, <1>14 DEF Loads
  <1>16. Types
    BY DEF IInv
  <1>17. PICK known \in SUBSET Producers(top) : known = consumer[c].known
    BY <1>16, ConsumerFacts
  <1>18. consumer' = [consumer EXCEPT ![c].load[r] = new, ![c].known = known]
    <2>1. consumer \in [Consumers(top) -> Readings(top)] /\ consumer[c] \in Readings(top)
          /\ consumer[c].load \in [Reqs -> Loads(top)]
      BY <1>16, ConsumerFacts DEF Types
    <2>2. PICK loads : loads = [consumer[c].load EXCEPT ![r] = new]
      OBVIOUS
    <2>3. PICK v : v = [consumer[c] EXCEPT !.load = loads]
      OBVIOUS
    <2>4. loads = [consumer[c].load EXCEPT ![r].reads[i] = read]
      BY <1>2, <1>13, <1>14, <2>2
    <2>5. consumer' = [consumer EXCEPT ![c] = v]
      BY <1>9, <2>3, <2>4
    <2>6. v = [consumer[c] EXCEPT !.load = loads, !.known = known]
      BY <1>17, <2>1, <2>3 DEF Readings
    <2>7. [consumer EXCEPT ![c].load[r] = new, ![c].known = known] =
             [consumer EXCEPT ![c] = [consumer[c] EXCEPT !.load = loads, !.known = known]]
      BY <2>1, <2>2 DEF Readings
    <2> QED
      BY <2>5, <2>6, <2>7
  <1>19. /\ consumer' \in [Consumers(top) -> Readings(top)]
         /\ \A d \in Consumers(top) \ {c} : consumer'[d] = consumer[d]
         /\ \A s \in Reqs \ {r} : consumer'[c].load[s] = consumer[c].load[s]
         /\ consumer'[c].load[r] = new
         /\ consumer'[c].queue = consumer[c].queue
         /\ consumer'[c].finished = consumer[c].finished
         /\ consumer'[c].failed = consumer[c].failed
    BY <1>15, <1>16, <1>18, SetLoad
  <1>20. /\ LoadOK(top, c, new) /\ EndsOnce(top, c, r, load, new, notifs, notifs')
         /\ InState(new, "DONE") = IF read = "DONE" THEN InState(load, "DONE") \cup {i}
                                   ELSE InState(load, "DONE")
    <2>1. PICK after : after = notifs'
      OBVIOUS
    <2>2. Notifies(read, notifs, after, <<p, r, c>>)
      BY <1>9, <2>1 DEF Notifies
    <2>3. Reread(load, new, i, read)
      BY <1>13, <1>15 DEF Reread
    <2>4. /\ LoadOK(top, c, new) /\ EndsOnce(top, c, r, load, new, notifs, after)
          /\ DoneWith(load, new, i, read)
      BY <1>5, <1>9, <1>10, <1>11, <1>12, <1>15, <2>2, <2>3, ReadDone
    <2> QED
      BY <2>1, <2>4 DEF DoneWith
  <1>21. notifs' \subseteq Producers(top) \X Reqs \X Consumers(top)
    <2>1. <<p, r, c>> \in Producers(top) \X Reqs \X Consumers(top)
      BY <1>12
    <2>2. notifs \subseteq Producers(top) \X Reqs \X Consumers(top)
      BY <1>16 DEF Types
    <2> QED
      BY <1>9, <2>1, <2>2
  <1>22. moves \subseteq Nat \X Nat
    <2>1. PICK local : local = top.heads \div top.ctp
      OBVIOUS
    <2>2. \A j \in ShareIds(top, c) : MovesOf(top, c, j) \subseteq Nat \X Nat
      BY <1>10, <2>1, MovesCover
    <2> QED
      BY <1>6, <1>12, <2>2
  <1>23. data \in SUBSET Cells
    BY <1>7, <1>22 DEF Cells
  <1>24. landed \in [Consumers(top) -> [Reqs -> SUBSET Cells]]
    BY <1>16 DEF Types
  <1>25. /\ landed' \in [Consumers(top) -> [Reqs -> SUBSET Cells]]
         /\ \A d \in Consumers(top), s \in Reqs : d # c \/ s # r => landed'[d][s] = landed[d][s]
         /\ landed'[c][r] = IF read = "DONE" THEN landed[c][r] \cup data ELSE landed[c][r]
    BY <1>9, <1>23, <1>24
  <1>26. ASSUME r \notin expired
         PROVE  landed'[c][r] = UNION {MovesOf(top, c, j) : j \in InState(new, "DONE")}
    <2>1. landed[c][r] = UNION {MovesOf(top, c, j) : j \in InState(load, "DONE")}
      BY <1>2, <1>26 DEF IInv, Landed
    <2>2. CASE read = "ERR"
      BY <1>20, <1>25, <2>1, <2>2
    <2>3. CASE read = "DONE"
      <3>1. InState(load, "PROC") # {}
        BY <1>9 DEF InState
      <3>2. ReadsHeldBlocks /\ CRanks = Consumers(top)
        BY HeldWhileRead, Here
      <3>3. send[r] # "freed"
        BY <1>2, <1>26, <3>1, <3>2 DEF ReadsHeldBlocks
      <3>4. landed'[c][r] = landed[c][r] \cup MovesOf(top, c, i)
        BY <1>6, <1>7, <1>25, <2>3, <3>3
      <3>5. InState(new, "DONE") = InState(load, "DONE") \cup {i}
        BY <1>20, <2>3
      <3> QED
        BY <2>1, <3>4, <3>5
    <2> QED
      BY <2>2, <2>3
  <1>27. load.pc \notin {"none", "over"} /\ new.pc \notin {"none", "over"}
    BY <1>11, <1>15
  <1> QED
    BY <1>1, <1>2, <1>19, <1>20, <1>21, <1>25, <1>26, <1>27, MovesOn

(* _poll ends a load and reports it. *)
LEMMA PollIInv ==
    ASSUME IInv, NEW c \in Consumers(top), NEW r \in Reqs, Poll(c, r)
    PROVE  IInv' /\ UNCHANGED <<send, recv>>
  <1>1. UNCHANGED <<top, send, producer, sent, recv, waiting, recved, notifs, landed, expired>>
    BY DEF Poll
  <1>2. PICK load : load = consumer[c].load[r]
    OBVIOUS
  <1>3. load.pc = "polling" /\ InState(load, "PROC") = {}
    BY <1>2 DEF Poll
  <1>4. consumer' = IF Faulty(load)
                    THEN [consumer EXCEPT ![c].load[r].pc = "over", ![c].load[r].failed = TRUE,
                                          ![c].failed = @ \cup {r}]
                    ELSE [consumer EXCEPT ![c].load[r].pc = "over", ![c].finished = @ \cup {r}]
    BY <1>2 DEF Poll, Faulty
  <1>5. /\ load \in Loads(top) /\ LoadOK(top, c, load) /\ load.failed \in BOOLEAN
        /\ load.pc # "none" => DOMAIN load.reads = ShareIds(top, c)
    BY <1>2, LoadFacts
  <1>6. Types /\ consumer \in [Consumers(top) -> Readings(top)]
    BY DEF IInv, Types
  <1>7. PICK w : w = consumer[c]
    OBVIOUS
  <1>8. /\ w \in Readings(top) /\ w.load \in [Reqs -> Loads(top)]
        /\ w.finished \subseteq Reqs /\ w.failed \subseteq Reqs
    BY <1>6, <1>7, ConsumerFacts
  <1>9. PICK failed \in BOOLEAN : failed = Faulty(load)
    BY <1>5 DEF Faulty
  <1>10. PICK new : new = [load EXCEPT !.pc = "over", !.failed = failed]
    OBVIOUS
  <1>11. /\ new \in Loads(top) /\ new.pc = "over" /\ new.failed = failed
         /\ new.reads = load.reads /\ new.unnotified = load.unnotified
    BY <1>5, <1>10 DEF Loads
  <1>12. PICK loads : loads = [w.load EXCEPT ![r] = new]
    OBVIOUS
  <1>13. /\ loads \in [Reqs -> Loads(top)] /\ loads[r] = new
         /\ \A s \in Reqs \ {r} : loads[s] = w.load[s]
    BY <1>8, <1>11, <1>12
  <1>14. PICK v : v = [w EXCEPT !.load = loads,
                          !.finished = IF failed THEN w.finished ELSE w.finished \cup {r},
                          !.failed = IF failed THEN w.failed \cup {r} ELSE w.failed]
    OBVIOUS
  <1>15. /\ v \in Readings(top) /\ v.load = loads /\ v.queue = w.queue
         /\ v.finished = IF failed THEN w.finished ELSE w.finished \cup {r}
         /\ v.failed = IF failed THEN w.failed \cup {r} ELSE w.failed
    BY <1>8, <1>13, <1>14 DEF Readings
  <1>16. consumer' = [consumer EXCEPT ![c] = v]
    <2>1. CASE failed
      <3>1. loads = [w.load EXCEPT ![r].pc = "over", ![r].failed = TRUE]
        BY <1>2, <1>5, <1>7, <1>8, <1>10, <1>12, <2>1 DEF Loads
      <3>2. v = [w EXCEPT !.load = loads, !.failed = w.failed \cup {r}]
        BY <1>8, <1>14, <2>1 DEF Readings
      <3>3. consumer' = [consumer EXCEPT ![c].load[r].pc = "over", ![c].load[r].failed = TRUE,
                                         ![c].failed = w.failed \cup {r}]
        BY <1>4, <1>6, <1>7, <1>9, <2>1 DEF Readings
      <3> QED
        BY <1>6, <1>7, <1>8, <3>1, <3>2, <3>3 DEF Readings
    <2>2. CASE ~failed
      <3>1. loads = [w.load EXCEPT ![r].pc = "over"]
        BY <1>2, <1>5, <1>7, <1>8, <1>9, <1>10, <1>12, <2>2 DEF Loads, Faulty
      <3>2. v = [w EXCEPT !.load = loads, !.finished = w.finished \cup {r}]
        BY <1>8, <1>14, <2>2 DEF Readings
      <3>3. consumer' = [consumer EXCEPT ![c].load[r].pc = "over", ![c].finished = w.finished \cup {r}]
        BY <1>4, <1>6, <1>7, <1>9, <2>2 DEF Readings
      <3> QED
        BY <1>6, <1>7, <1>8, <3>1, <3>2, <3>3 DEF Readings
    <2> QED
      BY <2>1, <2>2
  <1>17. consumer'[c] = v /\ consumer' \in [Consumers(top) -> Readings(top)]
         /\ \A d \in Consumers(top) \ {c} : consumer'[d] = consumer[d]
    BY <1>6, <1>15, <1>16
  <1>18. Types'
    BY <1>1, <1>17 DEF IInv, Types
  <1>19. /\ \A s \in Reqs \ {r} : consumer'[c].load[s] = consumer[c].load[s]
         /\ consumer'[c].load[r] = new /\ consumer'[c].queue = consumer[c].queue
    BY <1>7, <1>13, <1>15, <1>17
  <1>20. Queues'
    <2>1. consumer[c].load[r].pc # "none" /\ consumer'[c].load[r].pc # "none"
      BY <1>2, <1>3, <1>11, <1>19
    <2> QED
      BY <1>1, <1>17, <1>19, <2>1, SameQueues
  <1>21. InState(new, "DONE") = InState(load, "DONE") /\ InState(new, "PROC") = {}
         /\ InState(new, "ERR") = InState(load, "ERR")
    BY <1>3, <1>11 DEF InState
  <1>22. LoadOK(top, c, new)
    <2>1. ~failed => ~load.failed /\ InState(load, "ERR") = {}
      BY <1>9 DEF Faulty
    <2>2. ReadsWhatMoves(top, c, load) => ReadsWhatMoves(top, c, new)
      BY <1>11 DEF ReadsWhatMoves
    <2> QED
      BY <1>3, <1>5, <1>11, <1>21, <2>1, <2>2 DEF LoadOK
  <1>23. EndsOnce(top, c, r, load, new, notifs, notifs')
    <2>1. \A p : Ended(top, c, load, p) <=> Ended(top, c, new, p)
      BY <1>3, <1>11 DEF Ended
    <2>2. Faulty(load) => Faulty(new)
      BY <1>9, <1>11 DEF Faulty
    <2> QED
      BY <1>1, <2>1, <2>2 DEF EndsOnce
  <1>24. LoadsOK' /\ Notices' /\ Sends'
    <2>1. LoadOK(top, c, consumer'[c].load[r])
          /\ EndsOnce(top, c, r, consumer[c].load[r], consumer'[c].load[r], notifs, notifs')
      BY <1>2, <1>19, <1>22, <1>23
    <2> QED
      BY <1>1, <1>17, <1>19, <2>1, LoadStep
  <1>25. Landed'
    <2>1. \A d \in Consumers(top), s \in Reqs :
             InState(consumer'[d].load[s], "DONE") = InState(consumer[d].load[s], "DONE")
      BY <1>2, <1>17, <1>19, <1>21
    <2> QED
      BY <1>1, <2>1 DEF IInv, Landed
  <1>26. /\ ~Told(w, r) /\ ~Told(v, r) /\ r \notin w.finished \cup w.failed
         /\ \A s \in Reqs \ {r} : Told(v, s) <=> Told(w, s)
    <2>1. ReportOK(w, r, recv[r], recved.failed)
      BY <1>7 DEF IInv, Reports
    <2> QED
      BY <1>2, <1>3, <1>7, <1>13, <1>15, <2>1 DEF Told, ReportOK
  <1>27. recv[r] = "loading"
    <2>1. QueueOK(consumer[c], recv)
      BY DEF IInv, Queues
    <2>2. recv[r] \in Begun
      BY <1>2, <1>3, <2>1 DEF QueueOK
    <2>3. recv[r] \in {"loaded", "failed"} => c \in ToldBy(top, consumer, r)
      BY DEF IInv, Reports
    <2> QED
      BY <1>7, <1>26, <2>2, <2>3 DEF Begun, ToldBy
  <1>28. Reports'
    <2>1. \A s \in Reqs : ToldBy(top, consumer', s) = ToldBy(top, consumer, s)
      <3>1. \A d \in Consumers(top), s \in Reqs : Told(consumer'[d], s) <=> Told(consumer[d], s)
        <4> SUFFICES ASSUME NEW d \in Consumers(top), NEW s \in Reqs
                     PROVE  Told(consumer'[d], s) <=> Told(consumer[d], s)
          OBVIOUS
        <4>1. CASE d # c
          BY <1>17, <4>1
        <4>2. CASE d = c
          BY <1>7, <1>17, <1>26, <4>2
        <4> QED
          BY <4>1, <4>2
      <3> QED
        BY <3>1 DEF ToldBy
    <2>2. ASSUME NEW d \in Consumers(top), NEW s \in Reqs
          PROVE  ReportOK(consumer'[d], s, recv[s], recved.failed)
      <3>1. ReportOK(consumer[d], s, recv[s], recved.failed)
        BY DEF IInv, Reports
      <3>2. CASE d # c
        BY <1>17, <3>1, <3>2
      <3>3. CASE d = c /\ s # r
        <4>1. /\ s \in v.finished <=> s \in w.finished
              /\ s \in v.failed <=> s \in w.failed
              /\ v.load[s] = w.load[s]
          BY <1>13, <1>15, <3>3
        <4>2. ReportOK(v, s, recv[s], recved.failed)
          BY <1>7, <1>26, <3>1, <3>3, <4>1 DEF ReportOK
        <4> QED
          BY <1>17, <3>3, <4>2
      <3>4. CASE d = c /\ s = r
        <4>1. r \in v.finished => ~failed
          BY <1>15, <1>26
        <4>2. ReportOK(v, r, recv[r], recved.failed)
          BY <1>11, <1>13, <1>15, <1>26, <1>27, <4>1 DEF ReportOK
        <4> QED
          BY <1>17, <3>4, <4>2
      <3> QED
        BY <3>2, <3>3, <3>4
    <2> QED
      BY <1>1, <2>1, <2>2 DEF IInv, Reports
  <1> QED
    BY <1>1, <1>18, <1>20, <1>24, <1>25, <1>28 DEF IInv, Offered

(* A rank that released some sends. *)
Releases(w, S, new) ==
    /\ new \in Senders
    /\ new.to_send = w.to_send \ S /\ new.finished = w.finished \cup S /\ new.due = w.due \ S
    /\ \A s \in Reqs : new.notified[s] = IF s \in S THEN 0 ELSE w.notified[s]

(* What Release does, field by field. *)
LEMMA ReleaseFacts ==
    ASSUME NEW w \in Senders, NEW S \in SUBSET Reqs
    PROVE  Releases(w, S, Release(w, S))
  BY DEF Releases, Release, Senders

(* _take_notifications and _release_if_read. *)
LEMMA TakeNotificationIInv ==
    ASSUME IInv, NEW p \in Producers(top), TakeNotification(p)
    PROVE  IInv' /\ UNCHANGED <<send, recv>>
  <1>1. UNCHANGED <<top, send, sent, recv, waiting, consumer, recved, landed, expired>>
    BY DEF TakeNotification
  <1>2. PICK m \in notifs :
           /\ m[1] = p
           /\ notifs' = notifs \ {m}
           /\ LET w == [producer[p] EXCEPT !.notified[m[2]] = @ + 1]
                  read == m[2] \in w.to_send /\ w.notified[m[2]] >= Readers(p)
              IN  producer' = [producer EXCEPT ![p] = IF read THEN Release(w, {m[2]}) ELSE w]
    BY DEF TakeNotification
  <1>3. PICK r \in Reqs, c \in Consumers(top) : m = <<p, r, c>>
    BY <1>2 DEF IInv, Types
  <1>4. PICK old : old = producer[p]
    OBVIOUS
  <1>5. PICK w : w = [old EXCEPT !.notified[r] = old.notified[r] + 1]
    OBVIOUS
  <1>6. /\ old \in Senders /\ old.notified \in [Reqs -> Nat] /\ old.notified[r] \in Nat
        /\ producer \in [Producers(top) -> Senders] /\ top \in Topologies
    BY <1>4, ProducerFacts DEF IInv, Types
  <1>7. /\ w \in Senders /\ w.to_send = old.to_send /\ w.finished = old.finished
        /\ w.notified[r] = old.notified[r] + 1
        /\ \A s \in Reqs \ {r} : w.notified[s] = old.notified[s]
    <2>1. PICK count \in [Reqs -> Nat] : count = [old.notified EXCEPT ![r] = old.notified[r] + 1]
      <3>1. PICK n \in Nat : n = old.notified[r] + 1
        BY <1>6
      <3>2. [old.notified EXCEPT ![r] = n] \in [Reqs -> Nat]
        BY <1>6
      <3> QED
        BY <3>1, <3>2
    <2>2. count[r] = old.notified[r] + 1 /\ \A s \in Reqs \ {r} : count[s] = old.notified[s]
      BY <1>6, <2>1
    <2>3. w = [old EXCEPT !.notified = count]
      BY <1>5, <1>6, <2>1 DEF Senders
    <2>4. /\ w \in Senders /\ w.to_send = old.to_send /\ w.finished = old.finished
          /\ w.notified = count
      BY <1>6, <2>3 DEF Senders
    <2> QED
      BY <2>2, <2>4
  <1>8. PICK v : v = IF r \in w.to_send /\ w.notified[r] >= ReadersOf(top, p)
                     THEN Release(w, {r}) ELSE w
    OBVIOUS
  <1>9. producer' = [producer EXCEPT ![p] = v] /\ notifs' = notifs \ {<<p, r, c>>}
    <2>1. Readers(p) = ReadersOf(top, p) /\ m[2] = r
      BY <1>3, Here
    <2> QED
      BY <1>2, <1>3, <1>4, <1>5, <1>8, <2>1
  <1>10. /\ Release(w, {r}) \in Senders /\ Release(w, {r}).to_send = w.to_send \ {r}
         /\ Release(w, {r}).finished = w.finished \cup {r}
         /\ \A s \in Reqs : Release(w, {r}).notified[s] = IF s \in {r} THEN 0 ELSE w.notified[s]
    <2>1. Releases(w, {r}, Release(w, {r}))
      BY <1>7, ReleaseFacts
    <2> QED
      BY <2>1 DEF Releases
  <1>11. /\ v \in Senders
         /\ \A s \in Reqs \ {r} : /\ s \in v.to_send <=> s \in old.to_send
                                  /\ s \in v.finished <=> s \in old.finished
                                  /\ v.notified[s] = old.notified[s]
    BY <1>7, <1>8, <1>10
  <1>12. \/ /\ r \in old.to_send /\ old.notified[r] + 1 >= ReadersOf(top, p)
            /\ r \notin v.to_send /\ r \in v.finished /\ v.notified[r] = 0
         \/ /\ r \in old.to_send => ~(old.notified[r] + 1 >= ReadersOf(top, p))
            /\ r \in v.to_send <=> r \in old.to_send
            /\ r \in v.finished <=> r \in old.finished
            /\ v.notified[r] = old.notified[r] + 1
    BY <1>7, <1>8, <1>10
  <1>13. /\ producer' \in [Producers(top) -> Senders] /\ producer'[p] = v
         /\ \A q \in Producers(top) \ {p} : producer'[q] = producer[q]
    BY <1>6, <1>9, <1>11
  <1>14. Types'
    BY <1>1, <1>9, <1>13 DEF IInv, Types
  <1>15. Queues' /\ LoadsOK' /\ Reports' /\ Landed'
    BY <1>1 DEF IInv, Queues, LoadsOK, Reports, Landed
  <1>16. PICK E : E = EndedBy(top, consumer, p, r)
    OBVIOUS
  <1>17. PICK T : T = Taken(top, consumer, notifs, p, r)
    OBVIOUS
  <1>18. /\ IsFiniteSet(T) /\ Cardinality(T) \in Nat /\ ReadersOf(top, p) \in Nat
         /\ Cardinality(E) \in Nat /\ Cardinality(E) <= ReadersOf(top, p)
         /\ Cardinality(E) = ReadersOf(top, p) => E = Sharing(top, p)
    BY <1>6, <1>16, <1>17, Counts
  <1>19. NoticeOK(top, consumer, notifs, p, r, old, Exactly(old, r, send[r], expired))
         /\ SendOK(top, p, old, r, send[r])
         /\ AllEnded(top, consumer, p, r, old, send[r], expired)
    BY <1>4 DEF IInv, Notices, Sends
  <1>20. c \in E /\ <<p, r, c>> \in notifs
    BY <1>2, <1>3, <1>16, <1>19 DEF NoticeOK
  <1>21. Taken(top, consumer, notifs', p, r) = T \cup {c} /\ c \notin T
    BY <1>9, <1>16, <1>17, <1>20 DEF Taken
  <1>22. Cardinality(Taken(top, consumer, notifs', p, r)) = Cardinality(T) + 1
    BY <1>18, <1>21, FS_AddElement
  <1>23. Cardinality(T) + 1 <= Cardinality(E)
    <2>1. Cardinality(Taken(top, consumer, notifs', p, r)) <= Cardinality(E)
      <3>1. \A sentto : Cardinality(Taken(top, consumer, sentto, p, r)) <= Cardinality(E)
        BY <1>6, <1>16, Counts
      <3> QED
        BY <3>1
    <2> QED
      BY <1>22, <2>1
  <1>24. old.notified[r] <= Cardinality(T)
    BY <1>17, <1>19 DEF NoticeOK
  <1>25. NoticeOK(top, consumer, notifs', p, r, v, Exactly(v, r, send[r], expired))
    <2>1. \A d \in Consumers(top) : <<p, r, d>> \in notifs' => d \in E
      BY <1>9, <1>16, <1>19 DEF NoticeOK
    <2>2. v.notified[r] <= Cardinality(T) + 1
      BY <1>6, <1>12, <1>18, <1>24
    <2>3. Exactly(v, r, send[r], expired) => v.notified[r] = old.notified[r] + 1
                                             /\ Exactly(old, r, send[r], expired)
      BY <1>12, <1>19 DEF Exactly, SendOK
    <2>4. Exactly(old, r, send[r], expired) /\ NoneFaulty(top, consumer, r)
             => old.notified[r] = Cardinality(T)
      BY <1>17, <1>19 DEF NoticeOK
    <2> QED
      BY <1>16, <1>22, <2>1, <2>2, <2>3, <2>4 DEF NoticeOK
  <1>26. SendOK(top, p, v, r, send[r]) /\ AllEnded(top, consumer, p, r, v, send[r], expired)
         /\ (r \in v.to_send \cup v.finished <=> r \in old.to_send \cup old.finished)
    <2>1. CASE /\ r \in old.to_send /\ old.notified[r] + 1 >= ReadersOf(top, p)
               /\ r \notin v.to_send /\ r \in v.finished /\ v.notified[r] = 0
      <3>1. Cardinality(E) = ReadersOf(top, p)
        BY <1>6, <1>18, <1>23, <1>24, <2>1
      <3>2. E = Sharing(top, p)
        BY <1>18, <3>1
      <3> QED
        BY <1>16, <1>19, <2>1, <3>2 DEF SendOK, AllEnded
    <2>2. CASE /\ r \in old.to_send => ~(old.notified[r] + 1 >= ReadersOf(top, p))
               /\ r \in v.to_send <=> r \in old.to_send
               /\ r \in v.finished <=> r \in old.finished
               /\ v.notified[r] = old.notified[r] + 1
      <3>1. r \in old.to_send => v.notified[r] < ReadersOf(top, p)
        BY <1>6, <1>18, <2>2
      <3> QED
        BY <1>19, <2>2, <3>1 DEF SendOK, AllEnded
    <2> QED
      BY <1>12, <2>1, <2>2
  <1>27. Notices'
    <2> SUFFICES ASSUME NEW q \in Producers(top), NEW s \in Reqs
                 PROVE  NoticeOK(top, consumer, notifs', q, s, producer'[q],
                                 Exactly(producer'[q], s, send[s], expired))
      BY <1>1 DEF Notices
    <2>1. CASE q = p /\ s = r
      BY <1>13, <1>25, <2>1
    <2>2. CASE q # p \/ s # r
      <3>1. \A d : <<q, s, d>> \in notifs' <=> <<q, s, d>> \in notifs
        BY <1>9, <2>2
      <3>2. Taken(top, consumer, notifs', q, s) = Taken(top, consumer, notifs, q, s)
        BY <3>1 DEF Taken
      <3>3. /\ producer'[q].notified[s] = producer[q].notified[s]
            /\ s \in producer'[q].to_send <=> s \in producer[q].to_send
        BY <1>4, <1>11, <1>13, <2>2
      <3>4. NoticeOK(top, consumer, notifs, q, s, producer[q],
                     Exactly(producer[q], s, send[s], expired))
        BY DEF IInv, Notices
      <3> QED
        BY <3>1, <3>2, <3>3, <3>4 DEF NoticeOK, Exactly
    <2> QED
      BY <2>1, <2>2
  <1>28. Sends'
    <2>1. ASSUME NEW q \in Producers(top), NEW s \in Reqs
          PROVE  /\ SendOK(top, q, producer'[q], s, send[s])
                 /\ AllEnded(top, consumer, q, s, producer'[q], send[s], expired)
                 /\ s \in producer'[q].to_send \cup producer'[q].finished
                       <=> s \in producer[q].to_send \cup producer[q].finished
      <3>1. CASE q = p /\ s = r
        BY <1>4, <1>13, <1>26, <3>1
      <3>2. CASE q # p \/ s # r
        <4>1. /\ producer'[q].notified[s] = producer[q].notified[s]
              /\ s \in producer'[q].to_send <=> s \in producer[q].to_send
              /\ s \in producer'[q].finished <=> s \in producer[q].finished
          BY <1>4, <1>11, <1>13, <3>2
        <4>2. SendOK(top, q, producer[q], s, send[s])
              /\ AllEnded(top, consumer, q, s, producer[q], send[s], expired)
          BY DEF IInv, Sends
        <4> QED
          BY <4>1, <4>2 DEF SendOK, AllEnded
      <3> QED
        BY <3>1, <3>2
    <2>2. \A s \in Reqs : Released(top, producer', s) = Released(top, producer, s)
      BY <2>1 DEF Released
    <2> QED
      BY <1>1, <2>1, <2>2 DEF IInv, Sends
  <1> QED
    BY <1>1, <1>14, <1>15, <1>27, <1>28 DEF IInv, Offered

-----------------------------------------------------------------------------
(* Two disjoint parts of a finite set. *)
LEMMA Parts ==
    ASSUME NEW U, IsFiniteSet(U), NEW A \in SUBSET U, NEW B \in SUBSET U, A \cap B = {}
    PROVE  /\ Cardinality(A) \in Nat /\ Cardinality(B) \in Nat
           /\ Cardinality(A \cup B) = Cardinality(A) + Cardinality(B)
           /\ Cardinality(A) + Cardinality(B) = Cardinality(U) <=> A \cup B = U
  <1>1. IsFiniteSet(A) /\ IsFiniteSet(B)
    BY FS_Subset
  <1>2. Cardinality(A) \in Nat /\ Cardinality(B) \in Nat
    BY <1>1, FS_CardinalityType
  <1>3. Cardinality(A \cup B) = Cardinality(A) + Cardinality(B)
    <2>1. Cardinality(A \cup B) = Cardinality(A) + Cardinality(B) - Cardinality(A \cap B)
      BY <1>1, FS_Union
    <2>2. Cardinality(A \cap B) = 0
      BY FS_EmptySet
    <2> QED
      BY <1>2, <2>1, <2>2
  <1>4. PICK C \in SUBSET U : C = A \cup B
    OBVIOUS
  <1>5. Cardinality(U) = Cardinality(C) => U = C
    BY FS_Subset
  <1> QED
    BY <1>2, <1>3, <1>4, <1>5

(* kv_connector_step on one rank of the producer: S is handed over, n      *)
(* ranks read from this one.                                               *)
Stepped(old, S, n, w, new, gone) ==
    /\ new \in Senders /\ gone \in SUBSET Reqs /\ w.finished \in SUBSET Reqs
    /\ new.finished = {}
    /\ \A r \in Reqs : r \in S =>
          /\ r \notin gone
          /\ r \in w.finished <=> old.notified[r] >= n
          /\ r \in new.to_send <=> ~(old.notified[r] >= n)
    /\ \A r \in Reqs : r \notin S =>
          /\ r \in gone => r \in old.to_send
          /\ r \in w.finished <=> r \in old.finished
          /\ r \in new.to_send <=> r \in old.to_send /\ r \notin gone
    /\ \A r \in Reqs : new.notified[r] \in {0, old.notified[r]}
    /\ \A r \in Reqs : r \in new.to_send => new.notified[r] = old.notified[r]

(* A producer rank's step: new sends, those read already, those expired. *)
LEMMA RankStep ==
    ASSUME NEW old \in Senders, NEW S \in SUBSET Reqs, NEW n \in Nat, NEW w,
           w = Release([old EXCEPT !.to_send = old.to_send \cup S, !.due = old.due \ S],
                       {r \in S : old.notified[r] >= n}),
           NEW new, new = GetFinished(w), NEW gone, gone = Expired(w),
           \A r \in S : r \notin old.to_send /\ r \notin old.finished
    PROVE  Stepped(old, S, n, w, new, gone)
  <1>1. PICK started : started = [old EXCEPT !.to_send = old.to_send \cup S, !.due = old.due \ S]
    OBVIOUS
  <1>2. PICK R \in SUBSET Reqs : R = {r \in S : old.notified[r] >= n}
    OBVIOUS
  <1>3. /\ started \in Senders /\ started.to_send = old.to_send \cup S
        /\ started.due = old.due \ S /\ started.finished = old.finished
        /\ started.notified = old.notified
    BY <1>1 DEF Senders
  <1>4. w = Release(started, R)
    BY <1>1, <1>2
  <1>5. /\ w \in Senders /\ w.to_send = started.to_send \ R /\ w.finished = started.finished \cup R
        /\ w.due = started.due \ R
        /\ \A s \in Reqs : w.notified[s] = IF s \in R THEN 0 ELSE started.notified[s]
    <2>1. Releases(started, R, Release(started, R))
      BY <1>3, ReleaseFacts
    <2> QED
      BY <1>4, <2>1 DEF Releases
  <1>6. /\ w.to_send \subseteq Reqs /\ w.due \subseteq Reqs /\ w.finished \subseteq Reqs
        /\ old.to_send \subseteq Reqs /\ old.due \subseteq Reqs
    BY <1>5 DEF Senders
  <1>7. gone = w.to_send \cap w.due /\ gone \in SUBSET Reqs
    BY <1>6 DEF Expired
  <1>8. PICK kept : kept = Release(w, gone)
    OBVIOUS
  <1>9. /\ kept \in Senders /\ kept.to_send = w.to_send \ gone
        /\ \A s \in Reqs : kept.notified[s] = IF s \in gone THEN 0 ELSE w.notified[s]
    <2>1. Releases(w, gone, Release(w, gone))
      BY <1>5, <1>7, ReleaseFacts
    <2> QED
      BY <1>8, <2>1 DEF Releases
  <1>10. new = [kept EXCEPT !.finished = {}, !.due = {},
                  !.notified = [r \in Reqs |-> IF r \in w.due THEN 0 ELSE kept.notified[r]]]
    BY <1>8, <1>9 DEF GetFinished, Senders
  <1>11. /\ new \in Senders /\ new.finished = {} /\ new.to_send = kept.to_send
         /\ \A r \in Reqs : new.notified[r] = IF r \in w.due THEN 0 ELSE kept.notified[r]
    <2>1. PICK count : count = [r \in Reqs |-> IF r \in w.due THEN 0 ELSE kept.notified[r]]
      OBVIOUS
    <2>2. count \in [Reqs -> Nat]
      BY <1>9, <2>1 DEF Senders
    <2>3. new = [kept EXCEPT !.finished = {}, !.due = {}, !.notified = count]
      BY <1>10, <2>1
    <2>4. new \in Senders /\ new.finished = {} /\ new.to_send = kept.to_send /\ new.notified = count
      BY <1>9, <2>2, <2>3 DEF Senders
    <2> QED
      BY <2>1, <2>4
  <1>12. ASSUME NEW r \in Reqs
         PROVE  /\ new.notified[r] \in {0, old.notified[r]}
                /\ r \in new.to_send => new.notified[r] = old.notified[r]
    BY <1>3, <1>5, <1>7, <1>9, <1>11
  <1>13. ASSUME NEW r \in Reqs, r \in S
         PROVE  /\ r \notin gone
                /\ r \in w.finished <=> old.notified[r] >= n
                /\ r \in new.to_send <=> ~(old.notified[r] >= n)
    BY <1>2, <1>3, <1>5, <1>7, <1>9, <1>11, <1>13
  <1>14. ASSUME NEW r \in Reqs, r \notin S
         PROVE  /\ r \in gone => r \in old.to_send
                /\ r \in w.finished <=> r \in old.finished
                /\ r \in new.to_send <=> r \in old.to_send /\ r \notin gone
    BY <1>2, <1>3, <1>5, <1>7, <1>9, <1>11, <1>14
  <1> QED
    BY <1>6, <1>7, <1>11, <1>12, <1>13, <1>14 DEF Stepped

(* A step of the producer engine. *)
LEMMA ProducerStepIInv ==
    ASSUME IInv, ProducerStep
    PROVE  IInv' /\ [Promise!Next]_(Promise!vars)
  <1>1. UNCHANGED <<top, recv, waiting, consumer, recved, notifs, landed>>
    BY DEF ProducerStep
  <1>2. PICK P : P = Producers(top)
    OBVIOUS
  <1>3. PICK queued \in SUBSET Reqs : queued = {r \in Reqs : send[r] = "queued"}
    OBVIOUS
  <1>4. PICK w : w = [p \in P |-> StartSends(producer[p], p, queued)]
    OBVIOUS
  <1>5. PICK reports : reports = [p \in P |-> w[p].finished \cup Expired(w[p])]
    OBVIOUS
  <1>6. PICK over : over = AllReported(sent, reports, P)
    OBVIOUS
  <1>7. PRanks = P
    BY <1>2, Here
  <1>8. /\ producer' = [p \in P |-> GetFinished(w[p])]
        /\ sent' = Counted(sent, reports, P, over)
        /\ send' = [r \in Reqs |-> IF r \in over THEN "freed"
                                   ELSE IF r \in queued THEN "held" ELSE send[r]]
        /\ expired' = expired \cup UNION {Expired(w[p]) : p \in P}
    BY <1>3, <1>4, <1>5, <1>6, <1>7 DEF ProducerStep
  <1>9. /\ top \in Topologies /\ producer \in [P -> Senders] /\ expired \subseteq Reqs
        /\ send \in [Reqs -> {"none", "queued", "held", "freed"}] /\ sent \in [Reqs -> Nat]
    BY <1>2 DEF IInv, Types
  <1>10. /\ IsFiniteSet(P) /\ Cardinality(P) \in Nat \ {0}
         /\ \A p \in P : ReadersOf(top, p) \in Nat
    BY <1>2, <1>9, Layout
  <1>11. ASSUME NEW p \in P
         PROVE  /\ producer'[p] \in Senders /\ Expired(w[p]) \in SUBSET Reqs
                /\ reports[p] \in SUBSET Reqs /\ producer'[p].finished = {}
                /\ \A r \in Reqs : r \in queued =>
                      /\ r \notin Expired(w[p])
                      /\ r \in reports[p] <=> producer[p].notified[r] >= ReadersOf(top, p)
                      /\ r \in producer'[p].to_send <=> ~(producer[p].notified[r] >= ReadersOf(top, p))
                /\ \A r \in Reqs : r \notin queued =>
                      /\ r \in Expired(w[p]) => r \in producer[p].to_send
                      /\ r \in reports[p] <=> r \in producer[p].finished \/ r \in Expired(w[p])
                      /\ r \in producer'[p].to_send
                            <=> r \in producer[p].to_send /\ r \notin Expired(w[p])
                /\ \A r \in Reqs : producer'[p].notified[r] \in {0, producer[p].notified[r]}
                /\ \A r \in Reqs : r \in producer'[p].to_send =>
                      producer'[p].notified[r] = producer[p].notified[r]
    <2>1. PICK old \in Senders : old = producer[p]
      BY <1>9, <1>11
    <2>2. PICK n \in Nat : n = ReadersOf(top, p)
      BY <1>10, <1>11
    <2>3. PICK v : v = w[p]
      OBVIOUS
    <2>4. PICK new : new = GetFinished(v)
      OBVIOUS
    <2>5. PICK gone : gone = Expired(v)
      OBVIOUS
    <2>6. v = Release([old EXCEPT !.to_send = old.to_send \cup queued, !.due = old.due \ queued],
                      {r \in queued : old.notified[r] >= n})
      <3>1. v = StartSends(old, p, queued) /\ Readers(p) = n
        BY <1>4, <1>11, <2>1, <2>2, <2>3, Here
      <3>2. [old EXCEPT !.to_send = old.to_send \cup queued, !.due = old.due \ queued].notified
                = old.notified
        BY <2>1 DEF Senders
      <3> QED
        BY <3>1, <3>2 DEF StartSends
    <2>7. \A r \in queued : r \notin old.to_send /\ r \notin old.finished
      BY <1>2, <1>3, <1>11, <2>1 DEF IInv, Sends, SendOK
    <2>8. Stepped(old, queued, n, v, new, gone)
      BY <2>4, <2>5, <2>6, <2>7, RankStep
    <2>9. producer'[p] = new /\ reports[p] = v.finished \cup gone /\ gone = Expired(w[p])
      BY <1>5, <1>8, <1>11, <2>3, <2>4, <2>5
    <2> QED
      BY <2>1, <2>2, <2>8, <2>9 DEF Stepped
  <1>12. Types'
    <2>1. producer' \in [P -> Senders]
      BY <1>8, <1>11
    <2>2. expired' \subseteq Reqs
      BY <1>8, <1>9, <1>11
    <2>3. send' \in [Reqs -> {"none", "queued", "held", "freed"}]
      BY <1>8, <1>9
    <2>4. sent' \in [Reqs -> Nat]
      <3>1. ASSUME NEW r \in Reqs PROVE Cardinality({p \in P : r \in reports[p]}) \in Nat
        <4>1. IsFiniteSet({p \in P : r \in reports[p]})
          BY <1>10, FS_Subset
        <4> QED
          BY <4>1, FS_CardinalityType
      <3>2. \A r \in Reqs : (IF r \in over THEN 0
                             ELSE sent[r] + Cardinality({p \in P : r \in reports[p]})) \in Nat
        BY <1>9, <3>1
      <3> QED
        BY <1>8, <3>2 DEF Counted
    <2> QED
      BY <1>1, <1>2, <2>1, <2>2, <2>3, <2>4 DEF IInv, Types
  <1>13. Queues' /\ LoadsOK' /\ Reports'
    BY <1>1 DEF IInv, Queues, LoadsOK, Reports
  <1>14. \A r \in Reqs : r \notin expired' => r \notin expired /\ \A p \in P : r \notin Expired(w[p])
    BY <1>8
  <1>15. Landed'
    BY <1>1, <1>14 DEF IInv, Landed
  <1>16. ASSUME NEW p \in P, NEW r \in Reqs
         PROVE  /\ SendOK(top, p, producer[p], r, send[r])
                /\ AllEnded(top, consumer, p, r, producer[p], send[r], expired)
                /\ NoticeOK(top, consumer, notifs, p, r, producer[p],
                            Exactly(producer[p], r, send[r], expired))
    BY <1>2 DEF IInv, Sends, Notices
  <1>17. ASSUME NEW r \in Reqs
         PROVE  /\ r \in over => send[r] \in {"queued", "held"}
                /\ r \in over => Released(top, producer', r) = P
                /\ sent'[r] = IF r \notin over /\ send[r] \in {"queued", "held"}
                              THEN Cardinality(Released(top, producer', r)) ELSE 0
    <2>1. PICK B \in SUBSET P : B = {p \in P : r \in reports[p]}
      OBVIOUS
    <2>2. PICK A \in SUBSET P : A = IF send[r] = "held" THEN Released(top, producer, r) ELSE {}
      BY <1>2 DEF Released
    <2>3. sent[r] = Cardinality(A)
      BY <2>2, FS_EmptySet DEF IInv, Sends
    <2>4. PICK C : C = Released(top, producer', r)
      OBVIOUS
    <2>5. C = {p \in P : r \notin producer'[p].to_send}
      BY <1>2, <1>11, <2>4 DEF Released
    <2>6. A \cap B = {}
      <3> SUFFICES ASSUME NEW p \in A, p \in B PROVE FALSE
        OBVIOUS
      <3>1. send[r] = "held" /\ r \notin producer[p].to_send \cup producer[p].finished
        BY <2>2 DEF Released
      <3>2. r \notin queued /\ r \in reports[p]
        BY <1>3, <2>1, <3>1
      <3> QED
        BY <1>11, <3>1, <3>2
    <2>7. r \in over <=> Cardinality(A) + Cardinality(B) = Cardinality(P)
      BY <1>6, <2>1, <2>3 DEF AllReported
    <2>8. /\ Cardinality(A) \in Nat /\ Cardinality(B) \in Nat
          /\ Cardinality(A \cup B) = Cardinality(A) + Cardinality(B)
          /\ Cardinality(A) + Cardinality(B) = Cardinality(P) <=> A \cup B = P
      BY <1>10, <2>6, Parts
    <2>9. sent'[r] = IF r \in over THEN 0 ELSE Cardinality(A) + Cardinality(B)
      BY <1>8, <2>1, <2>3 DEF Counted
    <2>10. CASE send[r] \in {"queued", "held"}
      <3>1. C = A \cup B
        <4>1. CASE send[r] = "queued"
          BY <1>3, <1>11, <2>1, <2>2, <2>5, <4>1
        <4>2. CASE send[r] = "held"
          <5>1. r \notin queued
            BY <1>3, <4>2
          <5>2. \A p \in P : p \in A <=> r \notin producer[p].to_send \cup producer[p].finished
            BY <1>2, <2>2, <4>2 DEF Released
          <5>3. \A p \in P : ~(r \in producer[p].to_send /\ r \in producer[p].finished)
            BY <1>16 DEF SendOK
          <5>4. \A p \in P : p \in C <=> p \in A \/ p \in B
            BY <1>11, <2>1, <2>5, <5>1, <5>2, <5>3
          <5> QED
            BY <2>5, <5>4
        <4> QED
          BY <2>10, <4>1, <4>2
      <3> QED
        BY <2>4, <2>7, <2>8, <2>9, <2>10, <3>1
    <2>11. CASE send[r] \notin {"queued", "held"}
      <3>1. r \notin queued /\ A = {}
        BY <1>3, <2>2, <2>11
      <3>2. \A p \in P : r \notin producer[p].to_send /\ r \notin producer[p].finished
        BY <1>16, <2>11 DEF SendOK
      <3>3. B = {}
        BY <1>11, <2>1, <3>1, <3>2
      <3>4. Cardinality(A) = 0 /\ Cardinality(B) = 0
        BY <3>1, <3>3, FS_EmptySet
      <3>5. r \notin over
        BY <1>10, <2>7, <3>4
      <3> QED
        BY <2>9, <2>11, <3>4, <3>5
    <2> QED
      BY <2>10, <2>11
  <1>18. \A r \in Reqs : send'[r] = IF r \in over THEN "freed"
                                    ELSE IF send[r] = "queued" THEN "held" ELSE send[r]
    BY <1>3, <1>8
  <1>19. ASSUME NEW p \in P, NEW r \in Reqs
         PROVE  /\ SendOK(top, p, producer'[p], r, send'[r])
                /\ AllEnded(top, consumer, p, r, producer'[p], send'[r], expired')
                /\ NoticeOK(top, consumer, notifs, p, r, producer'[p],
                            Exactly(producer'[p], r, send'[r], expired'))
    <2>1. PICK x : x = producer[p].notified[r]
      OBVIOUS
    <2>2. PICK E : E = EndedBy(top, consumer, p, r)
      OBVIOUS
    <2>3. PICK T : T = Taken(top, consumer, notifs, p, r)
      OBVIOUS
    <2>4. /\ x \in Nat /\ ReadersOf(top, p) \in Nat /\ Cardinality(T) \in Nat
          /\ Cardinality(E) \in Nat /\ Cardinality(T) <= Cardinality(E)
          /\ Cardinality(E) <= ReadersOf(top, p)
          /\ Cardinality(E) = ReadersOf(top, p) => E = Sharing(top, p)
      <3>1. x \in Nat
        BY <1>2, <2>1, ProducerFacts DEF IInv
      <3> QED
        BY <1>2, <1>9, <2>2, <2>3, <3>1, Counts
    <2>5. x <= Cardinality(T)
      BY <1>16, <2>1, <2>3 DEF NoticeOK
    <2>6. producer'[p].notified[r] \in {0, x}
          /\ (r \in producer'[p].to_send => producer'[p].notified[r] = x)
      BY <1>11, <2>1
    <2>7. r \in producer'[p].to_send =>
             /\ send[r] \in {"queued", "held"} /\ r \notin over /\ x < ReadersOf(top, p)
             /\ send[r] = "held" => r \in producer[p].to_send
      <3> SUFFICES ASSUME r \in producer'[p].to_send
                   PROVE  /\ send[r] \in {"queued", "held"} /\ r \notin over
                          /\ x < ReadersOf(top, p)
                          /\ send[r] = "held" => r \in producer[p].to_send
        OBVIOUS
      <3>1. r \notin over
        BY <1>17, <1>19 DEF Released
      <3>2. CASE r \in queued
        <4>1. send[r] = "queued" /\ ~(x >= ReadersOf(top, p))
          BY <1>3, <1>11, <2>1, <3>2
        <4> QED
          BY <2>4, <3>1, <4>1
      <3>3. CASE r \notin queued
        <4>1. r \in producer[p].to_send
          BY <1>11, <3>3
        <4> QED
          BY <1>16, <2>1, <3>1, <4>1 DEF SendOK
      <3> QED
        BY <3>2, <3>3
    <2>8. SendOK(top, p, producer'[p], r, send'[r])
      BY <1>11, <1>18, <2>6, <2>7 DEF SendOK
    <2>9. AllEnded(top, consumer, p, r, producer'[p], send'[r], expired')
      <3> SUFFICES ASSUME send'[r] \in {"held", "freed"}, r \notin producer'[p].to_send,
                          r \notin expired'
                   PROVE  E = Sharing(top, p)
        BY <2>2 DEF AllEnded
      <3>1. r \notin expired /\ r \notin Expired(w[p])
        BY <1>14
      <3>2. CASE r \in queued
        <4>1. x >= ReadersOf(top, p)
          BY <1>11, <2>1, <3>2
        <4>2. Cardinality(E) = ReadersOf(top, p)
          BY <2>4, <2>5, <4>1
        <4> QED
          BY <2>4, <4>2
      <3>3. CASE r \notin queued
        <4>1. r \notin producer[p].to_send
          BY <1>11, <3>1, <3>3
        <4>2. send[r] \in {"held", "freed"}
          BY <1>3, <1>17, <1>18, <3>3
        <4> QED
          BY <1>16, <2>2, <3>1, <4>1, <4>2 DEF AllEnded
      <3> QED
        BY <3>2, <3>3
    <2>10. ASSUME Exactly(producer'[p], r, send'[r], expired'), NoneFaulty(top, consumer, r)
           PROVE  producer'[p].notified[r] = Cardinality(T)
      <3>1. r \notin expired
        BY <1>14, <2>10 DEF Exactly
      <3>2. CASE r \in producer'[p].to_send
        <4>1. Exactly(producer[p], r, send[r], expired)
          BY <2>7, <3>1, <3>2 DEF Exactly
        <4> QED
          BY <1>16, <2>1, <2>3, <2>6, <2>10, <3>2, <4>1 DEF NoticeOK
      <3>3. CASE r \notin producer'[p].to_send
        <4>1. send'[r] \in {"none", "queued"}
          BY <2>10, <3>3 DEF Exactly
        <4>2. send[r] = "none"
          BY <1>9, <1>18, <4>1
        <4>3. recv[r] = "none"
          BY <4>2 DEF IInv, Offered
        <4>4. \A c \in Consumers(top) : consumer[c].load[r].pc = "none"
          BY <4>3 DEF IInv, Queues, QueueOK, Begun
        <4>5. T = {}
          BY <2>3, <4>4 DEF Taken, EndedBy, Ended, Sharing
        <4>6. Cardinality(T) = 0
          BY <4>5, FS_EmptySet
        <4> QED
          BY <2>4, <2>5, <2>6, <4>6
      <3> QED
        BY <3>2, <3>3
    <2>11. producer'[p].notified[r] <= Cardinality(T)
      BY <2>4, <2>5, <2>6
    <2>12. \A c \in Consumers(top) : <<p, r, c>> \in notifs => c \in E
      BY <1>16, <2>2 DEF NoticeOK
    <2>13. NoticeOK(top, consumer, notifs, p, r, producer'[p],
                    Exactly(producer'[p], r, send'[r], expired'))
      BY <2>2, <2>3, <2>10, <2>11, <2>12 DEF NoticeOK
    <2> QED
      BY <2>8, <2>9, <2>13
  <1>20. Notices'
    BY <1>1, <1>2, <1>19 DEF Notices
  <1>21. Sends'
    <2>1. \A r \in Reqs :
             sent'[r] = IF send'[r] = "held" THEN Cardinality(Released(top, producer', r)) ELSE 0
      BY <1>9, <1>17, <1>18
    <2> QED
      BY <1>1, <1>2, <1>19, <2>1 DEF Sends
  <1>22. Offered'
    BY <1>1, <1>9, <1>18 DEF IInv, Offered
  <1>23. Promise!Next
    <2>1. over \in SUBSET {r \in Reqs : send[r] \in {"queued", "held"}}
      BY <1>6, <1>17 DEF AllReported
    <2>2. send' = [r \in Reqs |-> IF r \in over THEN "freed"
                                  ELSE IF send[r] = "queued" THEN "held" ELSE send[r]]
      BY <1>3, <1>8
    <2>3. Promise!Producer
      BY <1>1, <2>1, <2>2 DEF Promise!Producer
    <2> QED
      BY <2>3 DEF Promise!Next
  <1> QED
    BY <1>12, <1>13, <1>15, <1>20, <1>21, <1>22, <1>23 DEF IInv

(* What waits goes behind a rank's queue. *)
LEMMA QueueBehind ==
    ASSUME NEW q \in Seq(Items), NEW more \in Seq(Items), Once(q), Once(more),
           \A i \in 1..Len(q), j \in 1..Len(more) : q[i].req # more[j].req
    PROVE  /\ q \o more \in Seq(Items) /\ Once(q \o more)
           /\ \A k \in 1..Len(q \o more) :
                 \/ \E i \in 1..Len(q) : (q \o more)[k] = q[i]
                 \/ \E j \in 1..Len(more) : (q \o more)[k] = more[j]
  <1>1. PICK m \in Nat : m = Len(q)
    OBVIOUS
  <1>2. PICK n \in Nat : n = Len(more)
    OBVIOUS
  <1>3. PICK all : all = q \o more
    OBVIOUS
  <1>4. all \in Seq(Items) /\ Len(all) = m + n
    BY <1>1, <1>2, <1>3
  <1>5. \A k \in 1..(m + n) : all[k] = IF k <= m THEN q[k] ELSE more[k - m]
    BY <1>1, <1>2, <1>3
  <1>6. \A k \in 1..(m + n) : (k \in 1..m /\ k <= m) \/ (k - m \in 1..n /\ ~(k <= m))
    OBVIOUS
  <1>7. ASSUME NEW k \in 1..(m + n), NEW l \in 1..(m + n), all[k].req = all[l].req
        PROVE  k = l
    <2>1. CASE k <= m /\ l <= m
      BY <1>1, <1>5, <1>6, <1>7, <2>1 DEF Once
    <2>2. CASE ~(k <= m) /\ ~(l <= m)
      <3>1. k - m \in 1..n /\ l - m \in 1..n
        BY <1>6, <2>2
      <3>2. all[k] = more[k - m] /\ all[l] = more[l - m]
        BY <1>5, <2>2
      <3>3. k - m = l - m
        BY <1>2, <1>7, <3>1, <3>2 DEF Once
      <3> QED
        BY <3>3
    <2>3. CASE (k <= m /\ ~(l <= m)) \/ (~(k <= m) /\ l <= m)
      BY <1>1, <1>2, <1>5, <1>6, <1>7, <2>3
    <2> QED
      BY <2>1, <2>2, <2>3
  <1>8. Once(all)
    BY <1>4, <1>7 DEF Once
  <1>9. ASSUME NEW k \in 1..Len(all)
        PROVE  (\E i \in 1..Len(q) : all[k] = q[i]) \/ \E j \in 1..Len(more) : all[k] = more[j]
    BY <1>1, <1>2, <1>4, <1>5, <1>6, <1>9
  <1> QED
    BY <1>3, <1>4, <1>8, <1>9

(* A step of the consumer engine. *)
LEMMA ConsumerStepIInv ==
    ASSUME IInv, ConsumerStep
    PROVE  IInv' /\ [Promise!Next]_(Promise!vars)
  <1>1. UNCHANGED <<top, send, producer, sent, notifs, landed, expired>> /\ waiting' = << >>
    BY DEF ConsumerStep
  <1>2. PICK C : C = Consumers(top)
    OBVIOUS
  <1>3. PICK reports : reports = [c \in C |-> consumer[c].finished \cup consumer[c].failed]
    OBVIOUS
  <1>4. PICK over : over = AllReported(recved.count, reports, C)
    OBVIOUS
  <1>5. PICK failed : failed = recved.failed \cup UNION {consumer[c].failed : c \in C}
    OBVIOUS
  <1>6. CRanks = C
    BY <1>2, Here
  <1>7. /\ \E r \in Reqs : recv[r] \in {"queued", "loading"}
        /\ consumer' = [c \in C |-> [consumer[c] EXCEPT !.queue = @ \o waiting,
                                                        !.finished = {}, !.failed = {}]]
        /\ recved' = [count |-> Counted(recved.count, reports, C, over), failed |-> failed \ over]
        /\ recv' = [r \in Reqs |-> IF r \in over \cap failed THEN "failed"
                                   ELSE IF r \in over THEN "loaded"
                                   ELSE IF recv[r] = "queued" THEN "loading" ELSE recv[r]]
    BY <1>3, <1>4, <1>5, <1>6 DEF ConsumerStep
  <1>8. /\ top \in Topologies /\ consumer \in [C -> Readings(top)] /\ waiting \in Seq(Items)
        /\ recv \in [Reqs -> {"none", "queued", "loading", "loaded", "failed"}]
        /\ recved \in [count : [Reqs -> Nat], failed : SUBSET Reqs] /\ Types
    BY <1>2 DEF IInv, Types
  <1>9. recved.count \in [Reqs -> Nat] /\ recved.failed \subseteq Reqs
    BY <1>8
  <1>10. IsFiniteSet(C) /\ Cardinality(C) \in Nat \ {0}
    BY <1>2, <1>8, Layout
  <1>11. \A i \in 1..Len(waiting) : waiting[i].req \in Reqs
    <2>1. \A i \in 1..Len(waiting) : waiting[i] \in Items
      BY <1>8
    <2> QED
      BY <2>1 DEF Items
  <1>12. ASSUME NEW c \in C
         PROVE  /\ consumer[c].finished \subseteq Reqs /\ consumer[c].failed \subseteq Reqs
                /\ QueueOK(consumer[c], recv)
                /\ \A r \in Reqs : /\ ReportOK(consumer[c], r, recv[r], recved.failed)
                                   /\ LoadOK(top, c, consumer[c].load[r])
    BY <1>2, <1>8, ConsumerFacts DEF IInv, Queues, Reports, LoadsOK
  <1>13. ASSUME NEW c \in C
         PROVE  /\ Once(consumer[c].queue \o waiting)
                /\ \A k \in 1..Len(consumer[c].queue \o waiting) :
                     \/ \E i \in 1..Len(consumer[c].queue) :
                           (consumer[c].queue \o waiting)[k] = consumer[c].queue[i]
                     \/ \E j \in 1..Len(waiting) : (consumer[c].queue \o waiting)[k] = waiting[j]
                /\ consumer'[c] \in Readings(top) /\ consumer'[c].load = consumer[c].load
                /\ consumer'[c].queue = consumer[c].queue \o waiting
                /\ consumer'[c].finished = {} /\ consumer'[c].failed = {}
    <2>1. PICK q \in Seq(Items) : q = consumer[c].queue
      BY <1>2, <1>8, <1>13, ConsumerFacts
    <2>2. PICK more \in Seq(Items) : more = waiting
      BY <1>8
    <2>3. Once(q) /\ Once(more)
      BY <1>12, <1>13, <2>1, <2>2 DEF QueueOK, IInv, Queues
    <2>4. \A i \in 1..Len(q), j \in 1..Len(more) : q[i].req # more[j].req
      <3>1. \A i \in 1..Len(q) : recv[q[i].req] \in Begun
        BY <1>12, <1>13, <2>1 DEF QueueOK
      <3>2. \A j \in 1..Len(more) : recv[more[j].req] = "queued"
        BY <2>2 DEF IInv, Queues
      <3> QED
        BY <3>1, <3>2 DEF Begun
    <2>5. /\ q \o more \in Seq(Items) /\ Once(q \o more)
          /\ \A k \in 1..Len(q \o more) :
                \/ \E i \in 1..Len(q) : (q \o more)[k] = q[i]
                \/ \E j \in 1..Len(more) : (q \o more)[k] = more[j]
      BY <2>3, <2>4, QueueBehind
    <2>6. PICK w \in Readings(top) : w = consumer[c]
      BY <1>8, <1>13
    <2>7. PICK all \in Seq(Items) : all = q \o more
      BY <2>5
    <2>8. PICK v : v = [w EXCEPT !.queue = all, !.finished = {}, !.failed = {}]
      OBVIOUS
    <2>9. consumer'[c] = v
      BY <1>7, <1>13, <2>1, <2>2, <2>6, <2>7, <2>8
    <2>10. v \in Readings(top) /\ v.load = w.load /\ v.queue = all /\ v.finished = {} /\ v.failed = {}
      BY <2>6, <2>7, <2>8 DEF Readings
    <2> QED
      BY <2>1, <2>2, <2>5, <2>6, <2>7, <2>9, <2>10
  <1>14. ASSUME NEW c \in C, NEW r \in Reqs
         PROVE  /\ Told(consumer'[c], r) <=> consumer[c].load[r].pc = "over"
                /\ Told(consumer[c], r) <=> consumer[c].load[r].pc = "over" /\ r \notin reports[c]
                /\ r \in reports[c] => consumer[c].load[r].pc = "over" /\ recv[r] = "loading"
                /\ consumer[c].load[r].pc = "over" => recv[r] \in Begun
                /\ r \in consumer[c].failed => r \in failed
    BY <1>3, <1>5, <1>12, <1>13, <1>14 DEF Told, ReportOK, QueueOK
  <1>15. ASSUME NEW r \in Reqs
         PROVE  /\ r \in over => recv[r] = "loading" /\ ToldBy(top, consumer', r) = C
                /\ recv[r] \in {"loaded", "failed"} => ToldBy(top, consumer', r) = C
                /\ Counted(recved.count, reports, C, over)[r] =
                      IF r \in over \/ recv[r] \in {"loaded", "failed"} THEN 0
                      ELSE Cardinality(ToldBy(top, consumer', r))
    <2>1. PICK B \in SUBSET C : B = {c \in C : r \in reports[c]}
      OBVIOUS
    <2>2. PICK A \in SUBSET C : A = IF recv[r] \in {"loaded", "failed"} THEN {}
                                    ELSE ToldBy(top, consumer, r)
      BY <1>2 DEF ToldBy
    <2>3. recved.count[r] = Cardinality(A)
      BY <2>2, FS_EmptySet DEF IInv, Reports
    <2>4. PICK D : D = ToldBy(top, consumer', r)
      OBVIOUS
    <2>5. D = {c \in C : consumer[c].load[r].pc = "over"}
      BY <1>1, <1>2, <1>14, <2>4 DEF ToldBy
    <2>6. ToldBy(top, consumer, r) = {c \in C : consumer[c].load[r].pc = "over" /\ r \notin reports[c]}
      BY <1>2, <1>14 DEF ToldBy
    <2>7. A \cap B = {}
      BY <2>1, <2>2, <2>6
    <2>8. r \in over <=> Cardinality(A) + Cardinality(B) = Cardinality(C)
      BY <1>4, <2>1, <2>3 DEF AllReported
    <2>9. /\ Cardinality(A) \in Nat /\ Cardinality(B) \in Nat
          /\ Cardinality(A \cup B) = Cardinality(A) + Cardinality(B)
          /\ Cardinality(A) + Cardinality(B) = Cardinality(C) <=> A \cup B = C
      BY <1>10, <2>7, Parts
    <2>10. Counted(recved.count, reports, C, over)[r] =
              IF r \in over THEN 0 ELSE Cardinality(A) + Cardinality(B)
      BY <2>1, <2>3 DEF Counted
    <2>11. CASE recv[r] = "loading"
      <3>1. D = A \cup B
        BY <1>14, <2>1, <2>2, <2>5, <2>6, <2>11
      <3> QED
        BY <2>4, <2>8, <2>9, <2>10, <2>11, <3>1
    <2>12. CASE recv[r] \in {"loaded", "failed"}
      <3>1. A = {} /\ B = {}
        BY <1>14, <2>1, <2>2, <2>12
      <3>2. Cardinality(A) = 0 /\ Cardinality(B) = 0
        BY <3>1, FS_EmptySet
      <3>3. r \notin over
        BY <1>10, <2>8, <3>2
      <3>4. ToldBy(top, consumer, r) = C
        BY <1>2, <2>12 DEF IInv, Reports
      <3>5. D = C
        BY <2>5, <2>6, <3>4
      <3> QED
        BY <2>4, <2>10, <2>12, <3>2, <3>3, <3>5
    <2>13. CASE recv[r] \in {"none", "queued"}
      <3>1. A = {} /\ B = {} /\ D = {}
        BY <1>14, <2>1, <2>2, <2>5, <2>6, <2>13 DEF Begun
      <3>2. Cardinality(A) = 0 /\ Cardinality(B) = 0 /\ Cardinality(D) = 0
        BY <3>1, FS_EmptySet
      <3>3. r \notin over
        BY <1>10, <2>8, <3>2
      <3> QED
        BY <2>4, <2>10, <2>13, <3>2, <3>3
    <2> QED
      BY <1>8, <2>11, <2>12, <2>13
  <1>16. \A r \in Reqs : recv'[r] = IF r \in over \cap failed THEN "failed"
                                    ELSE IF r \in over THEN "loaded"
                                    ELSE IF recv[r] = "queued" THEN "loading" ELSE recv[r]
    BY <1>7
  <1>17. recved'.count = Counted(recved.count, reports, C, over) /\ recved'.failed = failed \ over
    BY <1>7
  <1>18. Types'
    <2>1. consumer' \in [C -> Readings(top)]
      BY <1>7, <1>13
    <2>2. recv' \in [Reqs -> {"none", "queued", "loading", "loaded", "failed"}]
      BY <1>7, <1>8
    <2>3. failed \subseteq Reqs
      BY <1>5, <1>9, <1>12
    <2>4. Counted(recved.count, reports, C, over) \in [Reqs -> Nat]
      <3>1. ASSUME NEW r \in Reqs PROVE Cardinality({c \in C : r \in reports[c]}) \in Nat
        <4>1. IsFiniteSet({c \in C : r \in reports[c]})
          BY <1>10, FS_Subset
        <4> QED
          BY <4>1, FS_CardinalityType
      <3>2. \A r \in Reqs : (IF r \in over THEN 0
                 ELSE recved.count[r] + Cardinality({c \in C : r \in reports[c]})) \in Nat
        BY <1>9, <3>1
      <3> QED
        BY <3>2 DEF Counted
    <2>5. recved' \in [count : [Reqs -> Nat], failed : SUBSET Reqs]
      BY <1>7, <2>3, <2>4
    <2>6. waiting' \in Seq(Items)
      BY <1>1
    <2> QED
      BY <1>1, <1>2, <2>1, <2>2, <2>5, <2>6 DEF IInv, Types
  <1>19. \A r \in Reqs : /\ recv[r] \in Begun => recv'[r] \in Begun
                         /\ recv[r] = "queued" => recv'[r] \in Begun
    BY <1>16 DEF Begun
  <1>20. Queues'
    <2>1. ASSUME NEW c \in C PROVE QueueOK(consumer'[c], recv')
      <3>1. PICK q : q = consumer[c].queue \o waiting
        OBVIOUS
      <3>2. ASSUME NEW k \in 1..Len(q)
            PROVE  recv'[q[k].req] \in Begun /\ consumer[c].load[q[k].req].pc = "none"
        <4>1. CASE \E i \in 1..Len(consumer[c].queue) : q[k] = consumer[c].queue[i]
          <5>1. PICK i \in 1..Len(consumer[c].queue) : q[k] = consumer[c].queue[i]
            BY <4>1
          <5>2. consumer[c].queue[i].req \in Reqs
            BY <1>2, <1>8, <2>1, ConsumerFacts
          <5> QED
            BY <1>12, <1>19, <2>1, <5>1, <5>2 DEF QueueOK
        <4>2. CASE \E j \in 1..Len(waiting) : q[k] = waiting[j]
          <5>1. PICK j \in 1..Len(waiting) : q[k] = waiting[j]
            BY <4>2
          <5>2. waiting[j].req \in Reqs /\ recv[waiting[j].req] = "queued"
            BY <1>11, <5>1 DEF IInv, Queues
          <5>3. consumer[c].load[waiting[j].req].pc = "none"
            BY <1>12, <2>1, <5>2 DEF QueueOK, Begun
          <5> QED
            BY <1>19, <5>1, <5>2, <5>3
        <4> QED
          BY <1>13, <2>1, <3>1, <3>2, <4>1, <4>2
      <3>3. \A r \in Reqs : consumer[c].load[r].pc # "none" => recv'[r] \in Begun
        BY <1>12, <1>19, <2>1 DEF QueueOK
      <3> QED
        BY <1>13, <2>1, <3>1, <3>2, <3>3 DEF QueueOK
    <2>2. Once(waiting') /\ \A i \in 1..Len(waiting') : recv'[waiting'[i].req] = "queued"
      BY <1>1 DEF Once
    <2> QED
      BY <1>1, <1>2, <2>1, <2>2 DEF Queues
  <1>21. Reports'
    <2>1. ASSUME NEW c \in C, NEW r \in Reqs
          PROVE  ReportOK(consumer'[c], r, recv'[r], recved'.failed)
      <3> SUFFICES ASSUME consumer[c].load[r].failed, consumer[c].load[r].pc = "over"
                   PROVE  recv'[r] = "failed" \/ (recv'[r] = "loading" /\ r \in recved'.failed)
        BY <1>13, <1>14, <2>1 DEF ReportOK
      <3>1. recv[r] = "failed" \/ (recv[r] = "loading" /\ r \in failed)
        <4>1. ReportOK(consumer[c], r, recv[r], recved.failed)
          BY <1>12, <2>1
        <4>2. CASE Told(consumer[c], r)
          BY <1>5, <4>1, <4>2 DEF ReportOK
        <4>3. CASE ~Told(consumer[c], r)
          <5>1. r \in consumer[c].finished \cup consumer[c].failed
            BY <4>3 DEF Told
          <5>2. r \in consumer[c].failed /\ recv[r] = "loading"
            BY <4>1, <5>1 DEF ReportOK
          <5> QED
            BY <1>14, <2>1, <5>2
        <4> QED
          BY <4>2, <4>3
      <3>2. r \in over => recv[r] = "loading"
        BY <1>15
      <3> QED
        BY <1>16, <1>17, <3>1, <3>2
    <2>2. ASSUME NEW r \in Reqs
          PROVE  IF recv'[r] \in {"loaded", "failed"}
                 THEN recved'.count[r] = 0 /\ ToldBy(top, consumer', r) = C
                 ELSE recved'.count[r] = Cardinality(ToldBy(top, consumer', r))
      <3>1. recv'[r] \in {"loaded", "failed"} <=> r \in over \/ recv[r] \in {"loaded", "failed"}
        BY <1>16
      <3> QED
        BY <1>15, <1>17, <3>1
    <2> QED
      BY <1>1, <1>2, <2>1, <2>2 DEF Reports
  <1>22. LoadsOK' /\ Notices' /\ Sends'
    <2>1. PICK r \in Reqs : TRUE
      BY <1>7
    <2>2. PICK c \in Consumers(top) : TRUE
      BY <1>2, <1>10, FS_EmptySet
    <2>3. \A d \in Consumers(top) : consumer'[d].load = consumer[d].load
      BY <1>2, <1>13
    <2>4. LoadOK(top, c, consumer'[c].load[r])
      BY <1>2, <1>12, <2>3
    <2>5. EndsOnce(top, c, r, consumer[c].load[r], consumer'[c].load[r], notifs, notifs')
      BY <1>1, <2>3 DEF EndsOnce
    <2> QED
      BY <1>1, <2>3, <2>4, <2>5, LoadStep
  <1>23. Landed'
    <2>1. \A d \in Consumers(top) : consumer'[d].load = consumer[d].load
      BY <1>2, <1>13
    <2> QED
      BY <1>1, <2>1 DEF IInv, Landed
  <1>24. Offered'
    <2>1. ASSUME NEW r \in Reqs, send[r] = "none" PROVE recv'[r] = "none"
      <3>1. recv[r] = "none"
        BY <2>1 DEF IInv, Offered
      <3> QED
        BY <1>15, <1>16, <2>1, <3>1
    <2> QED
      BY <1>1, <2>1 DEF Offered
  <1>25. Promise!Next
    <2>1. over \in SUBSET {r \in Reqs : recv[r] = "loading"}
      BY <1>4, <1>15 DEF AllReported
    <2>2. PICK lost \in SUBSET over : lost = over \cap failed
      OBVIOUS
    <2>3. recv' = [r \in Reqs |-> IF r \in lost THEN "failed"
                                  ELSE IF r \in over THEN "loaded"
                                  ELSE IF recv[r] = "queued" THEN "loading" ELSE recv[r]]
      BY <1>7, <2>2
    <2>4. Promise!Consumer
      BY <1>1, <2>1, <2>3 DEF Promise!Consumer
    <2> QED
      BY <2>4 DEF Promise!Next
  <1> QED
    BY <1>18, <1>20, <1>21, <1>22, <1>23, <1>24, <1>25 DEF IInv

-----------------------------------------------------------------------------
(* Every step keeps the invariant and is allowed by KVTransfer. *)
LEMMA NextIInv ==
    ASSUME IInv, [Next]_vars
    PROVE  IInv' /\ [Promise!Next]_(Promise!vars)
  <1>1. CASE UNCHANGED vars
    <2>1. UNCHANGED Promise!vars
      BY <1>1 DEF vars, Promise!vars
    <2>2. IInv'
      BY <1>1 DEF vars, IInv, Types, Offered, Queues, LoadsOK, Reports, Notices, Sends, Landed
    <2> QED
      BY <2>1, <2>2
  <1>2. CASE \E r \in Reqs : RequestFinished(r) \/ UpdateStateAfterAlloc(r)
    BY <1>2, RequestFinishedIInv, UpdateStateAfterAllocIInv
  <1>3. CASE Transfer
    <2>1. PRanks = Producers(top) /\ CRanks = Consumers(top)
      BY Here
    <2>2. CASE \E p \in Producers(top) : TakeNotification(p)
      <3>1. IInv' /\ UNCHANGED <<send, recv>>
        BY <2>2, TakeNotificationIInv
      <3> QED
        BY <3>1 DEF Promise!vars
    <2>3. CASE \E p \in Producers(top), r \in Reqs : Deadline(p, r)
      <3>1. IInv' /\ UNCHANGED <<send, recv>>
        BY <2>3, DeadlineIInv
      <3> QED
        BY <3>1 DEF Promise!vars
    <2>4. CASE \E c \in Consumers(top) : Start(c)
      <3>1. IInv' /\ UNCHANGED <<send, recv>>
        BY <2>4, StartIInv
      <3> QED
        BY <3>1 DEF Promise!vars
    <2>5. CASE \E c \in Consumers(top), r \in Reqs : PostShare(c, r)
      <3>1. IInv' /\ UNCHANGED <<send, recv>>
        BY <2>5, PostShareIInv
      <3> QED
        BY <3>1 DEF Promise!vars
    <2>6. CASE \E c \in Consumers(top), r \in Reqs : ReadEnds(c, r)
      <3>1. IInv' /\ UNCHANGED <<send, recv>>
        BY <2>6, ReadEndsIInv
      <3> QED
        BY <3>1 DEF Promise!vars
    <2>7. CASE \E c \in Consumers(top), r \in Reqs : Poll(c, r)
      <3>1. IInv' /\ UNCHANGED <<send, recv>>
        BY <2>7, PollIInv
      <3> QED
        BY <3>1 DEF Promise!vars
    <2> QED
      BY <1>3, <2>1, <2>2, <2>3, <2>4, <2>5, <2>6, <2>7 DEF Transfer
  <1>4. CASE ProducerStep
    BY <1>4, ProducerStepIInv
  <1>5. CASE ConsumerStep
    BY <1>5, ConsumerStepIInv
  <1> QED
    BY <1>1, <1>2, <1>3, <1>4, <1>5 DEF Next

(* What is reported as loaded was not faulty on any rank, and what was     *)
(* read, if anything was, is all that moves: the rank's own heads.         *)
LEMMA LoadedIsThere == IInv => ReportedIsLoaded
  <1> SUFFICES ASSUME IInv, NEW r \in Reqs, recv[r] \in {"loaded", "failed"}, NEW c \in CRanks
               PROVE  LET load == consumer[c].load[r]
                          local == top.heads \div top.ctp
                      IN  /\ load.pc = "over" /\ InState(load, "PROC") = {}
                          /\ recv[r] = "loaded" /\ InState(load, "DONE") # {} /\ r \notin expired =>
                                landed[c][r] = IF top.heads = 0 THEN {<<0, 0>>}
                                               ELSE {<<h, c * local + h>> : h \in 0..(local - 1)}
    BY DEF ReportedIsLoaded
  <1>6. c \in Consumers(top)
    BY Here
  <1>7. PICK load : load = consumer[c].load[r]
    OBVIOUS
  <1>8. PICK local : local = top.heads \div top.ctp
    OBVIOUS
  <1>1. /\ LoadOK(top, c, load) /\ top \in Topologies
        /\ load.pc # "none" => DOMAIN load.reads = ShareIds(top, c)
    BY <1>6, <1>7, LoadFacts
  <1>2. c \in ToldBy(top, consumer, r)
    BY <1>6 DEF IInv, Reports
  <1>3. Told(consumer[c], r) /\ load.pc = "over"
    BY <1>2, <1>7 DEF ToldBy, Told
  <1>4. InState(load, "PROC") = {}
    BY <1>1, <1>3 DEF LoadOK
  <1>5. ASSUME recv[r] = "loaded", InState(load, "DONE") # {}, r \notin expired
        PROVE  landed[c][r] = IF top.heads = 0 THEN {<<0, 0>>}
                              ELSE {<<h, c * local + h>> : h \in 0..(local - 1)}
    <2>1. ~load.failed
      <3>1. ReportOK(consumer[c], r, recv[r], recved.failed)
        BY <1>6 DEF IInv, Reports
      <3> QED
        BY <1>3, <1>7, <1>5, <3>1 DEF ReportOK
    <2>2. /\ InState(load, "ERR") = {} /\ ReadsWhatMoves(top, c, load)
          /\ \A i \in ShareIds(top, c) : load.reads[i] \notin {"todo", "notify"}
          /\ DOMAIN load.reads = ShareIds(top, c)
      BY <1>1, <1>3, <2>1 DEF LoadOK
    <2>3. PICK reads \in BOOLEAN : \A i \in ShareIds(top, c) :
             load.reads[i] \in Readable(reads, MovesOf(top, c, i))
      BY <2>2 DEF ReadsWhatMoves
    <2>4. reads
      BY <1>5, <2>2, <2>3 DEF Readable, InState
    <2>5. \A i \in ShareIds(top, c) : i \in InState(load, "DONE") <=> MovesOf(top, c, i) # {}
      BY <1>4, <2>2, <2>3, <2>4 DEF Readable, InState
    <2>6. UNION {MovesOf(top, c, i) : i \in InState(load, "DONE")}
             = UNION {MovesOf(top, c, i) : i \in ShareIds(top, c)}
      <3>1. InState(load, "DONE") \subseteq ShareIds(top, c)
        BY <2>2 DEF InState
      <3> QED
        BY <2>5, <3>1
    <2>7. landed[c][r] = UNION {MovesOf(top, c, i) : i \in InState(load, "DONE")}
      BY <1>5, <1>6, <1>7 DEF IInv, Landed
    <2>8. UNION {MovesOf(top, c, i) : i \in ShareIds(top, c)} =
             IF top.heads = 0 THEN {<<0, 0>>} ELSE {<<h, c * local + h>> : h \in 0..(local - 1)}
      BY <1>1, <1>6, <1>8, MovesCover
    <2> QED
      BY <2>6, <2>7, <2>8
  <1> QED
    BY <1>3, <1>4, <1>5, <1>7, <1>8

(* When every rank has loaded and all notifications are taken, those that  *)
(* were counted are all the readers there are.                             *)
LEMMA AllReadersCounted == IInv => ReadIsReleased
  <1> SUFFICES ASSUME IInv, NEW r \in Reqs, NEW p \in Producers(top),
                      \A c \in Consumers(top) :
                         consumer[c].load[r].pc = "over" /\ ~consumer[c].load[r].failed,
                      \A c \in Consumers(top) : <<p, r, c>> \notin notifs,
                      expired = {}, r \in producer[p].to_send
               PROVE  FALSE
    BY Here DEF ReadIsReleased
  <1>1. top \in Topologies
    BY DEF IInv, Types
  <1>2. ASSUME NEW c \in Consumers(top)
        PROVE  /\ ~Faulty(consumer[c].load[r])
               /\ consumer[c].load[r].unnotified = {}
               /\ \A i \in ShareIds(top, c) : consumer[c].load[r].reads[i] # "PROC"
    <2>1. PICK load : load = consumer[c].load[r]
      OBVIOUS
    <2>2. /\ LoadOK(top, c, load) /\ load.pc = "over" /\ ~load.failed
          /\ load.pc # "none" => DOMAIN load.reads = ShareIds(top, c)
      BY <1>2, <2>1, LoadFacts
    <2>3. InState(load, "PROC") = {} /\ InState(load, "ERR") = {} /\ load.unnotified = {}
      BY <2>2 DEF LoadOK
    <2> QED
      BY <2>1, <2>2, <2>3 DEF Faulty, InState
  <1>3. EndedBy(top, consumer, p, r) = Sharing(top, p)
    BY <1>2 DEF EndedBy, Ended, Sharing
  <1>4. Taken(top, consumer, notifs, p, r) = Sharing(top, p)
    BY <1>3 DEF Taken, Sharing
  <1>5. Cardinality(Taken(top, consumer, notifs, p, r)) = ReadersOf(top, p)
        /\ ReadersOf(top, p) \in Nat
    BY <1>1, <1>4, Layout
  <1>6. NoneFaulty(top, consumer, r) /\ Exactly(producer[p], r, send[r], expired)
    BY <1>2 DEF NoneFaulty, Exactly
  <1>7. NoticeOK(top, consumer, notifs, p, r, producer[p],
                 Exactly(producer[p], r, send[r], expired))
        /\ SendOK(top, p, producer[p], r, send[r])
    BY DEF IInv, Notices, Sends
  <1>8. producer[p].notified[r] = ReadersOf(top, p) /\ producer[p].notified[r] < ReadersOf(top, p)
    BY <1>5, <1>6, <1>7 DEF NoticeOK, SendOK
  <1> QED
    BY <1>5, <1>8

-----------------------------------------------------------------------------
(* The bookkeeping of both engines' workers and aggregators is consistent  *)
(* in every reachable state: posted shares, counted readers and reports    *)
(* agree with what the reads and notifications really did.                 *)
THEOREM TransferInvariant == Spec => []IInv
  <1>1. IInv /\ [Next]_vars => IInv'
    BY NextIInv
  <1> QED
    BY InitIInv, <1>1, PTL DEF Spec

(* _release and the deadline: no block is handed out again while a read of *)
(* it is in flight, unless a rank of the producer had given up waiting.    *)
THEOREM ReadsHeld == Spec => []ReadsHeldBlocks
  BY TransferInvariant, HeldWhileRead, PTL

(* get_finished and aggregate: an engine that is told a load went well     *)
(* finds its own heads there, for any two tensor-parallel sizes, and       *)
(* nothing writes to the blocks of a load once it has been told of.        *)
THEOREM ReportedLoaded == Spec => []ReportedIsLoaded
  BY TransferInvariant, LoadedIsThere, PTL

(* head_shares seen from both sides: a producer rank expects exactly the   *)
(* readers it has, so none is waited for in vain.                          *)
THEOREM ReadReleased == Spec => []ReadIsReleased
  BY TransferInvariant, AllReadersCounted, PTL

(* The safety of KVTransfer: each request is offered, held and freed, and  *)
(* asked for, loaded or failed, in that order and once.                    *)
THEOREM KeepsPromiseSafely == Spec => Promise!Init /\ [][Promise!Next]_(Promise!vars)
  <1>1. Init => Promise!Init
    BY DEF Init, Promise!Init
  <1>2. IInv /\ [Next]_vars => [Promise!Next]_(Promise!vars)
    BY NextIInv
  <1> QED
    BY TransferInvariant, <1>1, <1>2, PTL DEF Spec
=============================================================================
