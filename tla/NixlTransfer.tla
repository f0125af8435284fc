---------------------------- MODULE NixlTransfer ----------------------------
(***************************************************************************)
(* The worker half of the NIXL connector on the ranks of a producer and of *)
(* a consumer engine, and the aggregation of their reports. Every consumer *)
(* rank reads its heads from the producer ranks that hold them, in         *)
(* one-sided reads that notify the producer rank when they are done; a     *)
(* producer rank releases a request once all its readers have, or when a   *)
(* deadline passes.                                                        *)
(*                                                                         *)
(* A rank's transfer thread and the engine's step interleave; NIXL's reads *)
(* and notifications take their own time, in any order. Handshakes, block  *)
(* ids, posted reads and reads in flight may each fail.                    *)
(***************************************************************************)
EXTENDS Integers, Sequences, SequencesExt, FiniteSetsExt, TLC

CONSTANTS
    Reqs,        \* requests handed over
    Topologies   \* tensor-parallel sizes, heads (0: latents), requests in use; faults bounded by one flag

ASSUME TopologyAssumption ==
    \A t \in Topologies :
        /\ t.ptp \in Nat \ {0} /\ t.ctp \in Nat \ {0} /\ t.reqs \subseteq Reqs /\ t.faulty \in BOOLEAN
        /\ t.heads \in Nat /\ t.heads % t.ptp = 0 /\ t.heads % t.ctp = 0

VARIABLES
    top,        \* the topology, fixed
    send,       \* the producer engine's view of each request
    producer,   \* producer ranks: sends waiting, notifications counted, reports
    sent,       \* the producer's KVOutputAggregator
    recv,       \* the consumer engine's view of each request
    waiting,    \* loads the consumer's scheduler has yet to pass on, and what they read
    consumer,   \* consumer ranks: queue, loads, known producer ranks, reports
    recved,     \* the consumer's KVOutputAggregator
    notifs,     \* notifications on their way, as <<producer rank, request, consumer rank>>
    landed,     \* what each consumer rank's blocks hold: <<local head, global head>>
    expired     \* requests some producer rank gave up waiting for

vars == <<top, send, producer, sent, recv, waiting, consumer, recved, notifs, landed, expired>>

PRanks == 0..(top.ptp - 1)
CRanks == 0..(top.ctp - 1)

-----------------------------------------------------------------------------
CeilDiv(a, b) == (a + b - 1) \div b

(* Each remote rank that holds some of this rank's heads, and which. *)
HeadShares(rank, tp, remote_tp, heads) ==
    LET local == heads \div tp
        remote == heads \div remote_tp
        start == rank * local
        end == start + local
        Share(q) ==
            LET first == Max({start, q * remote})
            IN  [rank |-> q, remote_head |-> first - q * remote, local_head |-> first - start,
                 num_heads |-> Min({end, (q + 1) * remote}) - first]
        q0 == start \div remote
    IN  [i \in 1..(CeilDiv(end, remote) - q0) |-> Share(q0 + i - 1)]

(* Heads to split over both sides' ranks; for latents, just enough to say  *)
(* which producer ranks a consumer rank stands for.                        *)
Heads == IF top.heads # 0 THEN top.heads
         ELSE CHOOSE n \in 1..(top.ptp * top.ctp) :
                 /\ n % top.ptp = 0 /\ n % top.ctp = 0
                 /\ \A k \in 1..(n - 1) : k % top.ptp # 0 \/ k % top.ctp # 0

Shares(c) == HeadShares(c, top.ctp, top.ptp, Heads)
Readers(p) == Len(HeadShares(p, top.ptp, top.ctp, Heads))

(* block_descs, as heads: what a read of share i moves, where to and from. *)
(* Latents come whole from the first producer rank.                        *)
Moves(c, i) ==
    LET share == Shares(c)[i]
        first == share.rank * (Heads \div top.ptp) + share.remote_head
    IN  IF top.heads # 0
        THEN {<<share.local_head + k, first + k>> : k \in 0..(share.num_heads - 1)}
        ELSE IF i = 1 THEN {<<0, 0>>} ELSE {}

-----------------------------------------------------------------------------
NoLoad == [pc |-> "none", next |-> 1, reads |-> << >>, unnotified |-> {}, failed |-> FALSE]

Init ==
    /\ top \in Topologies
    /\ send = [r \in Reqs |-> "none"] /\ recv = [r \in Reqs |-> "none"]
    /\ producer = [p \in PRanks |->
                     [to_send |-> {}, due |-> {}, notified |-> [r \in Reqs |-> 0],
                      finished |-> {}]]
    /\ consumer = [c \in CRanks |->
                     [queue |-> << >>, load |-> [r \in Reqs |-> NoLoad], known |-> {},
                      finished |-> {}, failed |-> {}]]
    /\ sent = [r \in Reqs |-> 0]
    /\ recved = [count |-> [r \in Reqs |-> 0], failed |-> {}]
    /\ waiting = << >> /\ notifs = {}
    /\ landed = [c \in CRanks |-> [r \in Reqs |-> {}]]
    /\ expired = {}

-----------------------------------------------------------------------------
(* request_finished: the blocks are held, and the reply that names them    *)
(* may reach the other engine before this one's workers hear of them.      *)
RequestFinished(r) ==
    /\ r \in top.reqs /\ send[r] = "none"
    /\ send' = [send EXCEPT ![r] = "queued"]
    /\ UNCHANGED <<top, producer, sent, recv, waiting, consumer, recved, notifs, landed, expired>>

(* Bound: without faults, a consumer asks before the deadline or never. *)
InTime(r) == top.faulty \/ (r \notin expired /\ \A p \in PRanks : r \notin producer[p].due)

(* update_state_after_alloc: the load is queued. With every block cached   *)
(* locally there is nothing to read, but the producer is waiting still.    *)
UpdateStateAfterAlloc(r) ==
    /\ send[r] # "none" /\ recv[r] = "none" /\ InTime(r)
    /\ recv' = [recv EXCEPT ![r] = "queued"]
    /\ \E reads \in BOOLEAN : waiting' = Append(waiting, [req |-> r, reads |-> reads])
    /\ UNCHANGED <<top, send, producer, sent, consumer, recved, notifs, landed, expired>>

-----------------------------------------------------------------------------
(* _release *)
Release(w, S) ==
    [w EXCEPT !.to_send = @ \ S, !.due = @ \ S, !.finished = @ \cup S,
              !.notified = [r \in Reqs |-> IF r \in S THEN 0 ELSE @[r]]]

(* Fault: only a notification releases, and it may have come before. *)
StartSendsLate(w, p, S) == [w EXCEPT !.to_send = @ \cup S, !.due = @ \ S]

(* start_load_kv, sends: reads may have finished before the hand-over. *)
StartSends(w, p, S) ==
    LET started == [w EXCEPT !.to_send = @ \cup S, !.due = @ \ S]
    IN  Release(started, {r \in S : started.notified[r] >= Readers(p)})

(* Fault: a send waits for its readers for ever. *)
ExpiredNever(w) == {}

(* get_finished: sends past their deadline are released, notifications     *)
(* that belong to no send are forgotten, and the reports are taken.        *)
Expired(w) == w.to_send \cap w.due
GetFinished(w) ==
    LET kept == Release(w, Expired(w))
    IN  [kept EXCEPT !.finished = {}, !.due = {},
                     !.notified = [r \in Reqs |-> IF r \in w.due THEN 0 ELSE @[r]]]

(* Fault: a transfer is over when the first rank reports it. *)
AllReportedFirst(count, reports, ranks) ==
    {r \in Reqs : count[r] = 0 /\ \E k \in ranks : r \in reports[k]}

(* KVOutputAggregator.aggregate: what every rank has reported by now. *)
AllReported(count, reports, ranks) ==
    {r \in Reqs : count[r] + Cardinality({k \in ranks : r \in reports[k]}) = Cardinality(ranks)}

Counted(count, reports, ranks, over) ==
    [r \in Reqs |-> IF r \in over THEN 0
                    ELSE count[r] + Cardinality({k \in ranks : r \in reports[k]})]

(* A step of the producer engine: kv_connector_step on every rank. *)
ProducerStep ==
    LET queued == {r \in Reqs : send[r] = "queued"}
        w == [p \in PRanks |-> StartSends(producer[p], p, queued)]
        reports == [p \in PRanks |-> w[p].finished \cup Expired(w[p])]
        over == AllReported(sent, reports, PRanks)
    IN  /\ \E r \in Reqs : send[r] \in {"queued", "held"}
        /\ producer' = [p \in PRanks |-> GetFinished(w[p])]
        /\ sent' = Counted(sent, reports, PRanks, over)
        /\ send' = [r \in Reqs |-> IF r \in over THEN "freed"
                                   ELSE IF r \in queued THEN "held" ELSE send[r]]
        /\ expired' = expired \cup UNION {Expired(w[p]) : p \in PRanks}
        /\ UNCHANGED <<top, recv, waiting, consumer, recved, notifs, landed>>

(* The timeout passes for a send, or for an early notification. *)
Deadline(p, r) ==
    /\ top.faulty \/ recv[r] = "none"
    /\ r \in producer[p].to_send \/ producer[p].notified[r] > 0
    /\ r \notin producer[p].due
    /\ producer' = [producer EXCEPT ![p].due = @ \cup {r}]
    /\ UNCHANGED <<top, send, sent, recv, waiting, consumer, recved, notifs, landed, expired>>

(* _take_notifications, on the rank's transfer thread, and _release_if_read. *)
TakeNotification(p) ==
    \E m \in notifs :
        /\ m[1] = p
        /\ notifs' = notifs \ {m}
        /\ LET w == [producer[p] EXCEPT !.notified[m[2]] = @ + 1]
               read == m[2] \in w.to_send /\ w.notified[m[2]] >= Readers(p)
           IN  producer' = [producer EXCEPT ![p] = IF read THEN Release(w, {m[2]}) ELSE w]
        /\ UNCHANGED <<top, send, sent, recv, waiting, consumer, recved, landed, expired>>

-----------------------------------------------------------------------------
(* A step of the consumer engine: loads go to every rank's thread, and     *)
(* what all ranks have ended is over; it failed if any rank's did.         *)
ConsumerStep ==
    LET reports == [c \in CRanks |-> consumer[c].finished \cup consumer[c].failed]
        over == AllReported(recved.count, reports, CRanks)
        failed == recved.failed \cup UNION {consumer[c].failed : c \in CRanks}
    IN  /\ \E r \in Reqs : recv[r] \in {"queued", "loading"}
        /\ consumer' = [c \in CRanks |-> [consumer[c] EXCEPT !.queue = @ \o waiting,
                                                             !.finished = {}, !.failed = {}]]
        /\ recved' = [count |-> Counted(recved.count, reports, CRanks, over),
                      failed |-> failed \ over]
        /\ recv' = [r \in Reqs |-> IF r \in over \cap failed THEN "failed"
                                   ELSE IF r \in over THEN "loaded"
                                   ELSE IF recv[r] = "queued" THEN "loading" ELSE recv[r]]
        /\ waiting' = << >>
        /\ UNCHANGED <<top, send, producer, sent, notifs, landed, expired>>

(* _fail: ranks no read reached are notified, where their agent is known,  *)
(* as far as that works.                                                   *)
Fail(c, r, load, known) ==
    /\ consumer' = [consumer EXCEPT ![c].load[r] = [load EXCEPT !.failed = TRUE, !.unnotified = {}],
                                    ![c].known = known]
    /\ \E told \in SUBSET {<<p, r, c>> : p \in load.unnotified \cap known} :
          notifs' = notifs \cup told

Posting(c) == {r \in Reqs : consumer[c].load[r].pc = "posting"}

(* _start, up to the first share. *)
Start(c) ==
    /\ Posting(c) = {} /\ consumer[c].queue # << >>
    /\ LET item == Head(consumer[c].queue)
       IN  consumer' = [consumer EXCEPT
              ![c].queue = Tail(@),
              ![c].load[item.req] = [pc |-> "posting", next |-> 1,
                  reads |-> [i \in DOMAIN Shares(c) |->
                                IF item.reads /\ Moves(c, i) # {} THEN "todo" ELSE "notify"],
                  unnotified |-> {Shares(c)[i].rank : i \in DOMAIN Shares(c)},
                  failed |-> FALSE]]
    /\ UNCHANGED <<top, send, producer, sent, recv, waiting, recved, notifs, landed, expired>>

(* _start, one share: the producer rank answers the handshake, if it has   *)
(* not before, the read is posted, or with nothing to read the             *)
(* notification sent alone. Any of it may fail, which ends the posting.    *)
(* The producer is one engine throughout: _handshake's other branch, for a *)
(* known address with another engine behind it, is never taken.            *)
PostShare(c, r) ==
    LET w == consumer[c]
        load == w.load[r]
        i == load.next
        p == Shares(c)[i].rank
        last == IF i = Len(Shares(c)) THEN "polling" ELSE "posting"
        Done(read, told) ==
            /\ consumer' = [consumer EXCEPT
                  ![c].load[r] = [load EXCEPT !.next = i + 1, !.pc = last, !.reads[i] = read,
                                              !.unnotified = @ \ {p}],
                  ![c].known = @ \cup {p}]
            /\ notifs' = notifs \cup told
        Failed(read, known) ==
            top.faulty /\ Fail(c, r, [load EXCEPT !.pc = "polling", !.reads[i] = read], known)
    IN  /\ load.pc = "posting"
        /\ \/ p \notin w.known /\ Failed("none", w.known)                 \* no handshake
           \/ Failed("none", w.known \cup {p})                            \* a bad block id
           \/ load.reads[i] = "todo" /\ Failed("ERR", w.known \cup {p})   \* refused
           \/ load.reads[i] = "notify" /\ Done("none", {<<p, r, c>>})
           \/ load.reads[i] = "todo" /\ Done("PROC", {})
        /\ UNCHANGED <<top, send, producer, sent, recv, waiting, recved, landed, expired>>

(* NIXL ends a read: the data has landed and its notification is on the    *)
(* way, or it failed, and its notification may yet come.                   *)
ReadEnds(c, r) ==
    \E i \in DOMAIN consumer[c].load[r].reads :
        LET m == <<Shares(c)[i].rank, r, c>>
            data == IF send[r] = "freed" THEN {<<h[1], "stale">> : h \in Moves(c, i)} ELSE Moves(c, i)
        IN  /\ consumer[c].load[r].reads[i] = "PROC"
            /\ \/ /\ consumer' = [consumer EXCEPT ![c].load[r].reads[i] = "DONE"]
                  /\ landed' = [landed EXCEPT ![c][r] = @ \cup data]
                  /\ notifs' = notifs \cup {m}
               \/ /\ top.faulty
                  /\ consumer' = [consumer EXCEPT ![c].load[r].reads[i] = "ERR"]
                  /\ notifs' \in {notifs, notifs \cup {m}}
                  /\ UNCHANGED landed
            /\ UNCHANGED <<top, send, producer, sent, recv, waiting, recved, expired>>

InState(load, state) == {i \in DOMAIN load.reads : load.reads[i] = state}

(* Fault: a failed load is reported at once. *)
PollImpatient(c, r) ==
    LET load == consumer[c].load[r]
        failed == load.failed \/ InState(load, "ERR") # {}
    IN  /\ Posting(c) = {} /\ load.pc = "polling" /\ (failed \/ InState(load, "PROC") = {})
        /\ consumer' = IF failed
                       THEN [consumer EXCEPT ![c].load[r].pc = "over", ![c].load[r].failed = TRUE,
                                             ![c].failed = @ \cup {r}]
                       ELSE [consumer EXCEPT ![c].load[r].pc = "over", ![c].finished = @ \cup {r}]
        /\ UNCHANGED <<top, send, producer, sent, recv, waiting, recved, notifs, landed, expired>>

(* _poll, one load: over once none of its reads is in flight, which even   *)
(* a failed load waits for. Nothing is left unnotified by then.            *)
Poll(c, r) ==
    LET load == consumer[c].load[r]
        failed == load.failed \/ InState(load, "ERR") # {}
    IN  /\ Posting(c) = {} /\ load.pc = "polling" /\ InState(load, "PROC") = {}
        /\ consumer' = IF failed
                       THEN [consumer EXCEPT ![c].load[r].pc = "over", ![c].load[r].failed = TRUE,
                                             ![c].failed = @ \cup {r}]
                       ELSE [consumer EXCEPT ![c].load[r].pc = "over", ![c].finished = @ \cup {r}]
        /\ UNCHANGED <<top, send, producer, sent, recv, waiting, recved, notifs, landed, expired>>

(* The transfer threads, NIXL and the clock. *)
Transfer ==
    \/ \E p \in PRanks : TakeNotification(p) \/ \E r \in Reqs : Deadline(p, r)
    \/ \E c \in CRanks : \/ Start(c)
                         \/ \E r \in Reqs : PostShare(c, r) \/ ReadEnds(c, r) \/ Poll(c, r)

Next ==
    \/ \E r \in Reqs : RequestFinished(r) \/ UpdateStateAfterAlloc(r)
    \/ Transfer \/ ProducerStep \/ ConsumerStep

(* The engines step while a transfer is open, the transfer threads run,    *)
(* reads and notifications arrive in the end, and time passes. None of     *)
(* these can go on without end, so they need not be told apart.            *)
Fairness == WF_vars(Transfer \/ ProducerStep \/ ConsumerStep)

Spec == Init /\ [][Next]_vars /\ Fairness

-----------------------------------------------------------------------------
(* The producer's blocks are not handed out again under a read, unless     *)
(* some rank of it had given up waiting.                                   *)
ReadsHeldBlocks ==
    \A c \in CRanks, r \in Reqs :
        InState(consumer[c].load[r], "PROC") # {} => send[r] # "freed" \/ r \in expired

(* The engine is told of a load only when no read of it can write any      *)
(* more, on any rank; and if it is told that the load went well, every     *)
(* rank's heads hold what the producer computed for exactly those heads.   *)
ReportedIsLoaded ==
    \A r \in Reqs : recv[r] \in {"loaded", "failed"} => \A c \in CRanks :
        LET load == consumer[c].load[r]
            local == top.heads \div top.ctp
        IN  /\ load.pc = "over" /\ InState(load, "PROC") = {}
            /\ recv[r] = "loaded" /\ InState(load, "DONE") # {} /\ r \notin expired =>
                  landed[c][r] = IF top.heads = 0 THEN {<<0, 0>>}
                                 ELSE {<<h, c * local + h>> : h \in 0..(local - 1)}

(* Readers are counted right: when every consumer rank has loaded, no      *)
(* notification is on its way and the engine has handed the request over,  *)
(* no producer rank is still waiting for a reader, whatever the two sizes. *)
ReadIsReleased ==
    \A r \in Reqs : \A p \in PRanks :
        /\ \A c \in CRanks : consumer[c].load[r].pc = "over" /\ ~consumer[c].load[r].failed
        /\ \A c \in CRanks : <<p, r, c>> \notin notifs
        /\ \A q \in PRanks : producer[q].due = {}
        /\ expired = {}
        => r \notin producer[p].to_send

(* The connector keeps its promise to both engines. *)
Promise == INSTANCE KVTransfer
KeepsPromise == Promise!Spec
=============================================================================
