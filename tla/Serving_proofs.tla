--------------------------- MODULE Serving_proofs ---------------------------
(***************************************************************************)
(* Streams and requests are accounted for, for any set of requests and any *)
(* number of outputs. Neither property is inductive: that an output is the *)
(* next of its stream depends on all outputs still in the two queues       *)
(* between core and stream (Continues), that a final one leaves nobody in  *)
(* the engine on what the core still holds, and both on a request being    *)
(* added once (AddedOnce) and on the client knowing of a death only when   *)
(* the core is gone (Gone). All this (Linked) holds while the client and   *)
(* the core are linked; after a failed read the client is on its own, and  *)
(* less is enough (Severed).                                               *)
(***************************************************************************)
EXTENDS Serving, SequenceTheorems, TLAPS

Items == [n : Nat, end : {"more", "final", "abort", "error"}]
Batches == UNION {[S -> Items] : S \in SUBSET Reqs}

ToCore == ({"add", "abort"} \X Reqs) \cup ({"metrics"} \X {Scrape})
Outputs == {"outputs"} \X Batches
FromCore ==
    {Dead} \cup Outputs \cup ({"added"} \X Reqs \X {"ok", "refused"})
        \cup ({"metrics"} \X {Scrape})

Handlers == [Calls -> [pc : {"idle", "waiting", "reading", "closing", "done"}, read : Nat]]
LLMs == [states : SUBSET Reqs, stream : [Reqs -> Seq(Items)], dead : BOOLEAN, stopped : BOOLEAN]
Clients == [futures : [Calls -> {"none", "waiting", "ok", "refused", "failed"}],
            outputs : Seq(Outputs \cup {Dead}), error : BOOLEAN, sentinel : BOOLEAN,
            reader : BOOLEAN]
Cores == [up : BOOLEAN, live : SUBSET Reqs, made : [Reqs -> Nat]]

(* TypeOK with the types of the queues. *)
Types ==
    /\ handler \in Handlers /\ llm \in LLMs /\ client \in Clients
    /\ to_core \in Seq(ToCore) /\ from_core \in Seq(FromCore)
    /\ core \in Cores

(* A core that is known to be gone is gone, and so is all it had. *)
Gone ==
    /\ client.error \/ llm.dead \/ llm.stopped => ~core.up
    /\ \A i \in 1..Len(from_core) : from_core[i] = Dead => ~core.up
    /\ \A i \in 1..Len(client.outputs) : client.outputs[i] = Dead => client.error
    /\ \A c \in Calls : client.futures[c] = "failed" => client.error \/ llm.stopped
    /\ ~core.up => core.live = {} /\ to_core = << >>

(* Only a handler at work has a stream that is fed. *)
Tracked == \A r \in llm.states : handler[r].pc \in {"waiting", "reading", "closing"}

(* m is a batch with an output of r. *)
Carries(m, r) == m \in Outputs /\ r \in DOMAIN m[2]

(* Below, q holds the batches the client has read and p the messages of    *)
(* the output socket behind them; c is the core, s the stream of r.        *)
Untouched(r, q, p, c) ==
    /\ r \notin c.live /\ c.made[r] = 0
    /\ \A i \in 1..Len(q) : ~Carries(q[i], r)
    /\ \A i \in 1..Len(p) : ~Carries(p[i], r)

Adding(r, t) == \E i \in 1..Len(t) : t[i] = <<"add", r>>

(* A request is added once: before, the core has nothing of it. *)
AddedOnce ==
    \A r \in Reqs :
        /\ handler[r].pc = "idle" => llm.stream[r] = << >> /\ ~Adding(r, to_core)
        /\ handler[r].pc = "idle" \/ Adding(r, to_core) =>
              Untouched(r, client.outputs, from_core, core)
        /\ \A i, j \in 1..Len(to_core) :
              to_core[i] = <<"add", r>> /\ to_core[j] = <<"add", r>> => i = j

(* A request that was refused is not in the engine. *)
Refused ==
    \A r \in Reqs :
        \/ client.futures[r] = "refused"
        \/ \E i \in 1..Len(from_core) : from_core[i] = <<"added", r, "refused">>
        => r \notin core.live /\ ~Adding(r, to_core) /\ handler[r].pc # "idle"

(* m comes before k: its number is smaller and it is not the last. *)
Before(r, m, k) ==
    Carries(m, r) /\ Carries(k, r) => m[2][r].n < k[2][r].n /\ m[2][r].end = "more"

InOrder(r, q) == \A i, j \in 1..Len(q) : i < j => Before(r, q[i], q[j])

(* Some output of r on the way has number n. *)
OnTheWay(r, n, q, p) ==
    \/ \E i \in 1..Len(q) : Carries(q[i], r) /\ q[i][2][r].n = n
    \/ \E i \in 1..Len(p) : Carries(p[i], r) /\ p[i][2][r].n = n

(* The output of r in m is one the core made, and between it and the       *)
(* stream there is no gap.                                                 *)
Follows(r, m, s, q, p, c) ==
    Carries(m, r) =>
        /\ m[2][r].n > Len(s)
        /\ m[2][r].n # Len(s) + 1 => OnTheWay(r, m[2][r].n - 1, q, p)
        /\ m[2][r].end \in {"more", "final"}
        /\ c.up => m[2][r].n <= c.made[r]
        /\ r \in c.live => m[2][r].end = "more"

(* What is on the way to r's stream continues it without a gap. *)
Continuing(r, s, q, p, c) ==
    /\ \A i \in 1..Len(s) : s[i] = Item(i, "more")
    /\ InOrder(r, q) /\ InOrder(r, p)
    /\ \A i \in 1..Len(q), j \in 1..Len(p) : Before(r, q[i], p[j])
    /\ \A i \in 1..Len(q) : Follows(r, q[i], s, q, p, c)
    /\ \A i \in 1..Len(p) : Follows(r, p[i], s, q, p, c)
    /\ c.up => /\ Len(s) <= c.made[r]
               /\ c.made[r] # Len(s) => OnTheWay(r, c.made[r], q, p)

Continues ==
    \A r \in llm.states : Continuing(r, llm.stream[r], client.outputs, from_core, core)

(* An admission on its way has a reader, or an abort behind it. *)
Aborting(r, t, i) == \E j \in 1..Len(t) : i < j /\ t[j] = <<"abort", r>>

Reader ==
    /\ \A r \in core.live : r \in llm.states \/ Aborting(r, to_core, 0)
    /\ \A r \in Reqs, i \in 1..Len(to_core) :
          to_core[i] = <<"add", r>> => r \in llm.states \/ Aborting(r, to_core, i)

Faithful(s) ==
    \A i \in 1..Len(s) : /\ s[i].end \in Ends => i = Len(s)
                         /\ s[i].end \in {"more", "final"} => s[i].n = i

Streams == \A r \in Reqs : Faithful(llm.stream[r])

(* The client and the core are linked, or both know that it is over. *)
Linked ==
    /\ Types /\ Gone /\ Tracked /\ AddedOnce /\ Refused /\ Continues /\ Reader
    /\ Streams

(* The client has given the core up. It sends nothing any more, and its    *)
(* streams continue with the batches it had read, whatever the core does.  *)
Severed ==
    /\ Types /\ ~client.reader /\ (client.error \/ llm.stopped)
    /\ Tracked /\ Streams
    /\ \A r \in llm.states :
          Continuing(r, llm.stream[r], client.outputs, << >>, CoreGone)

IInv == Linked \/ Severed

-----------------------------------------------------------------------------
(* The end of an aborted stream is an item like any other. *)
LEMMA PopStateType ==
    ASSUME NEW l \in LLMs, NEW r \in Reqs
    PROVE  PopState(l, r) \in LLMs
  <1>1. Item(0, "abort") \in Items
    BY DEF Item, Items
  <1>2. Append(l.stream[r], Item(0, "abort")) \in Seq(Items)
    BY <1>1 DEF LLMs
  <1> QED
    BY <1>2 DEF PopState, LLMs

(* So is the end a failing engine gives to every stream. *)
LEMMA FailAllType ==
    ASSUME NEW l \in LLMs
    PROVE  FailAll(l) \in LLMs
  <1>1. Item(0, "error") \in Items
    BY DEF Item, Items
  <1>2. \A r \in Reqs : Append(l.stream[r], Item(0, "error")) \in Seq(Items)
    BY <1>1 DEF LLMs
  <1> QED
    BY <1>2 DEF FailAll, LLMs

(* So are the outputs of a batch. *)
LEMMA ProcessOutputsType ==
    ASSUME NEW l \in LLMs, NEW outs \in Batches
    PROVE  ProcessOutputs(l, outs) \in LLMs
  <1>1. \A r \in Reqs : r \in DOMAIN outs => Append(l.stream[r], outs[r]) \in Seq(Items)
    BY DEF LLMs, Batches
  <1> QED
    BY <1>1 DEF ProcessOutputs, LLMs

(* A client that dies is still a client. *)
LEMMA DieType ==
    ASSUME NEW c \in Clients
    PROVE  Die(c) \in Clients
  <1>1. FailPending(c.futures) \in [Calls -> {"none", "waiting", "ok", "refused", "failed"}]
    BY DEF FailPending, Clients
  <1>2. Append(c.outputs, Dead) \in Seq(Outputs \cup {Dead})
    BY DEF Clients
  <1> QED
    BY <1>1, <1>2 DEF Die, Clients

(* A handler goes to one of its program points. *)
LEMMA GotoType ==
    ASSUME handler \in Handlers, NEW c \in Calls,
           NEW pc \in {"idle", "waiting", "reading", "closing", "done"}, Goto(c, pc)
    PROVE  handler' \in Handlers
  BY DEF Goto, Handlers

(* _send puts messages of the protocol on the input socket. *)
LEMMA SendType ==
    ASSUME to_core \in Seq(ToCore), NEW c \in Clients, NEW m \in ToCore, Send(c, m)
    PROVE  client' \in Clients /\ to_core' \in Seq(ToCore)
  BY DieType DEF Send

(* AsyncLLM.abort keeps the types. *)
LEMMA EngineAbortType ==
    ASSUME Types, NEW r \in Reqs, EngineAbort(r)
    PROVE  llm' \in LLMs /\ client' \in Clients /\ to_core' \in Seq(ToCore)
  <1>1. <<"abort", r>> \in ToCore
    BY DEF ToCore
  <1> QED
    BY <1>1, PopStateType, SendType DEF EngineAbort, Types

-----------------------------------------------------------------------------
(* The queues one step apart. A message that carries nothing of r may be   *)
(* added or removed without a trace.                                       *)

(* Append, index by index. *)
LEMMA AppendFacts ==
    ASSUME NEW S, NEW q \in Seq(S), NEW m \in S
    PROVE  /\ Append(q, m) \in Seq(S) /\ Len(Append(q, m)) = Len(q) + 1
           /\ \A i \in 1..Len(q) : i \in 1..Len(q) + 1 /\ Append(q, m)[i] = q[i]
           /\ Len(q) + 1 \in 1..Len(q) + 1 /\ Append(q, m)[Len(q) + 1] = m
           /\ \A i \in 1..Len(q) + 1 : i \in 1..Len(q) \/ i = Len(q) + 1
           /\ Len(q) \in Nat
  OBVIOUS

(* Tail and Head, index by index. *)
LEMMA TailFacts ==
    ASSUME NEW S, NEW q \in Seq(S), q # << >>
    PROVE  /\ Tail(q) \in Seq(S) /\ Len(Tail(q)) = Len(q) - 1
           /\ \A i \in 1..Len(q) - 1 : i + 1 \in 1..Len(q) /\ Tail(q)[i] = q[i + 1]
           /\ \A i \in 1..Len(q) : i = 1 \/ (i - 1 \in 1..Len(q) - 1 /\ Tail(q)[i - 1] = q[i])
           /\ 1 \in 1..Len(q) /\ Head(q) = q[1] /\ Head(q) \in S
           /\ Len(q) \in Nat
  OBVIOUS

(* The notice of a death carries no output. *)
LEMMA DeadCarriesNothing == \A r : ~Carries(Dead, r)
  BY DEF Carries, Dead, Outputs

Read1 == Outputs \cup {Dead}

(* What a batch carries for r is an item. *)
LEMMA CarriedType ==
    ASSUME NEW m, NEW r, Carries(m, r)
    PROVE  m[2][r] \in Items /\ m[2][r].n \in Nat /\ r \in Reqs
  BY DEF Carries, Outputs, Batches, Items

(* An output that follows the stream still does when no more is missing. *)
LEMMA FollowsMonotone ==
    ASSUME NEW q, NEW p, NEW Q, NEW P, NEW c, NEW s, NEW r, NEW m,
           \A n : OnTheWay(r, n, q, p) => OnTheWay(r, n, Q, P)
    PROVE  Follows(r, m, s, q, p, c) => Follows(r, m, s, Q, P, c)
  BY DEF Follows

(* The client reads of a death: Continuing does not depend on it. *)
LEMMA AppendReadQuiet ==
    ASSUME NEW q \in Seq(Read1), NEW p \in Seq(FromCore), NEW c, NEW s, NEW r,
           NEW m \in Read1, ~Carries(m, r)
    PROVE  /\ Continuing(r, s, q, p, c) => Continuing(r, s, Append(q, m), p, c)
           /\ Untouched(r, q, p, c) => Untouched(r, Append(q, m), p, c)
  <1> DEFINE Q == Append(q, m)
  <1>1. /\ Len(Q) = Len(q) + 1
        /\ \A i \in 1..Len(q) : i \in 1..Len(q) + 1 /\ Q[i] = q[i]
        /\ Q[Len(q) + 1] = m
        /\ \A i \in 1..Len(q) + 1 : i \in 1..Len(q) \/ i = Len(q) + 1
    BY AppendFacts
  <1> HIDE DEF Q
  <1>2. \A i \in 1..Len(Q) : Carries(Q[i], r) => i \in 1..Len(q) /\ Q[i] = q[i]
    BY <1>1
  <1>3. \A n : OnTheWay(r, n, q, p) => OnTheWay(r, n, Q, p)
    BY <1>1 DEF OnTheWay
  <1>4. InOrder(r, q) => InOrder(r, Q)
    BY <1>2 DEF InOrder, Before
  <1>5. Continuing(r, s, q, p, c) => Continuing(r, s, Q, p, c)
    BY <1>2, <1>3, <1>4, ZenonT(60) DEF Continuing, Before, Follows
  <1>6. Untouched(r, q, p, c) => Untouched(r, Q, p, c)
    BY <1>2 DEF Untouched
  <1> QED
    BY <1>5, <1>6 DEF Q

(* The core sends something that carries nothing of r. *)
LEMMA AppendSentQuiet ==
    ASSUME NEW q \in Seq(Read1), NEW p \in Seq(FromCore), NEW c, NEW s, NEW r,
           NEW m \in FromCore, ~Carries(m, r)
    PROVE  /\ Continuing(r, s, q, p, c) => Continuing(r, s, q, Append(p, m), c)
           /\ Untouched(r, q, p, c) => Untouched(r, q, Append(p, m), c)
  <1> DEFINE P == Append(p, m)
  <1>1. /\ Len(P) = Len(p) + 1
        /\ \A i \in 1..Len(p) : i \in 1..Len(p) + 1 /\ P[i] = p[i]
        /\ P[Len(p) + 1] = m
        /\ \A i \in 1..Len(p) + 1 : i \in 1..Len(p) \/ i = Len(p) + 1
    BY AppendFacts
  <1> HIDE DEF P
  <1>2. \A i \in 1..Len(P) : Carries(P[i], r) => i \in 1..Len(p) /\ P[i] = p[i]
    BY <1>1
  <1>3. \A n : OnTheWay(r, n, q, p) => OnTheWay(r, n, q, P)
    BY <1>1 DEF OnTheWay
  <1>4. InOrder(r, p) => InOrder(r, P)
    BY <1>2 DEF InOrder, Before
  <1>5. Continuing(r, s, q, p, c) => Continuing(r, s, q, P, c)
    BY <1>2, <1>3, <1>4, ZenonT(60) DEF Continuing, Before, Follows
  <1>6. Untouched(r, q, p, c) => Untouched(r, q, P, c)
    BY <1>2 DEF Untouched
  <1> QED
    BY <1>5, <1>6 DEF P

(* The next message of the socket says nothing of r. *)
LEMMA DropSentQuiet ==
    ASSUME NEW q \in Seq(Read1), NEW p \in Seq(FromCore), NEW c, NEW s, NEW r,
           p # << >>, ~Carries(Head(p), r)
    PROVE  /\ Continuing(r, s, q, p, c) => Continuing(r, s, q, Tail(p), c)
           /\ Untouched(r, q, p, c) => Untouched(r, q, Tail(p), c)
  <1> DEFINE P == Tail(p)
  <1>1. /\ Len(P) = Len(p) - 1
        /\ \A i \in 1..Len(p) - 1 : i + 1 \in 1..Len(p) /\ P[i] = p[i + 1]
        /\ \A i \in 1..Len(p) : i = 1 \/ (i - 1 \in 1..Len(p) - 1 /\ P[i - 1] = p[i])
        /\ Head(p) = p[1] /\ Len(p) \in Nat
    BY TailFacts
  <1> HIDE DEF P
  <1>2. \A i \in 1..Len(P) : i + 1 \in 1..Len(p) /\ P[i] = p[i + 1]
    BY <1>1
  <1>3. \A n : OnTheWay(r, n, q, p) => OnTheWay(r, n, q, P)
    BY <1>1 DEF OnTheWay
  <1>4. InOrder(r, p) => InOrder(r, P)
    BY <1>1, <1>2 DEF InOrder
  <1>5. Continuing(r, s, q, p, c) => Continuing(r, s, q, P, c)
    <2> SUFFICES ASSUME Continuing(r, s, q, p, c) PROVE Continuing(r, s, q, P, c)
      OBVIOUS
    <2>1. \A i \in 1..Len(q), j \in 1..Len(P) : Before(r, q[i], P[j])
      BY <1>2 DEF Continuing
    <2>2. \A i \in 1..Len(q) : Follows(r, q[i], s, q, P, c)
      BY <1>3, FollowsMonotone DEF Continuing
    <2>3. \A i \in 1..Len(P) : Follows(r, P[i], s, q, P, c)
      BY <1>2, <1>3, FollowsMonotone DEF Continuing
    <2> QED
      BY <1>3, <1>4, <2>1, <2>2, <2>3 DEF Continuing
  <1>6. Untouched(r, q, p, c) => Untouched(r, q, P, c)
    BY <1>2 DEF Untouched
  <1> QED
    BY <1>5, <1>6 DEF P

(* The next message of the socket is a batch: it changes queues. *)
LEMMA MoveRead ==
    ASSUME NEW q \in Seq(Read1), NEW p \in Seq(FromCore), NEW c, NEW s, NEW r,
           p # << >>, Head(p) \in Outputs
    PROVE  /\ Continuing(r, s, q, p, c) =>
                 Continuing(r, s, Append(q, Head(p)), Tail(p), c)
           /\ Untouched(r, q, p, c) => Untouched(r, Append(q, Head(p)), Tail(p), c)
  <1> DEFINE P == Tail(p)
             Q == Append(q, Head(p))
  <1>1. /\ Len(P) = Len(p) - 1
        /\ \A i \in 1..Len(p) - 1 : i + 1 \in 1..Len(p) /\ P[i] = p[i + 1]
        /\ \A i \in 1..Len(p) : i = 1 \/ (i - 1 \in 1..Len(p) - 1 /\ P[i - 1] = p[i])
        /\ 1 \in 1..Len(p) /\ Head(p) = p[1] /\ Len(p) \in Nat
    BY TailFacts
  <1>2. /\ Len(Q) = Len(q) + 1 /\ Len(q) \in Nat
        /\ \A i \in 1..Len(q) : i \in 1..Len(q) + 1 /\ Q[i] = q[i]
        /\ Len(q) + 1 \in 1..Len(q) + 1 /\ Q[Len(q) + 1] = p[1]
        /\ \A i \in 1..Len(q) + 1 : i \in 1..Len(q) \/ i = Len(q) + 1
    BY <1>1, AppendFacts DEF Read1
  <1> HIDE DEF P, Q
  <1>3. \A i \in 1..Len(P) : i + 1 \in 1..Len(p) /\ P[i] = p[i + 1]
    BY <1>1
  <1>4. \A n : OnTheWay(r, n, q, p) => OnTheWay(r, n, Q, P)
    <2> SUFFICES ASSUME NEW n, OnTheWay(r, n, q, p) PROVE OnTheWay(r, n, Q, P)
      OBVIOUS
    <2>1. CASE \E i \in 1..Len(q) : Carries(q[i], r) /\ q[i][2][r].n = n
      BY <2>1, <1>2 DEF OnTheWay
    <2>2. CASE \E i \in 1..Len(p) : Carries(p[i], r) /\ p[i][2][r].n = n
      BY <2>2, <1>1, <1>2 DEF OnTheWay
    <2> QED
      BY <2>1, <2>2 DEF OnTheWay
  <1>5. Continuing(r, s, q, p, c) => Continuing(r, s, Q, P, c)
    <2> SUFFICES ASSUME Continuing(r, s, q, p, c) PROVE Continuing(r, s, Q, P, c)
      OBVIOUS
    <2>1. InOrder(r, P)
      BY <1>1, <1>3 DEF Continuing, InOrder
    <2>2. InOrder(r, Q)
      BY <1>1, <1>2 DEF Continuing, InOrder
    <2>3. \A i \in 1..Len(Q), j \in 1..Len(P) : Before(r, Q[i], P[j])
      BY <1>1, <1>2, <1>3 DEF Continuing, InOrder
    <2>4. \A i \in 1..Len(Q) : Follows(r, Q[i], s, Q, P, c)
      BY <1>1, <1>2, <1>4, FollowsMonotone DEF Continuing
    <2>5. \A i \in 1..Len(P) : Follows(r, P[i], s, Q, P, c)
      BY <1>3, <1>4, FollowsMonotone DEF Continuing
    <2> QED
      BY <1>4, <2>1, <2>2, <2>3, <2>4, <2>5 DEF Continuing
  <1>6. Untouched(r, q, p, c) => Untouched(r, Q, P, c)
    BY <1>1, <1>2, <1>3 DEF Untouched
  <1> QED
    BY <1>5, <1>6 DEF P, Q

(* The output handler takes a batch without r. *)
LEMMA TakeQuiet ==
    ASSUME NEW q \in Seq(Read1), NEW p \in Seq(FromCore), NEW c, NEW s, NEW r,
           q # << >>
    PROVE  /\ ~Carries(Head(q), r) /\ Continuing(r, s, q, p, c) =>
                 Continuing(r, s, Tail(q), p, c)
           /\ Untouched(r, q, p, c) => Untouched(r, Tail(q), p, c)
  <1> DEFINE Q == Tail(q)
  <1>1. /\ Len(Q) = Len(q) - 1
        /\ \A i \in 1..Len(q) - 1 : i + 1 \in 1..Len(q) /\ Q[i] = q[i + 1]
        /\ \A i \in 1..Len(q) : i = 1 \/ (i - 1 \in 1..Len(q) - 1 /\ Q[i - 1] = q[i])
        /\ Head(q) = q[1] /\ Len(q) \in Nat
    BY TailFacts
  <1> HIDE DEF Q
  <1>2. \A i \in 1..Len(Q) : i + 1 \in 1..Len(q) /\ Q[i] = q[i + 1]
    BY <1>1
  <1>3. ASSUME ~Carries(Head(q), r), Continuing(r, s, q, p, c)
        PROVE  Continuing(r, s, Q, p, c)
    <2>0. \A n : OnTheWay(r, n, q, p) => OnTheWay(r, n, Q, p)
      <3>1. \A i \in 1..Len(q) : Carries(q[i], r) =>
               i - 1 \in 1..Len(Q) /\ Q[i - 1] = q[i]
        BY <1>1, <1>3
      <3> QED
        BY <3>1 DEF OnTheWay
    <2>1. InOrder(r, Q)
      BY <1>1, <1>2, <1>3 DEF InOrder, Continuing
    <2>2. \A i \in 1..Len(Q), j \in 1..Len(p) : Before(r, Q[i], p[j])
      BY <1>2, <1>3 DEF Continuing
    <2>3. \A i \in 1..Len(Q) : Follows(r, Q[i], s, Q, p, c)
      BY <1>2, <1>3, <2>0, FollowsMonotone DEF Continuing
    <2>4. \A i \in 1..Len(p) : Follows(r, p[i], s, Q, p, c)
      BY <1>3, <2>0, FollowsMonotone DEF Continuing
    <2> QED
      BY <1>3, <2>0, <2>1, <2>2, <2>3, <2>4 DEF Continuing
  <1>4. Untouched(r, q, p, c) => Untouched(r, Q, p, c)
    BY <1>2 DEF Untouched
  <1> QED
    BY <1>3, <1>4 DEF Q

(* The output handler takes a batch with r: it is the very next of the     *)
(* stream, and unless it is the last what remains goes on from there.      *)
LEMMA TakeNext ==
    ASSUME NEW q \in Seq(Read1), NEW p \in Seq(FromCore), NEW c, NEW r,
           NEW s \in Seq(Items), q # << >>,
           Carries(Head(q), r), Continuing(r, s, q, p, c),
           c.made[r] \in Nat
    PROVE  /\ Head(q)[2][r] \in Items /\ Head(q)[2][r].n = Len(s) + 1
           /\ Head(q)[2][r].end \in {"more", "final"}
           /\ Head(q)[2][r].end = "more" =>
                 Continuing(r, Append(s, Head(q)[2][r]), Tail(q), p, c)
  <1> DEFINE Q == Tail(q)
             item == Head(q)[2][r]
             S == Append(s, item)
  <1>1. /\ Len(Q) = Len(q) - 1
        /\ \A i \in 1..Len(q) - 1 : i + 1 \in 1..Len(q) /\ Q[i] = q[i + 1]
        /\ \A i \in 1..Len(q) : i = 1 \/ (i - 1 \in 1..Len(q) - 1 /\ Q[i - 1] = q[i])
        /\ 1 \in 1..Len(q) /\ Head(q) = q[1] /\ Len(q) \in Nat
    BY TailFacts
  <1>2. item \in Items /\ item.n \in Nat
    BY CarriedType
  <1>3. Follows(r, q[1], s, q, p, c)
    BY <1>1 DEF Continuing
  <1>4. item.n = Len(s) + 1
    <2> SUFFICES ASSUME item.n # Len(s) + 1 PROVE FALSE
      OBVIOUS
    <2>1. OnTheWay(r, item.n - 1, q, p)
      BY <1>1, <1>3 DEF Follows
    <2>2. \A i \in 1..Len(q) : Carries(q[i], r) => q[i][2][r].n \in Nat /\ q[i][2][r].n >= item.n
      <3> TAKE i \in 1..Len(q)
      <3> HAVE Carries(q[i], r)
      <3>1. CASE i = 1
        BY <3>1, <1>1, <1>2
      <3>2. CASE i # 1
        <4>1. Before(r, q[1], q[i])
          BY <3>2, <1>1 DEF Continuing, InOrder
        <4> QED
          BY <4>1, <1>1, <1>2, CarriedType DEF Before
      <3> QED
        BY <3>1, <3>2
    <2>3. \A j \in 1..Len(p) : Carries(p[j], r) => p[j][2][r].n \in Nat /\ p[j][2][r].n > item.n
      <3> TAKE j \in 1..Len(p)
      <3> HAVE Carries(p[j], r)
      <3>1. Before(r, q[1], p[j])
        BY <1>1 DEF Continuing
      <3> QED
        BY <3>1, <1>1, <1>2, CarriedType DEF Before
    <2> HIDE DEF item
    <2> QED
      BY <2>1, <2>2, <2>3, <1>2 DEF OnTheWay
  <1>5. item.end \in {"more", "final"}
    BY <1>1, <1>3 DEF Follows
  <1>6. ASSUME item.end = "more" PROVE Continuing(r, S, Q, p, c)
    <2>1. Len(S) = Len(s) + 1 /\ Len(s) \in Nat
      BY <1>2
    <2>2. \A i \in 1..Len(S) : S[i] = Item(i, "more")
      <3>1. item = Item(Len(s) + 1, "more")
        BY <1>2, <1>4, <1>6 DEF Items, Item
      <3> QED
        BY <1>2, <2>1, <3>1, AppendFacts DEF Continuing
    <2>3. InOrder(r, Q)
      BY <1>1 DEF Continuing, InOrder
    <2>4. \A i \in 1..Len(Q), j \in 1..Len(p) : Before(r, Q[i], p[j])
      BY <1>1 DEF Continuing
    <2>5. \A n : n # Len(s) + 1 /\ OnTheWay(r, n, q, p) => OnTheWay(r, n, Q, p)
      <3> SUFFICES ASSUME NEW n, n # Len(s) + 1, OnTheWay(r, n, q, p)
                   PROVE  OnTheWay(r, n, Q, p)
        OBVIOUS
      <3>1. CASE \E i \in 1..Len(q) : Carries(q[i], r) /\ q[i][2][r].n = n
        <4>1. PICK i \in 1..Len(q) : Carries(q[i], r) /\ q[i][2][r].n = n
          BY <3>1
        <4>2. i # 1
          BY <4>1, <1>1, <1>4
        <4>3. i - 1 \in 1..Len(Q) /\ Q[i - 1] = q[i]
          BY <4>2, <1>1
        <4> QED
          BY <4>1, <4>3 DEF OnTheWay
      <3>2. CASE \E i \in 1..Len(p) : Carries(p[i], r) /\ p[i][2][r].n = n
        BY <3>2 DEF OnTheWay
      <3> QED
        BY <3>1, <3>2 DEF OnTheWay
    <2>6. ASSUME NEW m, Carries(m, r), Follows(r, m, s, q, p, c), Before(r, q[1], m)
          PROVE  Follows(r, m, S, Q, p, c)
      <3>1. m[2][r].n \in Nat /\ m[2][r].n > Len(s) + 1
        BY <2>6, <1>1, <1>2, <1>4, <2>1, CarriedType DEF Before
      <3>2. m[2][r].n # Len(s) + 2 => OnTheWay(r, m[2][r].n - 1, Q, p)
        BY <2>6, <2>1, <2>5, <3>1 DEF Follows
      <3> QED
        BY <2>6, <2>1, <3>1, <3>2 DEF Follows
    <2>7. \A i \in 1..Len(Q) : Follows(r, Q[i], S, Q, p, c)
      <3> TAKE i \in 1..Len(Q)
      <3>1. i + 1 \in 1..Len(q) /\ Q[i] = q[i + 1] /\ 1 < i + 1
        BY <1>1
      <3>2. Follows(r, Q[i], s, q, p, c) /\ Before(r, q[1], Q[i])
        BY <1>1, <3>1 DEF Continuing, InOrder
      <3>3. CASE Carries(Q[i], r)
        BY <3>2, <3>3, <2>6
      <3> QED
        BY <3>3 DEF Follows
    <2>8. \A i \in 1..Len(p) : Follows(r, p[i], S, Q, p, c)
      <3> TAKE i \in 1..Len(p)
      <3>2. Follows(r, p[i], s, q, p, c) /\ Before(r, q[1], p[i])
        BY <1>1 DEF Continuing
      <3>3. CASE Carries(p[i], r)
        BY <3>2, <3>3, <2>6
      <3> QED
        BY <3>3 DEF Follows
    <2>9. c.up => /\ Len(S) <= c.made[r]
                  /\ c.made[r] # Len(S) => OnTheWay(r, c.made[r], Q, p)
      <3>1. c.up => Len(s) + 1 <= c.made[r]
        BY <1>1, <1>3, <1>4 DEF Follows
      <3>2. c.up => OnTheWay(r, c.made[r], q, p)
        BY <2>1, <3>1 DEF Continuing
      <3> QED
        BY <2>1, <2>5, <3>1, <3>2
    <2> HIDE DEF Q, S
    <2> QED
      BY <2>2, <2>3, <2>4, <2>7, <2>8, <2>9 DEF Continuing
  <1> QED
    BY <1>2, <1>4, <1>5, <1>6

(* The core makes the next output of r. *)
LEMMA SendNext ==
    ASSUME NEW q \in Seq(Read1), NEW p \in Seq(FromCore), NEW c, NEW d, NEW r,
           NEW s \in Seq(Items), NEW m \in Outputs,
           Continuing(r, s, q, p, c), c.up, d.up, r \in c.live,
           c.made[r] \in Nat, d.made[r] = c.made[r] + 1,
           Carries(m, r), m[2][r].n = d.made[r], m[2][r].end \in {"more", "final"},
           r \in d.live => m[2][r].end = "more"
    PROVE  Continuing(r, s, q, Append(p, m), d)
  <1> DEFINE P == Append(p, m)
  <1>1. /\ Len(P) = Len(p) + 1 /\ Len(p) \in Nat
        /\ \A i \in 1..Len(p) : i \in 1..Len(p) + 1 /\ P[i] = p[i]
        /\ Len(p) + 1 \in 1..Len(p) + 1 /\ P[Len(p) + 1] = m
        /\ \A i \in 1..Len(p) + 1 : i \in 1..Len(p) \/ i = Len(p) + 1
    BY AppendFacts DEF FromCore
  <1> HIDE DEF P
  <1>2. Len(s) \in Nat /\ Len(s) <= c.made[r]
    BY DEF Continuing
  <1>3. \A n : OnTheWay(r, n, q, p) => OnTheWay(r, n, q, P)
    BY <1>1 DEF OnTheWay
  <1>4. OnTheWay(r, d.made[r], q, P)
    BY <1>1 DEF OnTheWay
  <1>5. ASSUME NEW k, Follows(r, k, s, q, p, c)
        PROVE  Follows(r, k, s, q, P, d) /\ Before(r, k, m)
    <2>1. CASE Carries(k, r)
      <3>1. k[2][r].n \in Nat
        BY <2>1, CarriedType
      <3>2. k[2][r].n > Len(s) /\ k[2][r].end = "more" /\ k[2][r].n <= c.made[r]
        BY <1>5, <2>1 DEF Follows
      <3>3. k[2][r].n # Len(s) + 1 => OnTheWay(r, k[2][r].n - 1, q, P)
        BY <1>3, <1>5, <2>1 DEF Follows
      <3> QED
        BY <3>1, <3>2, <3>3 DEF Follows, Before
    <2> QED
      BY <2>1 DEF Follows, Before
  <1>6. Follows(r, m, s, q, P, d)
    <2>1. c.made[r] # Len(s) => OnTheWay(r, c.made[r], q, P)
      BY <1>3 DEF Continuing
    <2>2. d.made[r] - 1 = c.made[r]
      OBVIOUS
    <2>3. m[2][r].n # Len(s) + 1 => OnTheWay(r, m[2][r].n - 1, q, P)
      BY <1>2, <2>1, <2>2
    <2> QED
      BY <1>2, <2>3 DEF Follows
  <1>7. /\ \A i \in 1..Len(q) : Follows(r, q[i], s, q, P, d) /\ Before(r, q[i], m)
        /\ \A i \in 1..Len(p) : Follows(r, p[i], s, q, P, d) /\ Before(r, p[i], m)
    BY <1>5 DEF Continuing
  <1>8. \A i \in 1..Len(P) : Follows(r, P[i], s, q, P, d)
    BY <1>1, <1>6, <1>7
  <1>9. InOrder(r, P)
    BY <1>1, <1>7 DEF InOrder, Continuing
  <1>10. \A i \in 1..Len(q), j \in 1..Len(P) : Before(r, q[i], P[j])
    BY <1>1, <1>7 DEF Continuing
  <1> QED
    BY <1>2, <1>4, <1>7, <1>8, <1>9, <1>10 DEF Continuing, P

(* The core may take r up, or let go of it, or do something else: what it  *)
(* has made of r is the same.                                              *)
LEMMA CoreChanges ==
    ASSUME NEW q, NEW p, NEW c, NEW d, NEW r, NEW s,
           d.up => c.up /\ d.made[r] = c.made[r],
           r \in d.live => r \in c.live \/ Untouched(r, q, p, c)
    PROVE  Continuing(r, s, q, p, c) => Continuing(r, s, q, p, d)
  <1> SUFFICES ASSUME Continuing(r, s, q, p, c) PROVE Continuing(r, s, q, p, d)
    OBVIOUS
  <1>1. \A i \in 1..Len(q) : Follows(r, q[i], s, q, p, d)
    BY DEF Continuing, Follows, Untouched
  <1>2. \A i \in 1..Len(p) : Follows(r, p[i], s, q, p, d)
    BY DEF Continuing, Follows, Untouched
  <1> QED
    BY <1>1, <1>2 DEF Continuing

(* The core is killed and only the first messages of its socket remain:    *)
(* no output is lost before one that arrives.                              *)
LEMMA KeepFirst ==
    ASSUME NEW q \in Seq(Read1), NEW p \in Seq(FromCore), NEW c, NEW d, NEW r,
           NEW s \in Seq(Items), NEW n \in 0..Len(p), ~d.up, r \notin d.live
    PROVE  /\ Continuing(r, s, q, p, c) => Continuing(r, s, q, SubSeq(p, 1, n), d)
           /\ Untouched(r, q, p, c) /\ d.made[r] = 0 =>
                 Untouched(r, q, SubSeq(p, 1, n), d)
  <1> DEFINE P == SubSeq(p, 1, n)
  <1>1. /\ Len(P) = n /\ n \in Nat /\ n <= Len(p) /\ Len(p) \in Nat
        /\ \A i \in 1..n : i \in 1..Len(p) /\ P[i] = p[i]
    OBVIOUS
  <1> HIDE DEF P
  <1>2. ASSUME Continuing(r, s, q, p, c) PROVE Continuing(r, s, q, P, d)
    <2>0. Len(s) \in Nat
      OBVIOUS
    <2>1. InOrder(r, P)
      BY <1>1, <1>2 DEF Continuing, InOrder
    <2>2. \A i \in 1..Len(q), j \in 1..Len(P) : Before(r, q[i], P[j])
      BY <1>1, <1>2 DEF Continuing
    <2>3. \A i \in 1..Len(q) : Follows(r, q[i], s, q, P, d)
      <3> TAKE i \in 1..Len(q)
      <3> SUFFICES ASSUME Carries(q[i], r), q[i][2][r].n # Len(s) + 1
                   PROVE  OnTheWay(r, q[i][2][r].n - 1, q, P)
        BY <1>2 DEF Continuing, Follows
      <3>1. OnTheWay(r, q[i][2][r].n - 1, q, p)
        BY <1>2 DEF Continuing, Follows
      <3>2. ASSUME NEW j \in 1..Len(p), Carries(p[j], r), p[j][2][r].n = q[i][2][r].n - 1
            PROVE  FALSE
        <4>1. Before(r, q[i], p[j])
          BY <1>2 DEF Continuing
        <4> QED
          BY <3>2, <4>1, CarriedType DEF Before
      <3> QED
        BY <3>1, <3>2 DEF OnTheWay
    <2>4. \A j \in 1..Len(P) : Follows(r, P[j], s, q, P, d)
      <3> TAKE j \in 1..Len(P)
      <3>0. j \in 1..Len(p) /\ P[j] = p[j]
        BY <1>1
      <3> SUFFICES ASSUME Carries(p[j], r), p[j][2][r].n # Len(s) + 1
                   PROVE  OnTheWay(r, p[j][2][r].n - 1, q, P)
        BY <1>2, <3>0 DEF Continuing, Follows
      <3>1. OnTheWay(r, p[j][2][r].n - 1, q, p)
        BY <1>2, <3>0 DEF Continuing, Follows
      <3>2. ASSUME NEW i \in 1..Len(p), Carries(p[i], r), p[i][2][r].n = p[j][2][r].n - 1
            PROVE  i \in 1..Len(P) /\ P[i] = p[i]
        <4>1. ~(j < i)
          <5> SUFFICES ASSUME j < i PROVE FALSE
            OBVIOUS
          <5>1. Before(r, p[j], p[i])
            BY <1>2, <3>0 DEF Continuing, InOrder
          <5> QED
            BY <3>2, <5>1, CarriedType DEF Before
        <4> QED
          BY <4>1, <1>1
      <3> QED
        BY <3>1, <3>2 DEF OnTheWay
    <2> QED
      BY <1>2, <2>1, <2>2, <2>3, <2>4 DEF Continuing
  <1>3. Untouched(r, q, p, c) /\ d.made[r] = 0 => Untouched(r, q, P, d)
    BY <1>1 DEF Untouched
  <1> QED
    BY <1>2, <1>3 DEF P

-----------------------------------------------------------------------------
(* Steps of the event loop that leave what is on the way alone. *)

(* The handlers but r's stay, and r's is past its beginning. *)
OnlyHandler(r) ==
    /\ handler' \in Handlers
    /\ \A x \in Reqs \ {r} : handler'[x] = handler[x]
    /\ handler'[r].pc # "idle"

(* The client has nothing new to hand over, but for a death. *)
NoNews ==
    /\ from_core' = from_core /\ core' = core
    /\ client'.outputs \in {client.outputs, Append(client.outputs, Dead)}

(* Streams that are fed as before continue. *)
LEMMA NoNewsContinues ==
    ASSUME Types, Continues, NoNews,
           \A r \in llm'.states : r \in llm.states /\ llm'.stream[r] = llm.stream[r]
    PROVE  Continues'
  <1>1. /\ client.outputs \in Seq(Read1) /\ from_core \in Seq(FromCore)
        /\ Dead \in Read1
    BY DEF Types, Clients, Read1
  <1>2. ASSUME NEW r \in llm'.states
        PROVE  Continuing(r, llm'.stream[r], client'.outputs, from_core', core')
    <2>1. Continuing(r, llm'.stream[r], client.outputs, from_core, core)
      BY <1>2 DEF Continues
    <2>2. Continuing(r, llm'.stream[r], Append(client.outputs, Dead), from_core, core)
      BY <1>1, <2>1, AppendReadQuiet, DeadCarriesNothing
    <2> QED
      BY <2>1, <2>2 DEF NoNews
  <1> QED
    BY <1>2 DEF Continues

(* What the core has nothing of, it still has nothing of. *)
LEMMA NoNewsUntouched ==
    ASSUME Types, NoNews, NEW r, Untouched(r, client.outputs, from_core, core)
    PROVE  Untouched(r, client'.outputs, from_core', core')
  <1>1. /\ client.outputs \in Seq(Read1) /\ from_core \in Seq(FromCore)
        /\ Dead \in Read1
    BY DEF Types, Clients, Read1
  <1>2. Untouched(r, Append(client.outputs, Dead), from_core, core)
    BY <1>1, AppendReadQuiet, DeadCarriesNothing
  <1> QED
    BY <1>2 DEF NoNews

(* A message that is no admission may join the input socket. *)
LEMMA AppendAdding ==
    ASSUME NEW t \in Seq(ToCore), NEW m \in ToCore, NEW r
    PROVE  /\ Adding(r, t) => Adding(r, Append(t, m))
           /\ m # <<"add", r>> => (Adding(r, Append(t, m)) => Adding(r, t))
           /\ \A i : Aborting(r, t, i) => Aborting(r, Append(t, m), i)
           /\ \A i \in 0..Len(t) : m = <<"abort", r>> => Aborting(r, Append(t, m), i)
  <1>1. /\ Len(Append(t, m)) = Len(t) + 1 /\ Len(t) \in Nat
        /\ \A i \in 1..Len(t) : i \in 1..Len(t) + 1 /\ Append(t, m)[i] = t[i]
        /\ Len(t) + 1 \in 1..Len(t) + 1 /\ Append(t, m)[Len(t) + 1] = m
        /\ \A i \in 1..Len(t) + 1 : i \in 1..Len(t) \/ i = Len(t) + 1
    BY AppendFacts
  <1>2. Adding(r, t) => Adding(r, Append(t, m))
    BY <1>1 DEF Adding
  <1>3. m # <<"add", r>> => (Adding(r, Append(t, m)) => Adding(r, t))
    BY <1>1 DEF Adding
  <1>4. \A i : Aborting(r, t, i) => Aborting(r, Append(t, m), i)
    BY <1>1 DEF Aborting
  <1>5. \A i \in 0..Len(t) : m = <<"abort", r>> => Aborting(r, Append(t, m), i)
    <2>1. \A i \in 0..Len(t) : i < Len(t) + 1
      BY <1>1
    <2> QED
      BY <1>1, <2>1 DEF Aborting
  <1> QED
    BY <1>2, <1>3, <1>4, <1>5

(* A stream of outputs that were not the last takes the next one, or an end. *)
LEMMA FaithfulAppend ==
    ASSUME NEW s \in Seq(Items), NEW item \in Items,
           \A i \in 1..Len(s) : s[i] = Item(i, "more"),
           item.end \in {"more", "final"} => item.n = Len(s) + 1
    PROVE  Faithful(Append(s, item))
  <1>1. /\ Len(Append(s, item)) = Len(s) + 1 /\ Len(s) \in Nat
        /\ \A i \in 1..Len(s) : Append(s, item)[i] = Item(i, "more")
        /\ Append(s, item)[Len(s) + 1] = item
    BY AppendFacts
  <1>2. \A i : Item(i, "more").n = i /\ Item(i, "more").end = "more"
    BY DEF Item
  <1> QED
    BY <1>1, <1>2 DEF Faithful, Ends

(* OutputProcessor.abort_request ends a stream that was still being fed,   *)
(* and only that one.                                                      *)
LEMMA PopStateStreams ==
    ASSUME Types, Continues \/ Severed, Streams, NEW r \in Reqs, llm' = PopState(llm, r)
    PROVE  /\ llm' \in LLMs /\ Streams'
           /\ llm'.dead = llm.dead /\ llm'.stopped = llm.stopped
           /\ llm'.states = llm.states \ {r}
           /\ \A x \in Reqs \ {r} : llm'.stream[x] = llm.stream[x]
  <1>1. llm' \in LLMs
    BY PopStateType DEF Types
  <1>2. /\ llm'.dead = llm.dead /\ llm'.stopped = llm.stopped
        /\ llm'.states = llm.states \ {r}
        /\ \A x \in Reqs \ {r} : llm'.stream[x] = llm.stream[x]
    BY DEF PopState, Types, LLMs
  <1>3. Faithful(llm'.stream[r])
    <2>1. CASE r \notin llm.states
      BY <2>1 DEF PopState, Streams
    <2>2. CASE r \in llm.states
      <3>1. llm'.stream[r] = Append(llm.stream[r], Item(0, "abort"))
        BY <2>2 DEF PopState, Types, LLMs
      <3>2. Item(0, "abort") \in Items /\ Item(0, "abort").end = "abort"
        BY DEF Item, Items
      <3>3. llm.stream[r] \in Seq(Items)
        BY DEF Types, LLMs
      <3>4. \A i \in 1..Len(llm.stream[r]) : llm.stream[r][i] = Item(i, "more")
        BY <2>2 DEF Continues, Severed, Continuing
      <3> QED
        BY <3>1, <3>2, <3>3, <3>4, FaithfulAppend
    <2> QED
      BY <2>1, <2>2
  <1>4. Streams'
    BY <1>2, <1>3 DEF Streams
  <1> QED
    BY <1>1, <1>2, <1>4

(* The handlers of others, and what they wait for, are as before. *)
LEMMA OthersWait ==
    ASSUME Linked, NEW r \in Reqs, OnlyHandler(r), NoNews,
           \A x \in Reqs : Adding(x, to_core') => Adding(x, to_core),
           \A x \in Reqs \ {r} : llm'.stream[x] = llm.stream[x],
           \A x \in Reqs : \A i, j \in 1..Len(to_core') :
              to_core'[i] = <<"add", x>> /\ to_core'[j] = <<"add", x>> => i = j
    PROVE  AddedOnce'
  <1>1. ASSUME NEW x \in Reqs, handler'[x].pc = "idle"
        PROVE  llm'.stream[x] = << >> /\ ~Adding(x, to_core')
    BY <1>1 DEF OnlyHandler, Linked, AddedOnce
  <1>2. ASSUME NEW x \in Reqs, handler'[x].pc = "idle" \/ Adding(x, to_core')
        PROVE  Untouched(x, client'.outputs, from_core', core')
    <2>1. Untouched(x, client.outputs, from_core, core)
      BY <1>2 DEF OnlyHandler, Linked, AddedOnce
    <2> QED
      BY <2>1, NoNewsUntouched DEF Linked
  <1> QED
    BY <1>1, <1>2 DEF AddedOnce

(* What AsyncLLM.abort does for a request whose handler has begun, and     *)
(* stays at work only if it is "closing".                                  *)
LEMMA AbortStep ==
    ASSUME Linked, NEW r \in Reqs, EngineAbort(r), OnlyHandler(r), UNCHANGED <<from_core, core>>
    PROVE  Linked'
  <1> USE DEF Linked
  <1>1. /\ llm' \in LLMs /\ Streams'
        /\ llm'.dead = llm.dead /\ llm'.stopped = llm.stopped
        /\ llm'.states = llm.states \ {r}
        /\ \A x \in Reqs \ {r} : llm'.stream[x] = llm.stream[x]
    BY PopStateStreams DEF EngineAbort
  <1>2. Types'
    BY EngineAbortType DEF Types, OnlyHandler
  <1>3. \/ to_core' = to_core
        \/ core.up /\ to_core' = Append(to_core, <<"abort", r>>)
    BY DEF EngineAbort, Send
  <1>4. client' = client \/ (~core.up /\ client' = Die(client))
    BY DEF EngineAbort, Send
  <1>5. core.up => to_core' = Append(to_core, <<"abort", r>>)
    BY DEF EngineAbort, Send, Gone
  <1>6. /\ to_core \in Seq(ToCore) /\ <<"abort", r>> \in ToCore
        /\ Len(to_core) \in Nat
    BY DEF Types, ToCore
  <1>7. NoNews
    BY <1>4 DEF NoNews, Die, Types, Clients
  <1>8. Continues'
    <2>1. \A x \in llm'.states : x \in llm.states /\ llm'.stream[x] = llm.stream[x]
      BY <1>1 DEF Types, LLMs
    <2> QED
      BY <1>7, <2>1, NoNewsContinues
  <1>9. /\ \A x \in Reqs : Adding(x, to_core') => Adding(x, to_core)
        /\ \A x \in Reqs, i \in 1..Len(to_core') : to_core'[i] = <<"add", x>> =>
              i \in 1..Len(to_core) /\ to_core[i] = <<"add", x>>
    <2>1. \A x \in Reqs : <<"abort", r>> # <<"add", x>>
      OBVIOUS
    <2>2. /\ Len(Append(to_core, <<"abort", r>>)) = Len(to_core) + 1
          /\ \A i \in 1..Len(to_core) : Append(to_core, <<"abort", r>>)[i] = to_core[i]
          /\ Append(to_core, <<"abort", r>>)[Len(to_core) + 1] = <<"abort", r>>
          /\ \A i \in 1..Len(to_core) + 1 : i \in 1..Len(to_core) \/ i = Len(to_core) + 1
      BY <1>6, AppendFacts
    <2>3. \A x \in Reqs, i \in 1..Len(to_core') : to_core'[i] = <<"add", x>> =>
              i \in 1..Len(to_core) /\ to_core[i] = <<"add", x>>
      BY <1>3, <2>1, <2>2
    <2> QED
      BY <2>3 DEF Adding
  <1>10. AddedOnce'
    <2>1. \A x \in Reqs : \A i, j \in 1..Len(to_core') :
              to_core'[i] = <<"add", x>> /\ to_core'[j] = <<"add", x>> => i = j
      BY <1>9 DEF AddedOnce
    <2> QED
      BY <1>1, <1>7, <1>9, <2>1, OthersWait
  <1>11. \A x \in Calls : client'.futures[x] \in {client.futures[x], "failed"}
    <2>1. client'.futures \in {client.futures, FailPending(client.futures)}
      BY <1>4 DEF Die, Types, Clients
    <2> QED
      BY <2>1 DEF FailPending
  <1>12. Refused'
    <2>1. \A x \in Reqs : client'.futures[x] = "refused" => client.futures[x] = "refused"
      BY <1>11 DEF Calls
    <2>2. \A x \in Reqs : handler[x].pc # "idle" => handler'[x].pc # "idle"
      BY DEF OnlyHandler
    <2> QED
      BY <1>9, <2>1, <2>2 DEF Refused
  <1>13. Tracked'
    BY <1>1 DEF Tracked, OnlyHandler, Types, LLMs
  <1>14. Reader'
    <2>1. CASE core.up
      <3>1. \A x \in Reqs, i \in 0..Len(to_core) :
               Aborting(x, to_core, i) \/ x = r => Aborting(x, to_core', i)
        BY <1>5, <1>6, <2>1, AppendAdding
      <3>2. core.live \subseteq Reqs
        BY DEF Types, Cores
      <3>3. \A x \in core'.live : x \in llm'.states \/ Aborting(x, to_core', 0)
        BY <1>1, <1>6, <3>1, <3>2 DEF Reader
      <3>4. \A x \in Reqs, i \in 1..Len(to_core') : to_core'[i] = <<"add", x>> =>
               x \in llm'.states \/ Aborting(x, to_core', i)
        BY <1>1, <1>6, <1>9, <3>1 DEF Reader
      <3> QED
        BY <3>3, <3>4 DEF Reader
    <2>2. CASE ~core.up
      BY <2>2, <1>3 DEF Gone, Reader
    <2> QED
      BY <2>1, <2>2
  <1>15. Gone'
    <2>1. /\ client'.error \/ llm'.dead \/ llm'.stopped => ~core'.up
          /\ ~core'.up => core'.live = {} /\ to_core' = << >>
      BY <1>1, <1>3, <1>4 DEF Gone
    <2>2. \A c \in Calls : client'.futures[c] = "failed" => client'.error \/ llm'.stopped
      BY <1>1, <1>4 DEF Gone, Die, Types, Clients
    <2>3. \A i \in 1..Len(client'.outputs) : client'.outputs[i] = Dead => client'.error
      <3>1. CASE client' = client
        BY <3>1 DEF Gone
      <3>2. CASE client' = Die(client)
        BY <3>2 DEF Die, Types, Clients
      <3> QED
        BY <1>4, <3>1, <3>2
    <2> QED
      BY <2>1, <2>2, <2>3 DEF Gone
  <1> QED
    BY <1>1, <1>2, <1>8, <1>10, <1>12, <1>13, <1>14, <1>15

(* A handler moves on alone, perhaps ending its stream: nobody else hears  *)
(* of it. Whoever leaves a stream has no admission out.                    *)
LEMMA LocalStep ==
    ASSUME Linked, NEW r \in Reqs, OnlyHandler(r),
           UNCHANGED <<client, to_core, from_core, core>>,
           \/ llm' = llm
           \/ llm' = PopState(llm, r) /\ r \notin core.live /\ ~Adding(r, to_core),
           r \in llm'.states => handler'[r].pc \in {"waiting", "reading", "closing"}
    PROVE  Linked'
  <1> USE DEF Linked
  <1>1. /\ llm' \in LLMs /\ Streams'
        /\ llm'.dead = llm.dead /\ llm'.stopped = llm.stopped
        /\ llm'.states \in {llm.states, llm.states \ {r}}
        /\ \A x \in llm'.states : llm'.stream[x] = llm.stream[x]
        /\ \A x \in Reqs \ {r} : llm'.stream[x] = llm.stream[x]
    <2>1. CASE llm' = llm
      BY <2>1 DEF Streams, Types
    <2>2. CASE llm' = PopState(llm, r)
      <3>1. llm.states \subseteq Reqs
        BY DEF Types, LLMs
      <3> QED
        BY <2>2, <3>1, PopStateStreams
    <2> QED
      BY <2>1, <2>2
  <1>2. Types'
    BY <1>1 DEF Types, OnlyHandler
  <1>3. NoNews
    BY DEF NoNews
  <1>4. Continues'
    BY <1>1, <1>3, NoNewsContinues
  <1>5. AddedOnce'
    BY <1>1, <1>3, OthersWait DEF AddedOnce
  <1>6. Refused'
    BY DEF Refused, OnlyHandler
  <1>7. Tracked'
    BY <1>1 DEF Tracked, OnlyHandler, Types, LLMs
  <1>8. Reader'
    <2>1. \A x \in core.live : x \in llm'.states \/ Aborting(x, to_core, 0)
      BY <1>1 DEF Reader
    <2>2. \A x \in Reqs, i \in 1..Len(to_core) : to_core[i] = <<"add", x>> =>
             x \in llm'.states \/ Aborting(x, to_core, i)
      BY <1>1, PopStateStreams DEF Reader, Adding
    <2> QED
      BY <2>1, <2>2 DEF Reader
  <1>9. Gone'
    BY <1>1 DEF Gone
  <1> QED
    BY <1>1, <1>2, <1>4, <1>5, <1>6, <1>7, <1>8, <1>9

(* A handler goes on: the others stay. *)
LEMMA GotoHandler ==
    ASSUME Types, NEW r \in Reqs,
           NEW pc \in {"waiting", "reading", "closing", "done"}, Goto(r, pc)
    PROVE  OnlyHandler(r) /\ handler'[r].pc = pc
  <1>1. r \in Calls
    BY DEF Calls
  <1>2. handler' \in Handlers
    BY <1>1, GotoType DEF Types
  <1>3. handler'[r].pc = pc /\ \A x \in Reqs \ {r} : handler'[x] = handler[x]
    BY <1>1 DEF Goto, Types, Handlers, Calls
  <1> QED
    BY <1>2, <1>3 DEF OnlyHandler

(* add_request resumes: a request that was refused, or whose core is gone, *)
(* is not in the engine when its stream is dropped.                        *)
LEMMA AddReturnsStep ==
    ASSUME Linked, NEW r \in Reqs, AddReturns(r)
    PROVE  Linked'
  <1> USE DEF Linked
  <1>1. CASE client.futures[r] = "ok" /\ Goto(r, "reading") /\ UNCHANGED llm
    <2>1. OnlyHandler(r) /\ handler'[r].pc = "reading"
      BY <1>1, GotoHandler DEF AddReturns
    <2> QED
      BY <1>1, <2>1, LocalStep DEF AddReturns
  <1>2. CASE client.futures[r] \in {"refused", "failed"} /\ Goto(r, "done") /\ llm' = PopState(llm, r)
    <2>1. OnlyHandler(r) /\ handler'[r].pc = "done"
      BY <1>2, GotoHandler DEF AddReturns
    <2>2. r \notin llm'.states
      BY <1>2, PopStateStreams
    <2>3. r \notin core.live /\ ~Adding(r, to_core)
      <3>1. CASE client.futures[r] = "refused"
        BY <3>1 DEF Refused
      <3>2. CASE client.futures[r] = "failed"
        <4>1. core.live = {} /\ to_core = << >>
          BY <3>2 DEF Gone, Calls
        <4> QED
          BY <4>1 DEF Adding
      <3> QED
        BY <1>2, <3>1, <3>2
    <2> QED
      BY <1>2, <2>1, <2>2, <2>3, LocalStep DEF AddReturns
  <1> QED
    BY <1>1, <1>2 DEF AddReturns

(* A cancelled admission sends an abort behind the add. *)
LEMMA CancelAddStep ==
    ASSUME Linked, NEW r \in Reqs, CancelAdd(r)
    PROVE  Linked'
  <1>1. OnlyHandler(r)
    BY GotoHandler DEF CancelAdd, Linked
  <1> QED
    BY <1>1, AbortStep DEF CancelAdd

(* The abort after a stream. *)
LEMMA CloseStep ==
    ASSUME Linked, NEW r \in Reqs, Close(r)
    PROVE  Linked'
  <1>1. OnlyHandler(r)
    BY GotoHandler DEF Close, Linked
  <1> QED
    BY <1>1, AbortStep DEF Close

(* The client of a stream leaves. *)
LEMMA DisconnectStep ==
    ASSUME Linked, NEW r \in Reqs, Disconnect(r)
    PROVE  Linked'
  <1>1. OnlyHandler(r) /\ handler'[r].pc = "closing"
    BY GotoHandler DEF Disconnect, Linked
  <1>2. CASE EngineAbort(r)
    BY <1>1, <1>2, AbortStep DEF Disconnect
  <1>3. CASE UNCHANGED <<llm, client, to_core>>
    BY <1>1, <1>3, LocalStep DEF Disconnect
  <1> QED
    BY <1>2, <1>3 DEF Disconnect

(* A stream that has ended is not fed any more, so leaving it leaves       *)
(* nothing tracked.                                                        *)
LEMMA ReadStep ==
    ASSUME Linked, NEW r \in Reqs, Read(r)
    PROVE  Linked'
  <1> USE DEF Linked
  <1> DEFINE item == llm.stream[r][handler[r].read + 1]
             last == IF r \in Streaming THEN "closing" ELSE "done"
  <1>1. last \in {"closing", "done"} /\ handler[r].pc = "reading"
    BY DEF Read
  <1>2. CASE item.end = "more" /\ handler' = [handler EXCEPT ![r].read = @ + 1]
             /\ UNCHANGED <<llm, client, to_core>>
    <2>1. r \in Calls
      BY DEF Calls
    <2>2. OnlyHandler(r) /\ handler'[r].pc = "reading"
      BY <1>1, <1>2, <2>1 DEF OnlyHandler, Types, Handlers, Calls
    <2> QED
      BY <1>2, <2>2, LocalStep DEF Read
  <1>3. CASE Goto(r, last) /\ EngineAbort(r)
    <2>1. OnlyHandler(r)
      BY <1>1, <1>3, GotoHandler
    <2> QED
      BY <1>3, <2>1, AbortStep DEF Read
  <1>4. CASE item.end \in Ends /\ Goto(r, last) /\ UNCHANGED <<llm, client, to_core>>
    <2>1. OnlyHandler(r)
      BY <1>1, <1>4, GotoHandler
    <2>2. r \notin llm.states
      <3> SUFFICES ASSUME r \in llm.states PROVE FALSE
        OBVIOUS
      <3>1. handler[r].read + 1 \in 1..Len(llm.stream[r])
        BY DEF Read, Types, Handlers, LLMs, Calls
      <3>2. item = Item(handler[r].read + 1, "more")
        BY <3>1 DEF Continues, Continuing
      <3> QED
        BY <1>4, <3>2 DEF Item, Ends
    <2> QED
      BY <1>4, <2>1, <2>2, LocalStep DEF Read
  <1> QED
    BY <1>2, <1>3, <1>4 DEF Read

(* Nothing is on the way to a new stream. *)
LEMMA UntouchedContinuing ==
    ASSUME NEW r, NEW q, NEW p, NEW c, Untouched(r, q, p, c)
    PROVE  Continuing(r, << >>, q, p, c)
  <1>1. Len(<< >>) = 0
    OBVIOUS
  <1>2. \A i \in 1..Len(<< >>) : FALSE
    BY <1>1
  <1> QED
    BY <1>1, <1>2 DEF Untouched, Continuing, InOrder, Before, Follows

(* Sending to a core that is gone may reveal it, and that is all. *)
LEMMA SendEffect ==
    ASSUME NEW c \in Clients, NEW m \in ToCore, Send(c, m), Types
    PROVE  /\ client'.outputs \in {c.outputs, Append(c.outputs, Dead)}
           /\ client'.error # c.error => ~core.up
           /\ c.error => client'.error
           /\ client'.outputs # c.outputs => client'.error
           /\ \A x \in Calls : client'.futures[x] # c.futures[x] =>
                 client'.futures[x] = "failed" /\ client'.error
           /\ core.up => to_core' = Append(to_core, m)
           /\ ~core.up => to_core' = to_core
  <1>1. client' = c \/ (~core.up /\ client' = Die(c))
    BY DEF Send
  <1>2. Die(c).futures \in {c.futures, FailPending(c.futures)}
    BY DEF Die, Clients
  <1>3. \A x \in Calls : FailPending(c.futures)[x] # c.futures[x] =>
           FailPending(c.futures)[x] = "failed"
    BY DEF FailPending
  <1>4. Die(c).error /\ Die(c).outputs \in {c.outputs, Append(c.outputs, Dead)}
    BY DEF Die, Clients
  <1>5. core.up => to_core' = Append(to_core, m)
    BY DEF Send
  <1>6. ~core.up => to_core' = to_core
    BY DEF Send
  <1> QED
    BY <1>1, <1>2, <1>3, <1>4, <1>5, <1>6

(* add_request up to its await: the stream is registered before the add is *)
(* on the socket.                                                          *)
LEMMA ServeStep ==
    ASSUME Linked, NEW r \in Reqs, Serve(r)
    PROVE  Linked'
  <1> USE DEF Linked
  <1>0. r \notin llm.states
    BY DEF Serve, Tracked
  <1>1. CASE Goto(r, "done") /\ UNCHANGED <<llm, client, to_core>>
    <2>1. OnlyHandler(r)
      BY <1>1, GotoHandler
    <2> QED
      BY <1>0, <1>1, <2>1, LocalStep DEF Serve
  <1>2. CASE /\ Goto(r, "waiting")
             /\ llm' = [llm EXCEPT !.states = @ \cup {r}]
             /\ Send([client EXCEPT !.futures[r] = "waiting"], <<"add", r>>)
    <2> DEFINE c == [client EXCEPT !.futures[r] = "waiting"]
    <2>1. OnlyHandler(r) /\ handler'[r].pc = "waiting"
      BY <1>2, GotoHandler
    <2>2. /\ c \in Clients /\ c.outputs = client.outputs /\ c.error = client.error
          /\ r \in Calls /\ c.futures[r] = "waiting"
          /\ \A x \in Calls \ {r} : c.futures[x] = client.futures[x]
      BY DEF Types, Clients, Calls
    <2>3. <<"add", r>> \in ToCore /\ Send(c, <<"add", r>>)
      BY <1>2 DEF ToCore
    <2> HIDE DEF c
    <2>4. /\ client'.outputs \in {client.outputs, Append(client.outputs, Dead)}
          /\ client'.error # client.error => ~core.up
          /\ client.error => client'.error
          /\ client'.outputs # client.outputs => client'.error
          /\ \A x \in Calls : client'.futures[x] # c.futures[x] =>
                 client'.futures[x] = "failed" /\ client'.error
          /\ core.up => to_core' = Append(to_core, <<"add", r>>)
          /\ ~core.up => to_core' = to_core
      BY <2>2, <2>3, SendEffect
    <2>5. /\ llm' \in LLMs /\ llm'.states = llm.states \cup {r} /\ llm'.stream = llm.stream
          /\ llm'.dead = llm.dead /\ llm'.stopped = llm.stopped
      BY <1>2 DEF Types, LLMs
    <2>6. client' \in Clients /\ to_core' \in Seq(ToCore)
      BY <2>2, <2>3, SendType DEF Types
    <2>7. Types'
      BY <2>1, <2>5, <2>6 DEF Types, Serve, OnlyHandler
    <2>8. NoNews
      BY <2>4 DEF NoNews, Serve
    <2>9. /\ Untouched(r, client.outputs, from_core, core) /\ llm.stream[r] = << >>
          /\ ~Adding(r, to_core)
      BY DEF AddedOnce, Serve
    <2>10. \A x \in Reqs : Untouched(x, client.outputs, from_core, core) =>
              Untouched(x, client'.outputs, from_core', core')
      BY <2>8, NoNewsUntouched
    <2>11. Continues'
      <3>1. Continuing(r, llm'.stream[r], client'.outputs, from_core', core')
        BY <2>5, <2>9, <2>10, UntouchedContinuing
      <3>2. ASSUME NEW x \in llm.states
            PROVE  Continuing(x, llm'.stream[x], client'.outputs, from_core', core')
        <4>1. /\ client.outputs \in Seq(Read1) /\ from_core \in Seq(FromCore)
              /\ Dead \in Read1
          BY DEF Types, Clients, Read1
        <4>2. Continuing(x, llm.stream[x], client.outputs, from_core, core)
          BY DEF Continues
        <4>3. Continuing(x, llm.stream[x], Append(client.outputs, Dead), from_core, core)
          BY <4>1, <4>2, AppendReadQuiet, DeadCarriesNothing
        <4> QED
          BY <2>5, <2>8, <4>2, <4>3 DEF NoNews
      <3> QED
        BY <2>5, <3>1, <3>2 DEF Continues
    <2>12. to_core \in Seq(ToCore) /\ Len(to_core) \in Nat
      BY DEF Types
    <2>13. /\ \A x \in Reqs \ {r} : Adding(x, to_core') => Adding(x, to_core)
           /\ \A x \in Reqs : \A i : Aborting(x, to_core, i) => Aborting(x, to_core', i)
      <3>1. \A x \in Reqs \ {r} : <<"add", r>> # <<"add", x>>
        OBVIOUS
      <3> QED
        BY <2>3, <2>4, <2>12, <3>1, AppendAdding
    <2>14. \A x \in Reqs, i \in 1..Len(to_core') : to_core'[i] = <<"add", x>> =>
              \/ i \in 1..Len(to_core) /\ to_core[i] = <<"add", x>>
              \/ x = r /\ i = Len(to_core) + 1
      <3>1. CASE core.up
        <4>1. to_core' = Append(to_core, <<"add", r>>)
          BY <2>4, <3>1
        <4>2. \A x : <<"add", r>> = <<"add", x>> => x = r
          OBVIOUS
        <4> QED
          BY <2>3, <2>12, <4>1, <4>2, AppendFacts
      <3>2. CASE ~core.up
        BY <2>4, <3>2
      <3> QED
        BY <3>1, <3>2
    <2>15. AddedOnce'
      <3>1. ASSUME NEW x \in Reqs, handler'[x].pc = "idle"
            PROVE  llm'.stream[x] = << >> /\ ~Adding(x, to_core') /\ handler[x].pc = "idle"
        BY <2>1, <2>5, <2>13, <3>1 DEF AddedOnce, OnlyHandler
      <3>2. ASSUME NEW x \in Reqs, handler'[x].pc = "idle" \/ Adding(x, to_core')
            PROVE  Untouched(x, client'.outputs, from_core', core')
        <4>1. x = r \/ handler[x].pc = "idle" \/ Adding(x, to_core)
          BY <2>13, <3>1, <3>2
        <4> QED
          BY <2>9, <2>10, <4>1 DEF AddedOnce
      <3>3. ASSUME NEW x \in Reqs, NEW i \in 1..Len(to_core'), NEW j \in 1..Len(to_core'),
                   to_core'[i] = <<"add", x>>, to_core'[j] = <<"add", x>>
            PROVE  i = j
        <4>1. x = r => ~(i \in 1..Len(to_core) /\ to_core[i] = <<"add", x>>)
                    /\ ~(j \in 1..Len(to_core) /\ to_core[j] = <<"add", x>>)
          BY <2>9 DEF Adding
        <4>2. \/ i \in 1..Len(to_core) /\ to_core[i] = <<"add", x>>
              \/ x = r /\ i = Len(to_core) + 1
          BY <2>14, <3>3
        <4>3. \/ j \in 1..Len(to_core) /\ to_core[j] = <<"add", x>>
              \/ x = r /\ j = Len(to_core) + 1
          BY <2>14, <3>3
        <4> QED
          BY <4>1, <4>2, <4>3 DEF AddedOnce
      <3> QED
        BY <3>1, <3>2, <3>3 DEF AddedOnce
    <2>16. Refused'
      <3>1. \A x \in Reqs : client'.futures[x] = "refused" =>
               x # r /\ client.futures[x] = "refused"
        BY <2>2, <2>4 DEF Calls
      <3>2. from_core' = from_core /\ core' = core
        BY DEF Serve
      <3>3. ASSUME NEW x \in Reqs,
                   \/ client.futures[x] = "refused"
                   \/ \E i \in 1..Len(from_core) : from_core[i] = <<"added", x, "refused">>
            PROVE  /\ x \notin core.live /\ handler[x].pc # "idle" /\ x # r
                   /\ ~Adding(x, to_core) /\ handler'[x].pc # "idle"
        BY <2>1, <3>3 DEF Refused, Serve, OnlyHandler
      <3> QED
        BY <2>13, <3>1, <3>2, <3>3 DEF Refused
    <2>17. Tracked'
      BY <2>1, <2>5 DEF Tracked, OnlyHandler, Types, LLMs
    <2>18. Reader'
      <3>1. core' = core /\ core.live \subseteq Reqs
        BY DEF Types, Cores, Serve
      <3>2. \A x \in core'.live : x \in llm'.states \/ Aborting(x, to_core', 0)
        BY <2>5, <2>13, <3>1 DEF Reader
      <3>3. \A x \in Reqs, i \in 1..Len(to_core') : to_core'[i] = <<"add", x>> =>
               x \in llm'.states \/ Aborting(x, to_core', i)
        BY <2>5, <2>13, <2>14 DEF Reader
      <3> QED
        BY <3>2, <3>3 DEF Reader
    <2>19. Gone'
      <3>1. core' = core /\ from_core' = from_core
        BY DEF Serve
      <3>2. /\ client'.error \/ llm'.dead \/ llm'.stopped => ~core'.up
            /\ ~core'.up => core'.live = {} /\ to_core' = << >>
        BY <2>4, <2>5, <3>1 DEF Gone
      <3>3. \A x \in Calls : client'.futures[x] = "failed" => client'.error \/ llm'.stopped
        <4> TAKE x \in Calls
        <4>1. CASE client'.futures[x] = c.futures[x]
          BY <2>2, <2>4, <2>5, <4>1 DEF Gone
        <4>2. CASE client'.futures[x] # c.futures[x]
          BY <2>4, <4>2
        <4> QED
          BY <4>1, <4>2
      <3>4. \A i \in 1..Len(client'.outputs) : client'.outputs[i] = Dead => client'.error
        BY <2>4 DEF Gone
      <3> QED
        BY <3>1, <3>2, <3>3, <3>4 DEF Gone
    <2>20. Streams'
      BY <2>5 DEF Streams
    <2> QED
      BY <2>7, <2>11, <2>15, <2>16, <2>17, <2>18, <2>19, <2>20
  <1> QED
    BY <1>1, <1>2 DEF Serve

(* The handler of /metrics touches no request. *)
LEMMA MetricsStep ==
    ASSUME Linked, RenderMetrics \/ MetricsReturn
    PROVE  Linked'
  <1> USE DEF Linked
  <1> DEFINE c == [client EXCEPT !.futures[Scrape] = "waiting"]
             m == <<"metrics", Scrape>>
  <1>1. /\ llm' = llm /\ from_core' = from_core /\ core' = core
    BY DEF RenderMetrics, MetricsReturn
  <1>2. handler' \in Handlers /\ \A x \in Reqs : handler'[x] = handler[x]
    <2>1. Scrape \in Calls /\ Scrape \notin Reqs
      BY ServingAssumption DEF Calls
    <2>2. \E pc \in {"waiting", "done"} : Goto(Scrape, pc)
      BY DEF RenderMetrics, MetricsReturn
    <2>3. handler' \in Handlers
      BY <2>1, <2>2, GotoType DEF Types
    <2> QED
      BY <2>1, <2>2, <2>3 DEF Goto, Types, Handlers, Calls
  <1>3. \/ client' = client /\ to_core' = to_core
        \/ Send(c, m)
    BY DEF RenderMetrics, MetricsReturn
  <1>4. c \in Clients /\ c.outputs = client.outputs /\ c.error = client.error
        /\ \A x \in Calls : c.futures[x] \in {client.futures[x], "waiting"}
    BY DEF Types, Clients, Calls
  <1>5. m \in ToCore
    BY DEF ToCore
  <1> HIDE DEF c, m
  <1>6. /\ client' \in Clients /\ to_core' \in Seq(ToCore)
        /\ client'.outputs \in {client.outputs, Append(client.outputs, Dead)}
        /\ client'.error # client.error => ~core.up
        /\ client.error => client'.error
        /\ client'.outputs # client.outputs => client'.error
        /\ \A x \in Calls : client'.futures[x] \in {client.futures[x], "waiting"}
              \/ (client'.futures[x] = "failed" /\ client'.error)
        /\ to_core' = to_core \/ (core.up /\ to_core' = Append(to_core, m))
    <2>1. CASE client' = client /\ to_core' = to_core
      BY <2>1 DEF Types
    <2>2. CASE Send(c, m)
      <3>1. client' \in Clients /\ to_core' \in Seq(ToCore)
        BY <1>4, <1>5, <2>2, SendType DEF Types
      <3>2. /\ client'.outputs \in {c.outputs, Append(c.outputs, Dead)}
            /\ client'.error # c.error => ~core.up
            /\ c.error => client'.error
            /\ client'.outputs # c.outputs => client'.error
            /\ \A x \in Calls : client'.futures[x] # c.futures[x] =>
                  client'.futures[x] = "failed" /\ client'.error
            /\ core.up => to_core' = Append(to_core, m)
            /\ ~core.up => to_core' = to_core
        BY <1>4, <1>5, <2>2, SendEffect
      <3> QED
        BY <1>4, <3>1, <3>2
    <2> QED
      BY <1>3, <2>1, <2>2
  <1>7. Types'
    BY <1>1, <1>2, <1>6 DEF Types
  <1>8. NoNews
    BY <1>1, <1>6 DEF NoNews
  <1>9. Continues'
    BY <1>1, <1>8, NoNewsContinues
  <1>10. /\ \A x \in Reqs : Adding(x, to_core') => Adding(x, to_core)
         /\ \A x \in Reqs : \A i : Aborting(x, to_core, i) => Aborting(x, to_core', i)
         /\ \A x \in Reqs, i \in 1..Len(to_core') : to_core'[i] = <<"add", x>> =>
               i \in 1..Len(to_core) /\ to_core[i] = <<"add", x>>
    <2>1. \A x \in Reqs : m # <<"add", x>>
      BY DEF m
    <2>2. to_core \in Seq(ToCore)
      BY DEF Types
    <2>3. \A x \in Reqs, i \in 1..Len(Append(to_core, m)) : Append(to_core, m)[i] = <<"add", x>> =>
               i \in 1..Len(to_core) /\ to_core[i] = <<"add", x>>
      <3>1. /\ Len(Append(to_core, m)) = Len(to_core) + 1
            /\ \A i \in 1..Len(to_core) : Append(to_core, m)[i] = to_core[i]
            /\ Append(to_core, m)[Len(to_core) + 1] = m
            /\ \A i \in 1..Len(to_core) + 1 : i \in 1..Len(to_core) \/ i = Len(to_core) + 1
        BY <1>5, <2>2, AppendFacts
      <3> QED
        BY <2>1, <3>1
    <2>4. /\ \A x \in Reqs : Adding(x, Append(to_core, m)) => Adding(x, to_core)
          /\ \A x \in Reqs : \A i : Aborting(x, to_core, i) => Aborting(x, Append(to_core, m), i)
      BY <1>5, <2>1, <2>2, AppendAdding
    <2> QED
      BY <1>6, <2>3, <2>4
  <1>11. AddedOnce'
    <2>1. ASSUME NEW x \in Reqs, handler'[x].pc = "idle"
          PROVE  llm'.stream[x] = << >> /\ ~Adding(x, to_core') /\ handler[x].pc = "idle"
      BY <1>1, <1>2, <1>10, <2>1 DEF AddedOnce
    <2>2. ASSUME NEW x \in Reqs, handler'[x].pc = "idle" \/ Adding(x, to_core')
          PROVE  Untouched(x, client'.outputs, from_core', core')
      <3>1. Untouched(x, client.outputs, from_core, core)
        BY <1>10, <2>1, <2>2 DEF AddedOnce
      <3> QED
        BY <1>8, <3>1, NoNewsUntouched
    <2>3. ASSUME NEW x \in Reqs, NEW i \in 1..Len(to_core'), NEW j \in 1..Len(to_core'),
                 to_core'[i] = <<"add", x>>, to_core'[j] = <<"add", x>>
          PROVE  i = j
      BY <1>10, <2>3 DEF AddedOnce
    <2> QED
      BY <2>1, <2>2, <2>3 DEF AddedOnce
  <1>12. Refused'
    <2>1. \A x \in Reqs : client'.futures[x] = "refused" => client.futures[x] = "refused"
      BY <1>6 DEF Calls
    <2> QED
      BY <1>1, <1>2, <1>10, <2>1 DEF Refused
  <1>13. Tracked'
    BY <1>1, <1>2 DEF Tracked, Types, LLMs
  <1>14. Reader'
    <2>1. core.live \subseteq Reqs
      BY DEF Types, Cores
    <2> QED
      BY <1>1, <1>10, <2>1 DEF Reader
  <1>15. Gone'
    <2>1. /\ client'.error \/ llm'.dead \/ llm'.stopped => ~core'.up
          /\ ~core'.up => core'.live = {} /\ to_core' = << >>
      BY <1>1, <1>6 DEF Gone
    <2>2. \A x \in Calls : client'.futures[x] = "failed" => client'.error \/ llm'.stopped
      BY <1>1, <1>6 DEF Gone
    <2>3. \A i \in 1..Len(client'.outputs) : client'.outputs[i] = Dead => client'.error
      BY <1>6 DEF Gone
    <2> QED
      BY <1>1, <2>1, <2>2, <2>3 DEF Gone
  <1>16. Streams'
    BY <1>1 DEF Streams
  <1> QED
    BY <1>7, <1>9, <1>11, <1>12, <1>13, <1>14, <1>15, <1>16

-----------------------------------------------------------------------------
(* The core's steps. *)

(* The core handles the first message of its socket. *)
LEMMA TailAdding ==
    ASSUME NEW t \in Seq(ToCore), t # << >>, NEW r
    PROVE  /\ Adding(r, Tail(t)) => Adding(r, t)
           /\ \A i \in 1..Len(Tail(t)) : i + 1 \in 1..Len(t) /\ Tail(t)[i] = t[i + 1]
           /\ \A i \in 1..Len(t) : Aborting(r, t, i) => Aborting(r, Tail(t), i - 1)
           /\ Head(t) # <<"abort", r>> => (Aborting(r, t, 0) => Aborting(r, Tail(t), 0))
           /\ 1 \in 1..Len(t) /\ Head(t) = t[1] /\ Head(t) \in ToCore
  <1>1. /\ Tail(t) \in Seq(ToCore) /\ Len(Tail(t)) = Len(t) - 1
        /\ \A i \in 1..Len(t) - 1 : i + 1 \in 1..Len(t) /\ Tail(t)[i] = t[i + 1]
        /\ \A i \in 1..Len(t) : i = 1 \/ (i - 1 \in 1..Len(t) - 1 /\ Tail(t)[i - 1] = t[i])
        /\ 1 \in 1..Len(t) /\ Head(t) = t[1] /\ Head(t) \in ToCore
        /\ Len(t) \in Nat
    BY TailFacts
  <1>2. Adding(r, Tail(t)) => Adding(r, t)
    BY <1>1 DEF Adding
  <1>3. ASSUME NEW i \in 1..Len(t), Aborting(r, t, i)
        PROVE  Aborting(r, Tail(t), i - 1)
    <2>1. PICK j \in 1..Len(t) : i < j /\ t[j] = <<"abort", r>>
      BY <1>3 DEF Aborting
    <2>2. j - 1 \in 1..Len(Tail(t)) /\ i - 1 < j - 1 /\ Tail(t)[j - 1] = <<"abort", r>>
      BY <1>1, <2>1
    <2> QED
      BY <2>2 DEF Aborting
  <1>4. ASSUME Head(t) # <<"abort", r>>, Aborting(r, t, 0)
        PROVE  Aborting(r, Tail(t), 0)
    <2>1. PICK j \in 1..Len(t) : 0 < j /\ t[j] = <<"abort", r>>
      BY <1>4 DEF Aborting
    <2>2. j # 1
      BY <1>1, <1>4, <2>1
    <2>3. j - 1 \in 1..Len(Tail(t)) /\ 0 < j - 1 /\ Tail(t)[j - 1] = <<"abort", r>>
      BY <1>1, <2>1, <2>2
    <2> QED
      BY <2>3 DEF Aborting
  <1> QED
    BY <1>1, <1>2, <1>3, <1>4

(* EngineCore._handle. An admission finds the core untouched by its        *)
(* request, and an abort behind it, or a stream, remains.                  *)
LEMMA CoreHandleStep ==
    ASSUME Linked, CoreHandle
    PROVE  Linked'
  <1> USE DEF Linked
  <1> DEFINE m == Head(to_core)
             r == Head(to_core)[2]
  <1>1. /\ core.up /\ to_core # << >> /\ to_core' = Tail(to_core)
        /\ handler' = handler /\ llm' = llm /\ client' = client
    BY DEF CoreHandle
  <1>2. /\ to_core \in Seq(ToCore) /\ from_core \in Seq(FromCore)
        /\ client.outputs \in Seq(Read1) /\ core \in Cores
    BY DEF Types, Clients, Read1
  <1>3. /\ \A x : Adding(x, to_core') => Adding(x, to_core)
        /\ \A i \in 1..Len(to_core') : i + 1 \in 1..Len(to_core) /\ to_core'[i] = to_core[i + 1]
        /\ \A x : \A i \in 1..Len(to_core) : Aborting(x, to_core, i) => Aborting(x, to_core', i - 1)
        /\ \A x : m # <<"abort", x>> => (Aborting(x, to_core, 0) => Aborting(x, to_core', 0))
        /\ 1 \in 1..Len(to_core) /\ m = to_core[1] /\ m \in ToCore
    BY <1>1, <1>2, TailAdding
  <1>4. to_core' \in Seq(ToCore)
    BY <1>1, <1>2
  <1>5. \/ m[1] = "add" /\ m = <<"add", r>> /\ r \in Reqs
        \/ m[1] = "abort" /\ m = <<"abort", r>> /\ r \in Reqs
        \/ m[1] = "metrics" /\ r = Scrape
    BY <1>3 DEF ToCore
  <1> HIDE DEF m, r
  <1>6. \A x \in Reqs : \A i, j \in 1..Len(to_core') :
           to_core'[i] = <<"add", x>> /\ to_core'[j] = <<"add", x>> => i = j
    <2> TAKE x \in Reqs
    <2> TAKE i, j \in 1..Len(to_core')
    <2> HAVE to_core'[i] = <<"add", x>> /\ to_core'[j] = <<"add", x>>
    <2>1. i + 1 = j + 1
      BY <1>3 DEF AddedOnce
    <2> QED
      BY <2>1
  <1>7. ASSUME NEW x \in Reqs, NEW i \in 1..Len(to_core'), to_core'[i] = <<"add", x>>
        PROVE  x \in llm'.states \/ Aborting(x, to_core', i)
    <2>1. i + 1 \in 1..Len(to_core) /\ to_core[i + 1] = <<"add", x>> /\ i + 1 - 1 = i
      BY <1>3, <1>7
    <2>2. x \in llm.states \/ Aborting(x, to_core, i + 1)
      BY <2>1 DEF Reader
    <2> QED
      BY <1>1, <1>3, <2>1, <2>2
  <1>8. CASE m = <<"add", r>> /\ r \in Reqs
    <2>1. Adding(r, to_core) /\ Untouched(r, client.outputs, from_core, core)
      BY <1>3, <1>8 DEF Adding, AddedOnce
    <2>2. ~Adding(r, to_core')
      <3> SUFFICES ASSUME NEW i \in 1..Len(to_core'), to_core'[i] = <<"add", r>> PROVE FALSE
        BY DEF Adding
      <3>0. /\ i + 1 \in 1..Len(to_core) /\ to_core[i + 1] = <<"add", r>>
            /\ 1 \in 1..Len(to_core) /\ to_core[1] = <<"add", r>>
        BY <1>3, <1>8
      <3>1. i + 1 = 1
        BY <1>8, <3>0 DEF AddedOnce
      <3> QED
        BY <3>1
    <2>3. handler[r].pc # "idle"
      BY <2>1, <1>8 DEF AddedOnce
    <2>4. PICK a \in {"ok", "refused"} :
             /\ from_core' = Append(from_core, <<"added", r, a>>)
             /\ IF a = "ok" THEN core' = [core EXCEPT !.live = @ \cup {r}] ELSE core' = core
      BY <1>8 DEF CoreHandle, m, r
    <2>5. /\ core' \in Cores /\ core'.up = core.up /\ core'.made = core.made
          /\ core'.live = IF a = "ok" THEN core.live \cup {r} ELSE core.live
      <3>1. CASE a = "ok"
        <4>1. core' = [core EXCEPT !.live = @ \cup {r}]
          BY <2>4, <3>1
        <4>2. core'.up = core.up /\ core'.made = core.made /\ core'.live = core.live \cup {r}
          BY <1>2, <4>1 DEF Cores
        <4>3. core' \in Cores
          BY <1>2, <1>8, <4>1 DEF Cores
        <4> QED
          BY <3>1, <4>2, <4>3
      <3>2. CASE a # "ok"
        BY <1>2, <2>4, <3>2 DEF Cores
      <3> QED
        BY <3>1, <3>2
    <2> DEFINE k == <<"added", r, a>>
    <2>6. k \in FromCore /\ \A x : ~Carries(k, x)
      BY <1>8 DEF FromCore, Carries, Outputs
    <2>7. from_core' = Append(from_core, k)
      BY <2>4
    <2>8. \A x \in Reqs : k = <<"added", x, "refused">> => x = r /\ a = "refused"
      OBVIOUS
    <2>8a. \A x \in Reqs : k # Dead
      BY DEF Dead
    <2> HIDE DEF k
    <2>9. Types'
      BY <1>1, <1>2, <1>4, <2>5, <2>6, <2>7 DEF Types
    <2>10. Continues'
      <3> SUFFICES ASSUME NEW x \in llm.states
                   PROVE  Continuing(x, llm.stream[x], client.outputs, from_core', core')
        BY <1>1 DEF Continues
      <3>1. Continuing(x, llm.stream[x], client.outputs, from_core, core)
        BY DEF Continues
      <3>2. Continuing(x, llm.stream[x], client.outputs, from_core, core')
        BY <2>1, <2>5, <3>1, CoreChanges
      <3> QED
        BY <1>2, <2>6, <2>7, <3>2, AppendSentQuiet
    <2>11. AddedOnce'
      <3>1. ASSUME NEW x \in Reqs, handler[x].pc = "idle" \/ Adding(x, to_core')
            PROVE  Untouched(x, client.outputs, from_core', core')
        <4>1. x # r /\ Untouched(x, client.outputs, from_core, core)
          BY <1>3, <2>2, <2>3, <3>1 DEF AddedOnce
        <4>2. Untouched(x, client.outputs, from_core, core')
          BY <2>5, <4>1 DEF Untouched
        <4> QED
          BY <1>2, <2>6, <2>7, <4>2, AppendSentQuiet
      <3> QED
        BY <1>1, <1>3, <1>6, <3>1 DEF AddedOnce
    <2>12. Refused'
      <3>1. \A x \in Reqs : (\E i \in 1..Len(from_core') : from_core'[i] = <<"added", x, "refused">>) =>
                (\E i \in 1..Len(from_core) : from_core[i] = <<"added", x, "refused">>)
                \/ (x = r /\ a = "refused")
        <4>1. /\ Len(from_core') = Len(from_core) + 1
              /\ \A i \in 1..Len(from_core) : from_core'[i] = from_core[i]
              /\ from_core'[Len(from_core) + 1] = k
              /\ \A i \in 1..Len(from_core) + 1 : i \in 1..Len(from_core) \/ i = Len(from_core) + 1
          BY <1>2, <2>6, <2>7, AppendFacts
        <4> QED
          BY <2>8, <4>1
      <3>2. ASSUME NEW x \in Reqs,
                   \/ client.futures[x] = "refused"
                   \/ \E i \in 1..Len(from_core) : from_core[i] = <<"added", x, "refused">>
            PROVE  x # r /\ x \notin core'.live /\ ~Adding(x, to_core') /\ handler[x].pc # "idle"
        BY <1>3, <2>1, <2>5, <3>2 DEF Refused
      <3>3. a = "refused" => r \notin core'.live
        BY <2>1, <2>5 DEF Untouched
      <3> QED
        BY <1>1, <2>2, <2>3, <3>1, <3>2, <3>3 DEF Refused
    <2>13. Reader'
      <3>1. \A x \in core.live : x \in llm.states \/ Aborting(x, to_core', 0)
        BY <1>3, <1>8 DEF Reader
      <3>2. r \in llm.states \/ Aborting(r, to_core', 0)
        <4>1. r \in llm.states \/ Aborting(r, to_core, 1)
          BY <1>3, <1>8 DEF Reader
        <4> QED
          BY <1>3, <4>1
      <3> QED
        BY <1>1, <1>7, <2>5, <3>1, <3>2 DEF Reader
    <2>14. Gone'
      <3>1. \A i \in 1..Len(from_core') : from_core'[i] # Dead
        <4>1. /\ Len(from_core') = Len(from_core) + 1
              /\ \A i \in 1..Len(from_core) : from_core'[i] = from_core[i]
              /\ from_core'[Len(from_core) + 1] = k
              /\ \A i \in 1..Len(from_core) + 1 : i \in 1..Len(from_core) \/ i = Len(from_core) + 1
          BY <1>2, <2>6, <2>7, AppendFacts
        <4> QED
          BY <1>1, <1>8, <2>8a, <4>1 DEF Gone
      <3> QED
        BY <1>1, <2>5, <3>1 DEF Gone
    <2> QED
      BY <1>1, <2>9, <2>10, <2>11, <2>12, <2>13, <2>14 DEF Tracked, Streams
  <1>9. CASE m = <<"abort", r>> /\ r \in Reqs
    <2>1. from_core' = from_core /\ core' = [core EXCEPT !.live = @ \ {r}]
      BY <1>9 DEF CoreHandle, m, r
    <2>2. /\ core' \in Cores /\ core'.up = core.up /\ core'.made = core.made
          /\ core'.live = core.live \ {r}
      BY <1>2, <2>1 DEF Cores
    <2>3. Types'
      BY <1>1, <1>4, <2>1, <2>2 DEF Types
    <2>4. Continues'
      <3> SUFFICES ASSUME NEW x \in llm.states
                   PROVE  Continuing(x, llm.stream[x], client.outputs, from_core, core')
        BY <1>1, <2>1 DEF Continues
      <3>1. Continuing(x, llm.stream[x], client.outputs, from_core, core)
        BY DEF Continues
      <3> QED
        BY <2>2, <3>1, CoreChanges
    <2>5. AddedOnce'
      BY <1>1, <1>3, <1>6, <2>1, <2>2 DEF AddedOnce, Untouched
    <2>6. Refused'
      BY <1>1, <1>3, <2>1, <2>2 DEF Refused
    <2>7. Reader'
      <3>1. \A x \in core'.live : m # <<"abort", x>>
        BY <1>9, <2>2
      <3>2. \A x \in core'.live : x \in llm.states \/ Aborting(x, to_core', 0)
        BY <1>3, <2>2, <3>1 DEF Reader
      <3> QED
        BY <1>1, <1>7, <3>2 DEF Reader
    <2>8. Gone'
      BY <1>1, <2>1, <2>2 DEF Gone
    <2> QED
      BY <1>1, <2>3, <2>4, <2>5, <2>6, <2>7, <2>8 DEF Tracked, Streams
  <1>10. CASE m[1] = "metrics" /\ r = Scrape
    <2> DEFINE k == <<"metrics", Scrape>>
    <2>1. from_core' = Append(from_core, k) /\ core' = core
      BY <1>10 DEF CoreHandle, m, r
    <2>2. /\ k \in FromCore /\ k # Dead /\ \A x : ~Carries(k, x)
          /\ \A x : k # <<"added", x, "refused">>
      BY DEF FromCore, Carries, Outputs, Dead
    <2> HIDE DEF k
    <2>3. Types'
      BY <1>1, <1>2, <1>4, <2>1, <2>2 DEF Types
    <2>4. Continues'
      BY <1>1, <1>2, <2>1, <2>2, AppendSentQuiet DEF Continues
    <2>5. AddedOnce'
      <3>1. ASSUME NEW x \in Reqs, handler[x].pc = "idle" \/ Adding(x, to_core')
            PROVE  Untouched(x, client.outputs, from_core', core)
        <4>1. Untouched(x, client.outputs, from_core, core)
          BY <1>3, <3>1 DEF AddedOnce
        <4> QED
          BY <1>2, <2>1, <2>2, <4>1, AppendSentQuiet
      <3> QED
        BY <1>1, <1>3, <1>6, <2>1, <3>1 DEF AddedOnce
    <2>6. /\ Len(from_core') = Len(from_core) + 1
          /\ \A i \in 1..Len(from_core) : from_core'[i] = from_core[i]
          /\ from_core'[Len(from_core) + 1] = k
          /\ \A i \in 1..Len(from_core) + 1 : i \in 1..Len(from_core) \/ i = Len(from_core) + 1
      BY <1>2, <2>1, <2>2, AppendFacts
    <2>7. Refused'
      <3>1. \A x \in Reqs : (\E i \in 1..Len(from_core') : from_core'[i] = <<"added", x, "refused">>) =>
                (\E i \in 1..Len(from_core) : from_core[i] = <<"added", x, "refused">>)
        BY <2>2, <2>6
      <3> QED
        BY <1>1, <1>3, <2>1, <3>1 DEF Refused
    <2>8. Reader'
      <3>1. \A x \in core.live : m # <<"abort", x>>
        BY <1>10
      <3> QED
        BY <1>1, <1>3, <1>7, <2>1, <3>1 DEF Reader
    <2>9. Gone'
      BY <1>1, <2>1, <2>2, <2>6 DEF Gone
    <2> QED
      BY <1>1, <2>3, <2>4, <2>5, <2>7, <2>8, <2>9 DEF Tracked, Streams
  <1> QED
    BY <1>5, <1>8, <1>9, <1>10

(* A step of the core: whoever gets an output gets the next one. *)
LEMMA CoreStepStep ==
    ASSUME Linked, CoreStep
    PROVE  Linked'
  <1> USE DEF Linked
  <1>0. PICK S \in (SUBSET core.live) \ {{}} : \E end \in [S -> {"more", "final"}] :
           /\ core' = [core EXCEPT !.live = {r \in @ : r \in S => end[r] = "more"},
                                   !.made = [r \in Reqs |-> IF r \in S THEN @[r] + 1 ELSE @[r]]]
           /\ from_core' = Append(from_core,
                 <<"outputs", [r \in S |-> Item(core.made[r] + 1, end[r])]>>)
    BY DEF CoreStep
  <1>1. PICK end \in [S -> {"more", "final"}] :
           /\ core' = [core EXCEPT !.live = {r \in @ : r \in S => end[r] = "more"},
                                   !.made = [r \in Reqs |-> IF r \in S THEN @[r] + 1 ELSE @[r]]]
           /\ from_core' = Append(from_core,
                 <<"outputs", [r \in S |-> Item(core.made[r] + 1, end[r])]>>)
    BY <1>0
  <1> DEFINE outs == [r \in S |-> Item(core.made[r] + 1, end[r])]
             m == <<"outputs", outs>>
  <1>2. /\ core.up /\ handler' = handler /\ llm' = llm /\ client' = client /\ to_core' = to_core
    BY DEF CoreStep
  <1>3. /\ from_core \in Seq(FromCore) /\ client.outputs \in Seq(Read1) /\ core \in Cores
        /\ \A x \in llm.states : x \in Reqs /\ llm.stream[x] \in Seq(Items)
        /\ S \subseteq core.live /\ S \subseteq Reqs
        /\ \A x \in Reqs : core.made[x] \in Nat
    BY DEF Types, Clients, Read1, LLMs, Cores
  <1>4. /\ core' \in Cores /\ core'.up = core.up /\ core'.live \subseteq core.live
        /\ \A x \in S : x \in core'.live => end[x] = "more"
        /\ \A x \in Reqs : core'.made[x] = IF x \in S THEN core.made[x] + 1 ELSE core.made[x]
    <2> DEFINE live == {r \in core.live : r \in S => end[r] = "more"}
               made == [r \in Reqs |-> IF r \in S THEN core.made[r] + 1 ELSE core.made[r]]
    <2>1. live \subseteq core.live /\ \A x \in S : x \in live => end[x] = "more"
      OBVIOUS
    <2>2. made \in [Reqs -> Nat]
      BY <1>3
    <2>3. core' = [core EXCEPT !.live = live, !.made = made]
      BY <1>1
    <2>4. \A x \in Reqs : made[x] = IF x \in S THEN core.made[x] + 1 ELSE core.made[x]
      OBVIOUS
    <2> HIDE DEF live, made
    <2>5. core'.live = live /\ core'.made = made /\ core'.up = core.up
      BY <1>3, <2>3 DEF Cores
    <2>6. core' \in Cores
      BY <1>3, <2>1, <2>2, <2>3 DEF Cores
    <2> QED
      BY <2>1, <2>4, <2>5, <2>6
  <1>5. \A x \in S : /\ Item(core.made[x] + 1, end[x]) \in Items
                     /\ outs[x].n = core.made[x] + 1 /\ outs[x].end = end[x]
                     /\ end[x] \in {"more", "final"}
    <2> TAKE x \in S
    <2>1. core.made[x] + 1 \in Nat /\ end[x] \in {"more", "final"}
      BY <1>3
    <2>2. outs[x] = [n |-> core.made[x] + 1, end |-> end[x]]
      BY DEF Item
    <2> QED
      BY <2>1, <2>2 DEF Item, Items
  <1>6. outs \in Batches /\ DOMAIN outs = S
    <2>1. outs \in [S -> Items]
      BY <1>5
    <2> QED
      BY <1>3, <2>1 DEF Batches
  <1> HIDE DEF outs
  <1>7. /\ m \in Outputs /\ m \in FromCore /\ m[2] = outs /\ m # Dead
        /\ \A x : m # <<"added", x, "refused">>
        /\ \A x : Carries(m, x) <=> x \in S
    BY <1>6 DEF Outputs, FromCore, Dead, Carries
  <1>8. from_core' = Append(from_core, m)
    BY <1>1 DEF outs
  <1> HIDE DEF m
  <1>9. Types'
    BY <1>2, <1>3, <1>4, <1>7, <1>8 DEF Types
  <1>10. Continues'
    <2> SUFFICES ASSUME NEW x \in llm.states
                 PROVE  Continuing(x, llm.stream[x], client.outputs, from_core', core')
      BY <1>2 DEF Continues
    <2>1. Continuing(x, llm.stream[x], client.outputs, from_core, core)
      BY DEF Continues
    <2>2. CASE x \in S
      <3>1. /\ core'.up /\ x \in core.live /\ core'.made[x] = core.made[x] + 1
            /\ Carries(m, x) /\ m[2][x].n = core'.made[x] /\ m[2][x].end \in {"more", "final"}
            /\ x \in core'.live => m[2][x].end = "more"
        BY <1>2, <1>3, <1>4, <1>5, <1>7, <2>2
      <3> QED
        BY <1>2, <1>3, <1>7, <1>8, <2>1, <3>1, SendNext
    <2>3. CASE x \notin S
      <3>1. Continuing(x, llm.stream[x], client.outputs, from_core, core')
        BY <1>3, <1>4, <2>1, <2>3, CoreChanges
      <3> QED
        BY <1>3, <1>7, <1>8, <2>3, <3>1, AppendSentQuiet
    <2> QED
      BY <2>2, <2>3
  <1>11. AddedOnce'
    <2>1. ASSUME NEW x \in Reqs, Untouched(x, client.outputs, from_core, core)
          PROVE  Untouched(x, client.outputs, from_core', core')
      <3>1. x \notin S
        BY <1>3, <2>1 DEF Untouched
      <3>2. Untouched(x, client.outputs, from_core, core')
        BY <1>4, <2>1, <3>1 DEF Untouched
      <3> QED
        BY <1>3, <1>7, <1>8, <3>1, <3>2, AppendSentQuiet
    <2> QED
      BY <1>2, <2>1 DEF AddedOnce
  <1>12. /\ Len(from_core') = Len(from_core) + 1
         /\ \A i \in 1..Len(from_core) : from_core'[i] = from_core[i]
         /\ from_core'[Len(from_core) + 1] = m
         /\ \A i \in 1..Len(from_core) + 1 : i \in 1..Len(from_core) \/ i = Len(from_core) + 1
    BY <1>3, <1>7, <1>8, AppendFacts
  <1>13. Refused'
    <2>1. \A x \in Reqs : (\E i \in 1..Len(from_core') : from_core'[i] = <<"added", x, "refused">>) =>
              (\E i \in 1..Len(from_core) : from_core[i] = <<"added", x, "refused">>)
      BY <1>7, <1>12
    <2> QED
      BY <1>2, <1>4, <2>1 DEF Refused
  <1>14. Reader'
    BY <1>2, <1>4 DEF Reader
  <1>15. Gone'
    BY <1>2, <1>4, <1>7, <1>12 DEF Gone
  <1> QED
    BY <1>2, <1>9, <1>10, <1>11, <1>13, <1>14, <1>15 DEF Tracked, Streams

(* What the death of the core leaves behind, whatever becomes of the       *)
(* messages on its output socket.                                          *)
LEMMA CoreGoneStep ==
    ASSUME Linked, core' = CoreGone, to_core' = << >>, handler' = handler,
           from_core' \in Seq(FromCore), llm' \in LLMs, client' \in Clients,
           Streams', llm'.states \subseteq llm.states,
           \A r \in Reqs : handler[r].pc = "idle" => llm'.stream[r] = llm.stream[r],
           \A r \in llm'.states :
              Continuing(r, llm'.stream[r], client'.outputs, from_core', core'),
           \A r \in Reqs : Untouched(r, client.outputs, from_core, core) =>
              Untouched(r, client'.outputs, from_core', core'),
           \A r \in Reqs : client'.futures[r] = "refused" =>
              client.futures[r] = "refused"
              \/ \E i \in 1..Len(from_core) : from_core[i] = <<"added", r, "refused">>,
           \A r \in Reqs, i \in 1..Len(from_core') : from_core'[i] = <<"added", r, "refused">> =>
              \E j \in 1..Len(from_core) : from_core[j] = <<"added", r, "refused">>,
           \A i \in 1..Len(client'.outputs) : client'.outputs[i] = Dead => client'.error,
           \A c \in Calls : client'.futures[c] = "failed" => client'.error \/ llm'.stopped
    PROVE  Linked'
  <1> USE DEF Linked
  <1>1. core' \in Cores /\ ~core'.up /\ core'.live = {} /\ \A r \in Reqs : core'.made[r] = 0
    BY DEF CoreGone, Cores
  <1>2. Len(to_core') = 0 /\ \A i \in 1..Len(to_core') : FALSE
    OBVIOUS
  <1>3. \A r : ~Adding(r, to_core')
    BY <1>2 DEF Adding
  <1>4. Types'
    <2>1. << >> \in Seq(ToCore)
      OBVIOUS
    <2> QED
      BY <1>1, <2>1 DEF Types
  <1>5. Continues'
    BY DEF Continues
  <1>6. AddedOnce'
    BY <1>2, <1>3 DEF AddedOnce
  <1>7. Refused'
    BY <1>1, <1>3 DEF Refused
  <1>8. Reader'
    BY <1>1, <1>2 DEF Reader
  <1>9. Gone'
    BY <1>1 DEF Gone
  <1>10. Tracked'
    BY DEF Tracked
  <1> QED
    BY <1>4, <1>5, <1>6, <1>7, <1>8, <1>9, <1>10

(* The core says that it dies behind all it has sent. *)
LEMMA CoreDiesStep ==
    ASSUME Linked, CoreDies
    PROVE  Linked'
  <1> USE DEF Linked
  <1>1. /\ core' = CoreGone /\ from_core' = Append(from_core, Dead) /\ to_core' = << >>
        /\ handler' = handler /\ llm' = llm /\ client' = client
    BY DEF CoreDies
  <1>2. /\ from_core \in Seq(FromCore) /\ client.outputs \in Seq(Read1) /\ Dead \in FromCore
        /\ llm.states \subseteq Reqs
    BY DEF Types, Clients, Read1, FromCore, LLMs
  <1>3. ~core'.up /\ core'.live = {} /\ \A r \in Reqs : core'.made[r] = 0
    BY <1>1 DEF CoreGone
  <1>4. from_core' \in Seq(FromCore)
    BY <1>1, <1>2
  <1>5. ASSUME NEW r \in llm.states
        PROVE  Continuing(r, llm.stream[r], client.outputs, from_core', core')
    <2>1. Continuing(r, llm.stream[r], client.outputs, from_core, core)
      BY DEF Continues
    <2>2. Continuing(r, llm.stream[r], client.outputs, from_core, core')
      BY <1>3, <2>1, CoreChanges
    <2> QED
      BY <1>1, <1>2, <2>2, AppendSentQuiet, DeadCarriesNothing
  <1>6. ASSUME NEW r \in Reqs, Untouched(r, client.outputs, from_core, core)
        PROVE  Untouched(r, client.outputs, from_core', core')
    <2>1. Untouched(r, client.outputs, from_core, core')
      BY <1>3, <1>6 DEF Untouched
    <2> QED
      BY <1>1, <1>2, <2>1, AppendSentQuiet, DeadCarriesNothing
  <1>7. ASSUME NEW r \in Reqs, NEW i \in 1..Len(from_core'), from_core'[i] = <<"added", r, "refused">>
        PROVE  \E j \in 1..Len(from_core) : from_core[j] = <<"added", r, "refused">>
    <2>1. Dead # <<"added", r, "refused">>
      BY DEF Dead
    <2>2. /\ Len(from_core') = Len(from_core) + 1
          /\ \A j \in 1..Len(from_core) : from_core'[j] = from_core[j]
          /\ from_core'[Len(from_core) + 1] = Dead
          /\ \A j \in 1..Len(from_core) + 1 : j \in 1..Len(from_core) \/ j = Len(from_core) + 1
      BY <1>1, <1>2, AppendFacts
    <2> QED
      BY <1>7, <2>1, <2>2
  <1>8. llm' \in LLMs /\ client' \in Clients /\ Streams'
    BY <1>1 DEF Types, Streams
  <1> QED
    BY <1>1, <1>4, <1>5, <1>6, <1>7, <1>8, CoreGoneStep DEF Gone

(* Killed, the core loses the end of what its socket held. *)
LEMMA CoreKilledStep ==
    ASSUME Linked, CoreKilled
    PROVE  Linked'
  <1> USE DEF Linked
  <1>1. /\ core' = CoreGone /\ to_core' = << >>
        /\ handler' = handler /\ llm' = llm /\ client' = client
    BY DEF CoreKilled
  <1>2. PICK n \in 0..Len(from_core) : from_core' = SubSeq(from_core, 1, n)
    BY DEF CoreKilled
  <1>3. /\ from_core \in Seq(FromCore) /\ client.outputs \in Seq(Read1)
        /\ \A r \in llm.states : r \in Reqs /\ llm.stream[r] \in Seq(Items)
    BY DEF Types, Clients, Read1, LLMs
  <1>4. ~core'.up /\ core'.live = {} /\ \A r \in Reqs : core'.made[r] = 0
    BY <1>1 DEF CoreGone
  <1>5. /\ from_core' \in Seq(FromCore)
        /\ \A i \in 1..Len(from_core') : i \in 1..Len(from_core) /\ from_core'[i] = from_core[i]
    BY <1>2, <1>3
  <1>6. ASSUME NEW r \in llm.states
        PROVE  Continuing(r, llm.stream[r], client.outputs, from_core', core')
    <2>1. Continuing(r, llm.stream[r], client.outputs, from_core, core)
      BY DEF Continues
    <2> QED
      BY <1>2, <1>3, <1>4, <2>1, KeepFirst
  <1>7. ASSUME NEW r \in Reqs, Untouched(r, client.outputs, from_core, core)
        PROVE  Untouched(r, client.outputs, from_core', core')
    BY <1>4, <1>5, <1>7 DEF Untouched
  <1>8. llm' \in LLMs /\ client' \in Clients /\ Streams'
    BY <1>1 DEF Types, Streams
  <1> QED
    BY <1>1, <1>5, <1>6, <1>7, <1>8, CoreGoneStep DEF Gone

-----------------------------------------------------------------------------
(* The client's reader and AsyncLLM's output handler. *)

(* _die fails the waiting calls and puts the death behind the outputs read. *)
LEMMA DieEffect ==
    ASSUME NEW c \in Clients
    PROVE  /\ Die(c) \in Clients /\ Die(c).error
           /\ Die(c).outputs \in {c.outputs, Append(c.outputs, Dead)}
           /\ Die(c).reader = c.reader
           /\ \A x \in Calls : Die(c).futures[x] \in {c.futures[x], "failed"}
  <1>1. Die(c).futures \in {c.futures, FailPending(c.futures)}
    BY DEF Die, Clients
  <1>2. \A x \in Calls : FailPending(c.futures)[x] \in {c.futures[x], "failed"}
    BY DEF FailPending
  <1>3. /\ Die(c).error /\ Die(c).outputs \in {c.outputs, Append(c.outputs, Dead)}
        /\ Die(c).reader = c.reader
    BY DEF Die, Clients
  <1> QED
    BY <1>1, <1>2, <1>3, DieType

(* Steps of the client alone, on what has arrived. *)
LEMMA ClientStep ==
    ASSUME Linked, handler' = handler, llm' = llm, to_core' = to_core, core' = core,
           client' \in Clients, from_core' \in Seq(FromCore),
           client'.error => ~core.up,
           \A i \in 1..Len(from_core') : \E j \in 1..Len(from_core) : from_core'[i] = from_core[j],
           \A i \in 1..Len(client'.outputs) : client'.outputs[i] = Dead => client'.error,
           \A c \in Calls : client'.futures[c] = "failed" => client'.error \/ llm.stopped,
           \A r \in Reqs : client'.futures[r] = "refused" =>
              client.futures[r] = "refused"
              \/ \E i \in 1..Len(from_core) : from_core[i] = <<"added", r, "refused">>,
           \A r \in Reqs :
              /\ Continuing(r, llm.stream[r], client.outputs, from_core, core) =>
                    Continuing(r, llm.stream[r], client'.outputs, from_core', core)
              /\ Untouched(r, client.outputs, from_core, core) =>
                    Untouched(r, client'.outputs, from_core', core)
    PROVE  Linked'
  <1> USE DEF Linked
  <1>1. Types'
    BY DEF Types
  <1>2. Continues'
    BY DEF Continues, Types, LLMs
  <1>3. AddedOnce'
    BY DEF AddedOnce
  <1>4. Refused'
    <2>1. ASSUME NEW r \in Reqs,
                 \/ client'.futures[r] = "refused"
                 \/ \E i \in 1..Len(from_core') : from_core'[i] = <<"added", r, "refused">>
          PROVE  r \notin core.live /\ ~Adding(r, to_core) /\ handler[r].pc # "idle"
      <3>1. \/ client.futures[r] = "refused"
            \/ \E i \in 1..Len(from_core) : from_core[i] = <<"added", r, "refused">>
        BY <2>1
      <3> QED
        BY <3>1 DEF Refused
    <2> QED
      BY <2>1 DEF Refused
  <1>5. Reader' /\ Tracked' /\ Streams'
    BY DEF Reader, Tracked, Streams
  <1>6. Gone'
    BY DEF Gone
  <1> QED
    BY <1>1, <1>2, <1>3, <1>4, <1>5, <1>6

(* _read_outputs hands batches over in the order they were sent. *)
LEMMA ReadMessageStep ==
    ASSUME Linked, ReadMessage
    PROVE  Linked'
  <1> USE DEF Linked
  <1> DEFINE m == Head(from_core)
             rest == Tail(from_core)
  <1>1. /\ from_core # << >> /\ from_core' = rest
        /\ handler' = handler /\ llm' = llm /\ to_core' = to_core /\ core' = core
    BY DEF ReadMessage
  <1>2. /\ from_core \in Seq(FromCore) /\ client.outputs \in Seq(Read1)
        /\ client \in Clients /\ Dead \in Read1
    BY DEF Types, Clients, Read1
  <1>3. /\ rest \in Seq(FromCore) /\ m \in FromCore
        /\ 1 \in 1..Len(from_core) /\ m = from_core[1]
        /\ \A i \in 1..Len(rest) : i + 1 \in 1..Len(from_core) /\ rest[i] = from_core[i + 1]
    BY <1>1, <1>2, TailFacts
  <1>4. \A i \in 1..Len(rest) : \E j \in 1..Len(from_core) : rest[i] = from_core[j]
    BY <1>3
  <1>5. client.error => ~core.up
    BY DEF Gone
  <1>6. CASE m \in Outputs
    <2>1. client' = [client EXCEPT !.outputs = Append(@, m)]
      BY <1>6 DEF ReadMessage, Outputs
    <2>2. m \in Read1 /\ m # Dead
      BY <1>6 DEF Read1, Outputs, Dead
    <2> HIDE DEF m, rest
    <2>3. /\ client' \in Clients /\ client'.outputs = Append(client.outputs, m)
          /\ client'.error = client.error /\ client'.futures = client.futures
      <3>1. Append(client.outputs, m) \in Seq(Read1)
        BY <1>2, <2>2, AppendFacts
      <3>2. \A c \in Clients : \A q \in Seq(Read1) :
               [c EXCEPT !.outputs = q] \in Clients
        BY DEF Clients, Read1
      <3> QED
        BY <1>2, <2>1, <3>1, <3>2 DEF Clients
    <2>4. \A i \in 1..Len(client'.outputs) : client'.outputs[i] = Dead => client'.error
      <3>1. /\ Len(client'.outputs) = Len(client.outputs) + 1
            /\ \A i \in 1..Len(client.outputs) : client'.outputs[i] = client.outputs[i]
            /\ client'.outputs[Len(client.outputs) + 1] = m
            /\ \A i \in 1..Len(client.outputs) + 1 :
                  i \in 1..Len(client.outputs) \/ i = Len(client.outputs) + 1
        BY <1>2, <2>2, <2>3, AppendFacts
      <3> QED
        BY <2>2, <2>3, <3>1 DEF Gone
    <2>5. \A r \in Reqs :
             /\ Continuing(r, llm.stream[r], client.outputs, from_core, core) =>
                   Continuing(r, llm.stream[r], client'.outputs, from_core', core)
             /\ Untouched(r, client.outputs, from_core, core) =>
                   Untouched(r, client'.outputs, from_core', core)
      BY <1>1, <1>2, <1>6, <2>3, MoveRead DEF m, rest
    <2> QED
      BY <1>1, <1>3, <1>4, <1>5, <2>3, <2>4, <2>5, ClientStep DEF Gone
  <1>7. ASSUME \A r : ~Carries(m, r)
        PROVE  \A r \in Reqs :
                  /\ Continuing(r, llm.stream[r], client.outputs, from_core, core) =>
                        Continuing(r, llm.stream[r], client.outputs, from_core', core)
                  /\ Untouched(r, client.outputs, from_core, core) =>
                        Untouched(r, client.outputs, from_core', core)
    BY <1>1, <1>2, <1>7, DropSentQuiet
  <1>8. CASE m[1] \in {"added", "metrics"}
    <2>1. PICK x \in Calls, a \in {"ok", "refused"} :
             /\ client' = [client EXCEPT !.futures[x] = IF @ = "waiting" THEN a ELSE @]
             /\ a = "refused" => m = <<"added", x, "refused">>
      <3>1. CASE m[1] = "added"
        <4>1. m[2] \in Calls /\ m[3] \in {"ok", "refused"} /\ m = <<"added", m[2], m[3]>>
          BY <1>3, <3>1 DEF FromCore, Dead, Outputs, Calls
        <4>2. client' = [client EXCEPT !.futures[m[2]] = IF @ = "waiting" THEN m[3] ELSE @]
          BY <3>1 DEF ReadMessage
        <4> QED
          BY <4>1, <4>2
      <3>2. CASE m[1] = "metrics"
        <4>1. m[2] \in Calls
          BY <1>3, <3>2 DEF FromCore, Dead, Outputs, Calls
        <4>2. client' = [client EXCEPT !.futures[m[2]] = IF @ = "waiting" THEN "ok" ELSE @]
          BY <3>2 DEF ReadMessage
        <4> QED
          BY <4>1, <4>2
      <3> QED
        BY <1>8, <3>1, <3>2
    <2>2. \A r : ~Carries(m, r)
      BY <1>8 DEF Carries, Outputs
    <2> HIDE DEF m, rest
    <2>3. /\ client' \in Clients /\ client'.outputs = client.outputs
          /\ client'.error = client.error
          /\ \A c \in Calls : client'.futures[c] = client.futures[c]
                \/ (c = x /\ client'.futures[c] = a)
      BY <1>2, <2>1 DEF Clients
    <2>4. \A c \in Calls : client'.futures[c] = "failed" => client'.error \/ llm.stopped
      BY <2>3 DEF Gone
    <2>5. \A r \in Reqs : client'.futures[r] = "refused" =>
             client.futures[r] = "refused"
             \/ \E i \in 1..Len(from_core) : from_core[i] = <<"added", r, "refused">>
      BY <1>3, <2>1, <2>3 DEF Calls
    <2> QED
      BY <1>1, <1>3, <1>4, <1>5, <1>7, <2>2, <2>3, <2>4, <2>5, ClientStep DEF Gone
  <1>9. CASE m = Dead
    <2> DEFINE c == [client EXCEPT !.reader = FALSE]
    <2>1. client' = Die(c)
      BY <1>9 DEF ReadMessage, Dead
    <2>2. ~core.up
      BY <1>3, <1>9 DEF Gone
    <2>3. \A r : ~Carries(m, r)
      BY <1>9, DeadCarriesNothing
    <2>3a. c \in Clients /\ c.outputs = client.outputs /\ c.futures = client.futures
      BY <1>2 DEF Clients
    <2> HIDE DEF m, rest, c
    <2>4. /\ client' \in Clients /\ client'.error
          /\ client'.outputs \in {client.outputs, Append(client.outputs, Dead)}
          /\ \A x \in Calls : client'.futures[x] \in {client.futures[x], "failed"}
      BY <2>1, <2>3a, DieEffect
    <2>5. \A r \in Reqs :
             /\ Continuing(r, llm.stream[r], client.outputs, from_core, core) =>
                   Continuing(r, llm.stream[r], client'.outputs, from_core', core)
             /\ Untouched(r, client.outputs, from_core, core) =>
                   Untouched(r, client'.outputs, from_core', core)
      <3> TAKE r \in Reqs
      <3>1. from_core' \in Seq(FromCore)
        BY <1>1, <1>3
      <3>2. /\ Continuing(r, llm.stream[r], client.outputs, from_core', core) =>
                  Continuing(r, llm.stream[r], Append(client.outputs, Dead), from_core', core)
            /\ Untouched(r, client.outputs, from_core', core) =>
                  Untouched(r, Append(client.outputs, Dead), from_core', core)
        BY <1>2, <3>1, AppendReadQuiet, DeadCarriesNothing
      <3> QED
        BY <1>7, <2>3, <2>4, <3>2
    <2>6. \A r \in Reqs : client'.futures[r] = "refused" => client.futures[r] = "refused"
      BY <2>4 DEF Calls
    <2> QED
      BY <1>1, <1>3, <1>4, <2>2, <2>4, <2>5, <2>6, ClientStep
  <1>10. m \in Outputs \/ m[1] \in {"added", "metrics"} \/ m = Dead
    BY <1>3 DEF FromCore
  <1> QED
    BY <1>6, <1>8, <1>9, <1>10

(* _on_process_exit: the death is noticed while outputs are still unread. *)
LEMMA ProcessExitStep ==
    ASSUME Linked, ProcessExit
    PROVE  Linked'
  <1> USE DEF Linked
  <1> DEFINE c == [client EXCEPT !.sentinel = FALSE]
  <1>1. /\ ~core.up /\ client' = Die(c) /\ from_core' = from_core
        /\ handler' = handler /\ llm' = llm /\ to_core' = to_core /\ core' = core
    BY DEF ProcessExit
  <1>2. /\ c \in Clients /\ c.outputs = client.outputs /\ c.futures = client.futures
        /\ client.outputs \in Seq(Read1) /\ from_core \in Seq(FromCore) /\ Dead \in Read1
    BY DEF Types, Clients, Read1
  <1> HIDE DEF c
  <1>3. /\ client' \in Clients /\ client'.error
        /\ client'.outputs \in {client.outputs, Append(client.outputs, Dead)}
        /\ \A x \in Calls : client'.futures[x] \in {client.futures[x], "failed"}
    BY <1>1, <1>2, DieEffect
  <1>4. \A r \in Reqs :
           /\ Continuing(r, llm.stream[r], client.outputs, from_core, core) =>
                 Continuing(r, llm.stream[r], client'.outputs, from_core', core)
           /\ Untouched(r, client.outputs, from_core, core) =>
                 Untouched(r, client'.outputs, from_core', core)
    <2> TAKE r \in Reqs
    <2>1. /\ Continuing(r, llm.stream[r], client.outputs, from_core, core) =>
                Continuing(r, llm.stream[r], Append(client.outputs, Dead), from_core, core)
          /\ Untouched(r, client.outputs, from_core, core) =>
                Untouched(r, Append(client.outputs, Dead), from_core, core)
      BY <1>2, AppendReadQuiet, DeadCarriesNothing
    <2> QED
      BY <1>1, <1>3, <2>1
  <1>5. \A r \in Reqs : client'.futures[r] = "refused" => client.futures[r] = "refused"
    BY <1>3 DEF Calls
  <1> QED
    BY <1>1, <1>2, <1>3, <1>4, <1>5, ClientStep

(* Everybody still reading is told: AsyncLLM._die and AsyncLLM.stop end    *)
(* each stream that was being fed.                                         *)
LEMMA FailAllStreams ==
    ASSUME Types, Continues \/ Severed, Streams, NEW l \in LLMs,
           l.states = llm.states, l.stream = llm.stream, llm' = FailAll(l)
    PROVE  /\ llm' \in LLMs /\ Streams' /\ llm'.states = {}
           /\ llm'.dead = l.dead /\ llm'.stopped = l.stopped
           /\ \A r \in Reqs \ llm.states : llm'.stream[r] = llm.stream[r]
  <1>1. llm' \in LLMs
    BY FailAllType
  <1>2. llm'.states = {} /\ llm'.dead = l.dead /\ llm'.stopped = l.stopped
    BY DEF FailAll, LLMs
  <1>3. \A r \in Reqs : llm'.stream[r] =
           IF r \in llm.states THEN Append(llm.stream[r], Item(0, "error")) ELSE llm.stream[r]
    BY DEF FailAll, LLMs
  <1>4. ASSUME NEW r \in Reqs
        PROVE  Faithful(llm'.stream[r])
    <2>1. CASE r \notin llm.states
      BY <1>3, <2>1 DEF Streams
    <2>2. CASE r \in llm.states
      <3>1. Item(0, "error") \in Items /\ Item(0, "error").end = "error"
        BY DEF Item, Items
      <3>2. llm.stream[r] \in Seq(Items)
        BY DEF Types, LLMs
      <3>3. \A i \in 1..Len(llm.stream[r]) : llm.stream[r][i] = Item(i, "more")
        BY <2>2 DEF Continues, Severed, Continuing
      <3> QED
        BY <1>3, <2>2, <3>1, <3>2, <3>3, FaithfulAppend
    <2> QED
      BY <2>1, <2>2
  <1>5. Streams'
    BY <1>4 DEF Streams
  <1> QED
    BY <1>1, <1>2, <1>3, <1>5

(* OutputProcessor.process_outputs, request by request. *)
LEMMA ProcessOutputsEffect ==
    ASSUME NEW l \in LLMs, NEW outs
    PROVE  /\ ProcessOutputs(l, outs).dead = l.dead
           /\ ProcessOutputs(l, outs).stopped = l.stopped
           /\ ProcessOutputs(l, outs).states =
                 {r \in l.states : r \in DOMAIN outs => outs[r].end = "more"}
           /\ \A r \in Reqs : ProcessOutputs(l, outs).stream[r] =
                 IF r \in l.states \cap DOMAIN outs THEN Append(l.stream[r], outs[r])
                 ELSE l.stream[r]
  BY DEF ProcessOutputs, LLMs

(* OutputProcessor.process_outputs: what a batch holds for a stream is its *)
(* next output, and only one whose last output it is stops being fed.      *)
LEMMA OutputsTaken ==
    ASSUME Types, Streams, NEW p \in Seq(FromCore), NEW c,
           \A r \in Reqs : c.made[r] \in Nat,
           \A r \in llm.states : Continuing(r, llm.stream[r], client.outputs, p, c),
           client.outputs # << >>, Head(client.outputs) \in Outputs,
           llm' = ProcessOutputs(llm, Head(client.outputs)[2])
    PROVE  /\ llm' \in LLMs /\ Streams'
           /\ llm'.dead = llm.dead /\ llm'.stopped = llm.stopped
           /\ llm'.states \subseteq llm.states
           /\ \A r \in llm.states \ llm'.states :
                 Carries(Head(client.outputs), r) /\ r \notin c.live
           /\ \A r \in Reqs \ llm.states : llm'.stream[r] = llm.stream[r]
           /\ \A r \in llm'.states : Continuing(r, llm'.stream[r], Tail(client.outputs), p, c)
  <1> DEFINE q == client.outputs
             m == Head(q)
             outs == m[2]
  <1>1. /\ q \in Seq(Read1) /\ q # << >> /\ llm \in LLMs /\ llm.states \subseteq Reqs
        /\ \A r \in Reqs : llm.stream[r] \in Seq(Items)
    BY DEF Types, Clients, Read1, LLMs
  <1>2. 1 \in 1..Len(q) /\ m = q[1]
    BY <1>1, TailFacts
  <1>3. outs \in Batches /\ \A r : Carries(m, r) <=> r \in DOMAIN outs
    BY DEF Outputs, Carries
  <1>4. llm' = ProcessOutputs(llm, outs)
    OBVIOUS
  <1> HIDE DEF outs, m, q
  <1>5. llm' \in LLMs
    BY <1>1, <1>3, <1>4, ProcessOutputsType
  <1>6. /\ llm'.dead = llm.dead /\ llm'.stopped = llm.stopped
        /\ llm'.states = {r \in llm.states : r \in DOMAIN outs => outs[r].end = "more"}
    BY <1>1, <1>4, ProcessOutputsEffect
  <1>7. \A r \in Reqs : llm'.stream[r] =
           IF r \in llm.states \cap DOMAIN outs THEN Append(llm.stream[r], outs[r])
           ELSE llm.stream[r]
    BY <1>1, <1>4, ProcessOutputsEffect
  <1>8. ASSUME NEW r \in llm.states, r \in DOMAIN outs
        PROVE  /\ outs[r] \in Items /\ outs[r].n = Len(llm.stream[r]) + 1
               /\ outs[r].end \in {"more", "final"}
               /\ outs[r].end = "more" =>
                     Continuing(r, Append(llm.stream[r], outs[r]), Tail(q), p, c)
               /\ outs[r].end # "more" => r \notin c.live
    <2>1. Continuing(r, llm.stream[r], q, p, c)
      BY DEF q
    <2>2. Carries(m, r)
      BY <1>3, <1>8
    <2>3. r \in c.live => outs[r].end = "more"
      BY <1>2, <2>1, <2>2 DEF Continuing, Follows, outs
    <2>4. r \in Reqs /\ llm.stream[r] \in Seq(Items) /\ c.made[r] \in Nat
      BY <1>1
    <2>5. Carries(Head(q), r) /\ Head(q)[2] = outs
      BY <2>2 DEF m, outs
    <2>6. /\ Head(q)[2][r] \in Items /\ Head(q)[2][r].n = Len(llm.stream[r]) + 1
          /\ Head(q)[2][r].end \in {"more", "final"}
          /\ Head(q)[2][r].end = "more" =>
                Continuing(r, Append(llm.stream[r], Head(q)[2][r]), Tail(q), p, c)
      BY <1>1, <2>1, <2>4, <2>5, TakeNext
    <2> QED
      BY <2>3, <2>5, <2>6
  <1>9. ASSUME NEW r \in llm'.states
        PROVE  Continuing(r, llm'.stream[r], Tail(q), p, c)
    <2>1. r \in llm.states /\ (r \in DOMAIN outs => outs[r].end = "more") /\ r \in Reqs
      BY <1>1, <1>6
    <2>2. CASE r \in DOMAIN outs
      <3>1. llm'.stream[r] = Append(llm.stream[r], outs[r])
        BY <1>7, <2>1, <2>2
      <3> QED
        BY <1>8, <2>1, <2>2, <3>1
    <2>3. CASE r \notin DOMAIN outs
      <3>1. llm'.stream[r] = llm.stream[r]
        BY <1>7, <2>1, <2>3
      <3>2. Continuing(r, llm.stream[r], q, p, c) /\ ~Carries(Head(q), r)
        BY <1>3, <2>1, <2>3 DEF m, q
      <3> QED
        BY <1>1, <3>1, <3>2, TakeQuiet
    <2> QED
      BY <2>2, <2>3
  <1>10. ASSUME NEW r \in Reqs
         PROVE  Faithful(llm'.stream[r])
    <2>1. CASE r \in llm.states /\ r \in DOMAIN outs
      <3>1. llm'.stream[r] = Append(llm.stream[r], outs[r])
        BY <1>7, <2>1
      <3>2. \A i \in 1..Len(llm.stream[r]) : llm.stream[r][i] = Item(i, "more")
        BY <2>1 DEF Continuing
      <3> QED
        BY <1>1, <1>8, <2>1, <3>1, <3>2, FaithfulAppend
    <2>2. CASE ~(r \in llm.states /\ r \in DOMAIN outs)
      BY <1>7, <2>2 DEF Streams
    <2> QED
      BY <2>1, <2>2
  <1>11. Streams'
    BY <1>10 DEF Streams
  <1>12. \A r \in llm.states \ llm'.states : Carries(m, r) /\ r \notin c.live
    BY <1>3, <1>6, <1>8
  <1> QED
    BY <1>5, <1>6, <1>7, <1>9, <1>11, <1>12 DEF m, q

(* AsyncLLM._handle_outputs: each output taken is the next of its stream,  *)
(* and a request whose last output it is has left the engine.              *)
LEMMA HandleOutputsStep ==
    ASSUME Linked, HandleOutputs
    PROVE  Linked'
  <1> USE DEF Linked
  <1> DEFINE q == client.outputs
             m == Head(q)
  <1>1. /\ q # << >> /\ client' = [client EXCEPT !.outputs = Tail(@)]
        /\ handler' = handler /\ to_core' = to_core /\ from_core' = from_core /\ core' = core
    BY DEF HandleOutputs
  <1>2. /\ from_core \in Seq(FromCore) /\ q \in Seq(Read1) /\ client \in Clients
        /\ llm \in LLMs /\ llm.states \subseteq Reqs
        /\ \A r \in Reqs : llm.stream[r] \in Seq(Items) /\ core.made[r] \in Nat
    BY DEF Types, Clients, Read1, LLMs, Cores
  <1>3. /\ Tail(q) \in Seq(Read1) /\ m \in Read1
        /\ 1 \in 1..Len(q) /\ m = q[1]
        /\ \A i \in 1..Len(Tail(q)) : i + 1 \in 1..Len(q) /\ Tail(q)[i] = q[i + 1]
    BY <1>1, <1>2, TailFacts
  <1>4. /\ client' \in Clients /\ client'.outputs = Tail(q)
        /\ client'.error = client.error /\ client'.futures = client.futures
    <2>1. \A c \in Clients : \A s \in Seq(Read1) : [c EXCEPT !.outputs = s] \in Clients
      BY DEF Clients, Read1
    <2> QED
      BY <1>1, <1>2, <1>3, <2>1 DEF Clients
  <1> HIDE DEF m
  <1>5. \A r \in Reqs : Untouched(r, q, from_core, core) => Untouched(r, Tail(q), from_core, core)
    BY <1>1, <1>2, TakeQuiet
  <1>6. \A i \in 1..Len(Tail(q)) : Tail(q)[i] = Dead => client.error
    BY <1>3 DEF Gone
  <1>7. \A r \in Reqs : handler[r].pc = "idle" => r \notin llm.states
    BY DEF Tracked
  <1>8. Refused'
    BY <1>1, <1>4 DEF Refused
  <1>9. CASE m = Dead
    <2> DEFINE l == [llm EXCEPT !.dead = TRUE]
    <2>1. llm' = FailAll(l)
      BY <1>9 DEF HandleOutputs, m
    <2>2. /\ l \in LLMs /\ l.states = llm.states /\ l.stream = llm.stream
          /\ l.stopped = llm.stopped
      BY <1>2 DEF LLMs
    <2> HIDE DEF l
    <2>3. /\ llm' \in LLMs /\ Streams' /\ llm'.states = {} /\ llm'.stopped = llm.stopped
          /\ \A r \in Reqs \ llm.states : llm'.stream[r] = llm.stream[r]
      BY <2>1, <2>2, FailAllStreams
    <2>4. ~core.up /\ core.live = {} /\ to_core = << >>
      BY <1>3, <1>9 DEF Gone
    <2>5. \A i \in 1..Len(to_core) : FALSE
      BY <2>4
    <2>6. Types'
      BY <1>1, <1>4, <2>3 DEF Types
    <2>7. AddedOnce'
      BY <1>1, <1>4, <1>5, <1>7, <2>3 DEF AddedOnce
    <2>8. Gone'
      BY <1>1, <1>4, <1>6, <2>3, <2>4 DEF Gone
    <2> QED
      BY <1>1, <1>8, <2>3, <2>4, <2>5, <2>6, <2>7, <2>8 DEF Continues, Tracked, Reader
  <1>10. CASE m \in Outputs
    <2>1. llm' = ProcessOutputs(llm, m[2])
      BY <1>10 DEF HandleOutputs, m, Outputs, Dead
    <2>2. /\ llm' \in LLMs /\ Streams'
          /\ llm'.dead = llm.dead /\ llm'.stopped = llm.stopped
          /\ llm'.states \subseteq llm.states
          /\ \A r \in llm.states \ llm'.states : Carries(m, r) /\ r \notin core.live
          /\ \A r \in Reqs \ llm.states : llm'.stream[r] = llm.stream[r]
          /\ \A r \in llm'.states : Continuing(r, llm'.stream[r], Tail(q), from_core, core)
      <3>1. \A r \in llm.states : Continuing(r, llm.stream[r], q, from_core, core)
        BY DEF Continues
      <3> QED
        BY <1>1, <1>2, <1>10, <2>1, <3>1, OutputsTaken DEF m
    <2>3. Types'
      BY <1>1, <1>4, <2>2 DEF Types
    <2>4. AddedOnce'
      <3>1. \A r \in Reqs : handler[r].pc = "idle" => llm'.stream[r] = llm.stream[r]
        BY <1>7, <2>2
      <3> QED
        BY <1>1, <1>4, <1>5, <3>1 DEF AddedOnce
    <2>5. Reader'
      <3>1. \A r \in core.live : r \in llm.states => r \in llm'.states
        BY <2>2
      <3>2. ASSUME NEW r \in Reqs, Adding(r, to_core), r \in llm.states
            PROVE  r \in llm'.states
        <4>1. ~Carries(m, r)
          BY <1>3, <3>2 DEF AddedOnce, Untouched
        <4> QED
          BY <2>2, <3>2, <4>1
      <3>3. ASSUME NEW r \in Reqs, NEW i \in 1..Len(to_core), to_core[i] = <<"add", r>>
            PROVE  r \in llm'.states \/ Aborting(r, to_core, i)
        <4>1. Adding(r, to_core)
          BY <3>3 DEF Adding
        <4> QED
          BY <3>2, <3>3, <4>1 DEF Reader
      <3> QED
        BY <1>1, <3>1, <3>3 DEF Reader
    <2>6. Gone'
      BY <1>1, <1>4, <1>6, <2>2 DEF Gone
    <2>7. Tracked'
      BY <1>1, <2>2 DEF Tracked
    <2>8. Continues'
      BY <1>1, <1>4, <2>2 DEF Continues
    <2> QED
      BY <1>8, <2>2, <2>3, <2>4, <2>5, <2>6, <2>7, <2>8
  <1> QED
    BY <1>3, <1>9, <1>10 DEF Read1

(* AsyncLLM.stop at any moment. *)
LEMMA StopStep ==
    ASSUME Linked, Stop
    PROVE  Linked'
  <1> USE DEF Linked
  <1> DEFINE l == [llm EXCEPT !.stopped = TRUE]
  <1>1. /\ llm' = FailAll(l) /\ core' = CoreGone /\ to_core' = << >> /\ from_core' = << >>
        /\ client' = [client EXCEPT !.futures = FailPending(@), !.sentinel = FALSE,
                                   !.reader = FALSE]
        /\ handler' = handler
    BY DEF Stop
  <1>2. l \in LLMs /\ l.states = llm.states /\ l.stream = llm.stream /\ l.stopped
    BY DEF Types, LLMs
  <1> HIDE DEF l
  <1>3. /\ llm' \in LLMs /\ Streams' /\ llm'.states = {} /\ llm'.stopped
        /\ \A r \in Reqs \ llm.states : llm'.stream[r] = llm.stream[r]
    BY <1>1, <1>2, FailAllStreams
  <1>4. /\ FailPending(client.futures) \in [Calls -> {"none", "waiting", "ok", "refused", "failed"}]
        /\ \A x \in Calls : FailPending(client.futures)[x] \in {client.futures[x], "failed"}
    BY DEF FailPending, Types, Clients
  <1>5. /\ client' \in Clients /\ client'.outputs = client.outputs /\ client'.error = client.error
        /\ \A x \in Calls : client'.futures[x] \in {client.futures[x], "failed"}
    BY <1>1, <1>4 DEF Types, Clients
  <1>6. /\ from_core' \in Seq(FromCore) /\ \A i \in 1..Len(from_core') : FALSE
    <2>1. << >> \in Seq(FromCore) /\ Len(<< >>) = 0
      OBVIOUS
    <2> QED
      BY <1>1, <2>1
  <1>7. ASSUME NEW r \in Reqs, Untouched(r, client.outputs, from_core, core)
        PROVE  Untouched(r, client'.outputs, from_core', core')
    BY <1>1, <1>5, <1>6, <1>7 DEF Untouched, CoreGone
  <1>8. \A r \in Reqs : handler[r].pc = "idle" => llm'.stream[r] = llm.stream[r]
    BY <1>3 DEF Tracked
  <1>9. \A r \in Reqs : client'.futures[r] = "refused" => client.futures[r] = "refused"
    BY <1>5 DEF Calls
  <1>10. \A i \in 1..Len(client'.outputs) : client'.outputs[i] = Dead => client'.error
    BY <1>5 DEF Gone
  <1> QED
    BY <1>1, <1>3, <1>5, <1>6, <1>7, <1>8, <1>9, <1>10, CoreGoneStep

-----------------------------------------------------------------------------
(* After a failed read. *)

(* The death of a client that reads no longer is behind what it has read,  *)
(* and nothing else of its core reaches a stream.                          *)
LEMMA ReadFailsStep ==
    ASSUME Linked, ReadFails
    PROVE  Severed'
  <1> USE DEF Linked
  <1> DEFINE c == [client EXCEPT !.reader = FALSE]
  <1>1. /\ from_core # << >> /\ from_core' = Tail(from_core) /\ client' = Die(c)
        /\ handler' = handler /\ llm' = llm /\ to_core' = to_core /\ core' = core
    BY DEF ReadFails
  <1>2. /\ c \in Clients /\ c.outputs = client.outputs /\ ~c.reader
        /\ from_core \in Seq(FromCore) /\ client.outputs \in Seq(Read1) /\ Dead \in Read1
        /\ \A r \in llm.states : r \in Reqs /\ llm.stream[r] \in Seq(Items)
    BY DEF Types, Clients, Read1, LLMs
  <1> HIDE DEF c
  <1>3. /\ client' \in Clients /\ client'.error /\ client'.reader = c.reader
        /\ client'.outputs \in {client.outputs, Append(client.outputs, Dead)}
    BY <1>1, <1>2, DieEffect
  <1>4. Types'
    <2>1. from_core' \in Seq(FromCore)
      BY <1>1, <1>2, TailFacts
    <2> QED
      BY <1>1, <1>3, <2>1 DEF Types
  <1>5. ASSUME NEW r \in llm.states
        PROVE  Continuing(r, llm.stream[r], client'.outputs, << >>, CoreGone)
    <2>1. Continuing(r, llm.stream[r], client.outputs, from_core, core)
      BY DEF Continues
    <2>2. 0 \in 0..Len(from_core) /\ SubSeq(from_core, 1, 0) = << >> /\ << >> \in Seq(FromCore)
      BY <1>2
    <2>3. ~CoreGone.up /\ r \notin CoreGone.live
      BY DEF CoreGone
    <2>4. Continuing(r, llm.stream[r], client.outputs, SubSeq(from_core, 1, 0), CoreGone)
      BY <1>2, <2>1, <2>2, <2>3, KeepFirst
    <2>5. Continuing(r, llm.stream[r], client.outputs, << >>, CoreGone)
      BY <2>2, <2>4
    <2>6. Continuing(r, llm.stream[r], Append(client.outputs, Dead), << >>, CoreGone)
      BY <1>2, <2>2, <2>5, AppendReadQuiet, DeadCarriesNothing
    <2> QED
      BY <1>3, <2>5, <2>6
  <1>6. Tracked' /\ Streams'
    BY <1>1 DEF Tracked, Streams
  <1> QED
    BY <1>1, <1>2, <1>3, <1>4, <1>5, <1>6 DEF Severed

(* A handler moves on: at most it ends its own stream. *)
LEMMA SeveredHandler ==
    ASSUME Severed, NEW r \in Reqs, OnlyHandler(r),
           UNCHANGED <<client, to_core, from_core, core>>,
           llm' = llm \/ llm' = PopState(llm, r),
           r \in llm'.states => handler'[r].pc \in {"waiting", "reading", "closing"}
    PROVE  Severed'
  <1> USE DEF Severed
  <1>1. /\ llm' \in LLMs /\ Streams' /\ llm'.stopped = llm.stopped
        /\ llm'.states \subseteq llm.states /\ llm.states \subseteq Reqs
        /\ \A x \in llm'.states : llm'.stream[x] = llm.stream[x]
    <2>1. llm.states \subseteq Reqs
      BY DEF Types, LLMs
    <2>2. CASE llm' = llm
      BY <2>1, <2>2 DEF Streams, Types
    <2>3. CASE llm' = PopState(llm, r)
      BY <2>1, <2>3, PopStateStreams
    <2> QED
      BY <2>2, <2>3
  <1>2. Types'
    BY <1>1 DEF Types, OnlyHandler
  <1>3. Tracked'
    BY <1>1 DEF Tracked, OnlyHandler
  <1> QED
    BY <1>1, <1>2, <1>3

(* The handlers of requests send nothing to a core that was given up. *)
LEMMA SeveredCalls ==
    ASSUME Severed, NEW r \in Reqs,
           \/ Serve(r) \/ AddReturns(r) \/ CancelAdd(r)
           \/ Read(r) \/ Disconnect(r) \/ Close(r)
    PROVE  Severed'
  <1> USE DEF Severed
  <1>0. /\ \A l : l = PopState(llm, r) => r \notin l.states
        /\ EngineAbort(r) => llm' = PopState(llm, r) /\ client' = client /\ to_core' = to_core
    BY DEF PopState, EngineAbort, Types, LLMs
  <1>1. CASE Serve(r)
    <2>1. Goto(r, "done") /\ UNCHANGED <<llm, client, to_core, from_core, core>>
      BY <1>1 DEF Serve
    <2>2. r \notin llm.states
      BY <1>1 DEF Serve, Tracked
    <2> QED
      BY <2>1, <2>2, GotoHandler, SeveredHandler
  <1>2. CASE AddReturns(r)
    <2>1. UNCHANGED <<client, to_core, from_core, core>>
      BY <1>2 DEF AddReturns
    <2>2. CASE Goto(r, "reading") /\ UNCHANGED llm
      BY <2>1, <2>2, GotoHandler, SeveredHandler
    <2>3. CASE Goto(r, "done") /\ llm' = PopState(llm, r)
      BY <1>0, <2>1, <2>3, GotoHandler, SeveredHandler
    <2> QED
      BY <1>2, <2>2, <2>3 DEF AddReturns
  <1>3. CASE CancelAdd(r) \/ Close(r)
    <2>1. Goto(r, "done") /\ EngineAbort(r) /\ UNCHANGED <<from_core, core>>
      BY <1>3 DEF CancelAdd, Close
    <2> QED
      BY <1>0, <2>1, GotoHandler, SeveredHandler
  <1>4. CASE Disconnect(r)
    <2>1. /\ Goto(r, "closing") /\ UNCHANGED <<client, to_core, from_core, core>>
          /\ llm' = llm \/ llm' = PopState(llm, r)
      BY <1>0, <1>4 DEF Disconnect
    <2> QED
      BY <2>1, GotoHandler, SeveredHandler
  <1>5. CASE Read(r)
    <2> DEFINE item == llm.stream[r][handler[r].read + 1]
               last == IF r \in Streaming THEN "closing" ELSE "done"
    <2>1. last \in {"closing", "done"} /\ handler[r].pc = "reading"
      BY <1>5 DEF Read
    <2>2. CASE item.end = "more" /\ handler' = [handler EXCEPT ![r].read = @ + 1]
               /\ UNCHANGED <<llm, client, to_core>>
      <3>1. OnlyHandler(r) /\ handler'[r].pc = "reading"
        BY <2>1, <2>2 DEF OnlyHandler, Types, Handlers, Calls
      <3> QED
        BY <1>5, <2>2, <3>1, SeveredHandler DEF Read
    <2>3. CASE Goto(r, last) /\ EngineAbort(r)
      <3>1. OnlyHandler(r)
        BY <2>1, <2>3, GotoHandler
      <3> QED
        BY <1>0, <1>5, <2>3, <3>1, SeveredHandler DEF Read
    <2>4. CASE item.end \in Ends /\ Goto(r, last) /\ UNCHANGED <<llm, client, to_core>>
      <3>1. OnlyHandler(r)
        BY <2>1, <2>4, GotoHandler
      <3>2. r \notin llm.states
        <4> SUFFICES ASSUME r \in llm.states PROVE FALSE
          OBVIOUS
        <4>1. handler[r].read + 1 \in 1..Len(llm.stream[r])
          BY <1>5 DEF Read, Types, Handlers, LLMs, Calls
        <4>2. item = Item(handler[r].read + 1, "more")
          BY <4>1 DEF Continuing
        <4> QED
          BY <2>4, <4>2 DEF Item, Ends
      <3> QED
        BY <1>5, <2>4, <3>1, <3>2, SeveredHandler DEF Read
    <2> QED
      BY <1>5, <2>2, <2>3, <2>4 DEF Read
  <1> QED
    BY <1>1, <1>2, <1>3, <1>4, <1>5

(* What the core does, if it lives on, concerns nobody. *)
LEMMA SeveredCore ==
    ASSUME Severed, CoreHandle \/ CoreStep \/ CoreDies \/ CoreKilled
    PROVE  Severed'
  <1> USE DEF Severed
  <1>1. handler' = handler /\ llm' = llm /\ client' = client
    BY DEF CoreHandle, CoreStep, CoreDies, CoreKilled
  <1>2. /\ to_core \in Seq(ToCore) /\ from_core \in Seq(FromCore) /\ core \in Cores
        /\ << >> \in Seq(ToCore) /\ CoreGone \in Cores /\ Dead \in FromCore
        /\ core.live \subseteq Reqs /\ \A r \in Reqs : core.made[r] \in Nat
    BY DEF Types, CoreGone, Cores, FromCore
  <1>3. to_core' \in Seq(ToCore) /\ from_core' \in Seq(FromCore) /\ core' \in Cores
    <2>1. CASE CoreHandle
      <3> DEFINE m == Head(to_core)
      <3>1. Tail(to_core) \in Seq(ToCore) /\ m \in ToCore /\ to_core' = Tail(to_core)
        BY <1>2, <2>1, TailFacts DEF CoreHandle
      <3>2. /\ m[1] \in {"add", "abort"} => m[2] \in Reqs
            /\ m[1] = "metrics" => m[2] = Scrape
        BY <3>1 DEF ToCore
      <3>3. CASE m[1] = "add"
        <4>1. \A a \in {"ok", "refused"} : <<"added", m[2], a>> \in FromCore
          BY <3>2, <3>3 DEF FromCore
        <4>2. [core EXCEPT !.live = @ \cup {m[2]}] \in Cores
          BY <1>2, <3>2, <3>3 DEF Cores
        <4>3. PICK a \in {"ok", "refused"} :
                 /\ core' \in {core, [core EXCEPT !.live = @ \cup {m[2]}]}
                 /\ from_core' = Append(from_core, <<"added", m[2], a>>)
          BY <2>1, <3>3 DEF CoreHandle
        <4>4. from_core' \in Seq(FromCore)
          BY <1>2, <4>1, <4>3, AppendFacts
        <4> HIDE DEF m
        <4> QED
          BY <1>2, <3>1, <4>2, <4>3, <4>4
      <3>4. CASE m[1] = "abort"
        <4>1. from_core' = from_core /\ core' = [core EXCEPT !.live = @ \ {m[2]}]
          BY <2>1, <3>4 DEF CoreHandle
        <4>2. core' \in Cores
          BY <1>2, <4>1 DEF Cores
        <4> QED
          BY <1>2, <3>1, <4>1, <4>2
      <3>5. CASE m[1] = "metrics"
        <4>1. from_core' = Append(from_core, <<"metrics", Scrape>>) /\ core' = core
          BY <2>1, <3>2, <3>5 DEF CoreHandle
        <4>2. <<"metrics", Scrape>> \in FromCore
          BY DEF FromCore
        <4> QED
          BY <1>2, <3>1, <4>1, <4>2, AppendFacts
      <3> QED
        BY <3>1, <3>3, <3>4, <3>5 DEF ToCore
    <2>2. CASE CoreStep
      <3>1. PICK S \in SUBSET core.live : \E end \in [S -> {"more", "final"}] :
               /\ core' = [core EXCEPT !.live = {r \in @ : r \in S => end[r] = "more"},
                                       !.made = [r \in Reqs |-> IF r \in S THEN @[r] + 1 ELSE @[r]]]
               /\ from_core' = Append(from_core,
                     <<"outputs", [r \in S |-> Item(core.made[r] + 1, end[r])]>>)
        BY <2>2 DEF CoreStep
      <3>2. PICK end \in [S -> {"more", "final"}] :
               /\ core' = [core EXCEPT !.live = {r \in @ : r \in S => end[r] = "more"},
                                       !.made = [r \in Reqs |-> IF r \in S THEN @[r] + 1 ELSE @[r]]]
               /\ from_core' = Append(from_core,
                     <<"outputs", [r \in S |-> Item(core.made[r] + 1, end[r])]>>)
        BY <3>1
      <3> DEFINE outs == [r \in S |-> Item(core.made[r] + 1, end[r])]
                 live == {r \in core.live : r \in S => end[r] = "more"}
                 made == [r \in Reqs |-> IF r \in S THEN core.made[r] + 1 ELSE core.made[r]]
      <3>3. outs \in Batches
        <4>1. \A r \in S : Item(core.made[r] + 1, end[r]) \in Items
          <5> TAKE r \in S
          <5>1. core.made[r] + 1 \in Nat /\ end[r] \in {"more", "final"}
            BY <1>2
          <5> QED
            BY <5>1 DEF Item, Items
        <4>2. outs \in [S -> Items] /\ S \subseteq Reqs
          BY <1>2, <4>1
        <4> QED
          BY <4>2 DEF Batches
      <3>4. live \subseteq core.live /\ made \in [Reqs -> Nat]
        BY <1>2
      <3>5. /\ core' = [core EXCEPT !.live = live, !.made = made]
            /\ from_core' = Append(from_core, <<"outputs", outs>>)
        BY <3>2
      <3> HIDE DEF outs, live, made
      <3>6. <<"outputs", outs>> \in FromCore
        BY <3>3 DEF FromCore, Outputs
      <3>7. core' \in Cores
        BY <1>2, <3>4, <3>5 DEF Cores
      <3>8. to_core' = to_core
        BY <2>2 DEF CoreStep
      <3> QED
        BY <1>2, <3>5, <3>6, <3>7, <3>8, AppendFacts
    <2>3. CASE CoreDies
      <3>1. from_core' = Append(from_core, Dead) /\ to_core' = << >> /\ core' = CoreGone
        BY <2>3 DEF CoreDies
      <3> QED
        BY <1>2, <3>1, AppendFacts
    <2>4. CASE CoreKilled
      <3>1. PICK n \in 0..Len(from_core) : from_core' = SubSeq(from_core, 1, n)
        BY <2>4 DEF CoreKilled
      <3>2. from_core' \in Seq(FromCore)
        BY <1>2, <3>1
      <3> QED
        BY <1>2, <2>4, <3>2 DEF CoreKilled
    <2> QED
      BY <2>1, <2>2, <2>3, <2>4
  <1>4. Types'
    BY <1>1, <1>3 DEF Types
  <1> QED
    BY <1>1, <1>4 DEF Tracked, Streams

(* The client hears of the end once more, the handler of outputs takes     *)
(* what is left, the server stops.                                         *)
LEMMA SeveredClient ==
    ASSUME Severed,
           \/ RenderMetrics \/ MetricsReturn
           \/ ReadMessage \/ ReadFails \/ ProcessExit \/ HandleOutputs \/ Stop
    PROVE  Severed'
  <1> USE DEF Severed
  <1>1. /\ client \in Clients /\ client.outputs \in Seq(Read1) /\ Dead \in Read1
        /\ llm \in LLMs /\ llm.states \subseteq Reqs
        /\ << >> \in Seq(FromCore) /\ << >> \in Seq(ToCore) /\ CoreGone \in Cores
        /\ \A r \in Reqs : CoreGone.made[r] \in Nat
    BY DEF Types, Clients, Read1, LLMs, CoreGone, Cores
  <1>2. CASE RenderMetrics \/ MetricsReturn
    <2>1. /\ client' = client /\ llm' = llm /\ to_core' = to_core /\ from_core' = from_core
          /\ core' = core /\ \E pc \in {"waiting", "done"} : Goto(Scrape, pc)
      BY <1>2 DEF RenderMetrics, MetricsReturn
    <2>2. Scrape \in Calls /\ Scrape \notin Reqs
      BY ServingAssumption DEF Calls
    <2>3. handler' \in Handlers
      BY <2>1, <2>2, GotoType DEF Types
    <2>4. \A r \in Reqs : handler'[r] = handler[r]
      BY <2>1, <2>2 DEF Goto, Types, Handlers, Calls
    <2>5. Types'
      BY <2>1, <2>3 DEF Types
    <2> QED
      BY <1>1, <2>1, <2>4, <2>5 DEF Tracked, Streams
  <1>3. CASE ReadMessage \/ ReadFails
    BY <1>3 DEF ReadMessage, ReadFails
  <1>4. CASE ProcessExit
    <2> DEFINE c == [client EXCEPT !.sentinel = FALSE]
    <2>1. /\ client' = Die(c) /\ llm' = llm /\ to_core' = to_core /\ from_core' = from_core
          /\ core' = core /\ handler' = handler
      BY <1>4 DEF ProcessExit
    <2>2. c \in Clients /\ c.outputs = client.outputs /\ ~c.reader
      BY <1>1 DEF Clients
    <2> HIDE DEF c
    <2>3. /\ client' \in Clients /\ client'.error /\ ~client'.reader
          /\ client'.outputs \in {client.outputs, Append(client.outputs, Dead)}
      BY <2>1, <2>2, DieEffect
    <2>4. \A r \in llm.states :
             Continuing(r, llm.stream[r], Append(client.outputs, Dead), << >>, CoreGone)
      BY <1>1, AppendReadQuiet, DeadCarriesNothing
    <2>5. Types'
      BY <2>1, <2>3 DEF Types
    <2> QED
      BY <2>1, <2>3, <2>4, <2>5 DEF Tracked, Streams
  <1>5. CASE HandleOutputs
    <2> DEFINE q == client.outputs
    <2>1. /\ q # << >> /\ client' = [client EXCEPT !.outputs = Tail(@)]
          /\ handler' = handler /\ to_core' = to_core /\ from_core' = from_core /\ core' = core
          /\ llm' = IF Head(q) = Dead THEN FailAll([llm EXCEPT !.dead = TRUE])
                    ELSE ProcessOutputs(llm, Head(q)[2])
      BY <1>5 DEF HandleOutputs
    <2>2. Tail(q) \in Seq(Read1) /\ Head(q) \in Read1
      BY <1>1, <2>1, TailFacts
    <2>3. /\ client' \in Clients /\ client'.outputs = Tail(q)
          /\ client'.error = client.error /\ client'.reader = client.reader
      <3>1. \A c \in Clients : \A s \in Seq(Read1) : [c EXCEPT !.outputs = s] \in Clients
        BY DEF Clients, Read1
      <3> QED
        BY <1>1, <2>1, <2>2, <3>1 DEF Clients
    <2>4. CASE Head(q) = Dead
      <3> DEFINE l == [llm EXCEPT !.dead = TRUE]
      <3>1. /\ l \in LLMs /\ l.states = llm.states /\ l.stream = llm.stream
            /\ l.stopped = llm.stopped /\ llm' = FailAll(l)
        BY <1>1, <2>1, <2>4 DEF LLMs
      <3> HIDE DEF l
      <3>2. llm' \in LLMs /\ Streams' /\ llm'.states = {} /\ llm'.stopped = llm.stopped
        BY <3>1, FailAllStreams
      <3>3. Types'
        BY <2>1, <2>3, <3>2 DEF Types
      <3> QED
        BY <2>3, <3>2, <3>3 DEF Tracked
    <2>5. CASE Head(q) \in Outputs
      <3>1. Head(q) # Dead
        BY <2>5 DEF Outputs, Dead
      <3>2. /\ llm' \in LLMs /\ Streams' /\ llm'.stopped = llm.stopped
            /\ llm'.states \subseteq llm.states
            /\ \A r \in llm'.states : Continuing(r, llm'.stream[r], Tail(q), << >>, CoreGone)
        BY <1>1, <2>1, <2>5, <3>1, OutputsTaken
      <3>3. Types'
        BY <2>1, <2>3, <3>2 DEF Types
      <3>4. Tracked'
        BY <2>1, <3>2 DEF Tracked
      <3> QED
        BY <2>3, <3>2, <3>3, <3>4
    <2> QED
      BY <2>2, <2>4, <2>5 DEF Read1
  <1>6. CASE Stop
    <2> DEFINE l == [llm EXCEPT !.stopped = TRUE]
    <2>1. /\ llm' = FailAll(l) /\ core' = CoreGone /\ to_core' = << >> /\ from_core' = << >>
          /\ client' = [client EXCEPT !.futures = FailPending(@), !.sentinel = FALSE,
                                      !.reader = FALSE]
          /\ handler' = handler
      BY <1>6 DEF Stop
    <2>2. l \in LLMs /\ l.states = llm.states /\ l.stream = llm.stream /\ l.stopped
      BY <1>1 DEF LLMs
    <2> HIDE DEF l
    <2>3. llm' \in LLMs /\ Streams' /\ llm'.states = {} /\ llm'.stopped
      BY <2>1, <2>2, FailAllStreams
    <2>4. FailPending(client.futures) \in [Calls -> {"none", "waiting", "ok", "refused", "failed"}]
      BY <1>1 DEF FailPending, Clients
    <2>5. client' \in Clients /\ ~client'.reader
      BY <1>1, <2>1, <2>4 DEF Clients
    <2>6. Types'
      BY <1>1, <2>1, <2>3, <2>5 DEF Types
    <2> QED
      BY <2>3, <2>5, <2>6 DEF Tracked
  <1> QED
    BY <1>2, <1>3, <1>4, <1>5, <1>6

-----------------------------------------------------------------------------
(* At the start nothing is on the way. *)
LEMMA InitLinked == Init => Linked
  <1> SUFFICES ASSUME Init PROVE Linked
    OBVIOUS
  <1> USE DEF Init
  <1>1. /\ \A r \in Reqs : llm.stream[r] = << >> /\ Len(llm.stream[r]) = 0
        /\ llm.states = {} /\ client.outputs = << >> /\ ~client.error
        /\ \A c \in Calls : client.futures[c] = "none"
        /\ to_core = << >> /\ from_core = << >>
        /\ core.up /\ core.live = {} /\ \A r \in Reqs : core.made[r] = 0
    OBVIOUS
  <1>2. \A i \in 1..Len(<< >>) : FALSE
    OBVIOUS
  <1>3. Types
    <2>1. \A S : << >> \in Seq(S)
      OBVIOUS
    <2>2. handler \in Handlers
      BY DEF Handlers
    <2>3. llm \in LLMs
      BY <2>1 DEF LLMs
    <2>4. client \in Clients
      BY <2>1 DEF Clients
    <2>5. core \in Cores
      BY DEF Cores
    <2> QED
      BY <2>1, <2>2, <2>3, <2>4, <2>5 DEF Types
  <1>4. Gone /\ Tracked
    BY <1>1, <1>2 DEF Gone, Tracked
  <1>5. AddedOnce
    BY <1>1, <1>2 DEF AddedOnce, Untouched, Adding
  <1>6. Refused
    BY <1>1, <1>2 DEF Refused, Calls
  <1>7. Continues /\ Reader /\ Streams
    BY <1>1, <1>2 DEF Continues, Reader, Streams, Faithful
  <1> QED
    BY <1>3, <1>4, <1>5, <1>6, <1>7 DEF Linked

(* Every step but a failed read keeps the link. *)
LEMMA NextLinked == Linked /\ [Next]_vars /\ ~ReadFails => Linked'
  <1> SUFFICES ASSUME Linked, [Next]_vars, ~ReadFails PROVE Linked'
    OBVIOUS
  <1>1. CASE UNCHANGED vars
    BY <1>1 DEF vars, Linked, Types, Gone, Tracked, AddedOnce, Refused, Continues, Reader, Streams
  <1>2. ASSUME NEW r \in Reqs,
               \/ Serve(r) \/ AddReturns(r) \/ CancelAdd(r)
               \/ Read(r) \/ Disconnect(r) \/ Close(r)
        PROVE  Linked'
    BY <1>2, ServeStep, AddReturnsStep, CancelAddStep, ReadStep, DisconnectStep, CloseStep
  <1>3. CASE RenderMetrics \/ MetricsReturn
    BY <1>3, MetricsStep
  <1>4. CASE CoreHandle \/ CoreStep \/ CoreDies \/ CoreKilled
    BY <1>4, CoreHandleStep, CoreStepStep, CoreDiesStep, CoreKilledStep
  <1>5. CASE ReadMessage \/ ProcessExit \/ HandleOutputs \/ Stop
    BY <1>5, ReadMessageStep, ProcessExitStep, HandleOutputsStep, StopStep
  <1> QED
    BY <1>1, <1>2, <1>3, <1>4, <1>5 DEF Next

(* Every step of the server, the client or the core keeps the invariant. *)
LEMMA NextIInv == IInv /\ [Next]_vars => IInv'
  <1> SUFFICES ASSUME IInv, [Next]_vars PROVE IInv'
    OBVIOUS
  <1>1. CASE Linked
    BY <1>1, NextLinked, ReadFailsStep DEF IInv
  <1>2. CASE Severed
    <2>1. CASE UNCHANGED vars
      BY <1>2, <2>1 DEF vars, Severed, Types, Tracked, Streams, IInv
    <2>2. CASE Next
      BY <1>2, <2>2, SeveredCalls, SeveredCore, SeveredClient DEF Next, IInv
    <2> QED
      BY <2>1, <2>2
  <1> QED
    BY <1>1, <1>2 DEF IInv

(* What the runs check follows. *)
LEMMA IInvImplies == IInv => TypeOK /\ StreamFaithful /\ NoOrphan
  <1> SUFFICES ASSUME IInv PROVE TypeOK /\ StreamFaithful /\ NoOrphan
    OBVIOUS
  <1>0. Types /\ Tracked /\ Streams /\ (client.reader => Reader)
    BY DEF IInv, Linked, Severed
  <1>1. /\ \A r \in Reqs : llm.stream[r] \in Seq(Items)
        /\ \A r \in Reqs : DOMAIN llm.stream[r] = 1..Len(llm.stream[r])
        /\ DOMAIN to_core = 1..Len(to_core)
    BY <1>0 DEF Types, LLMs
  <1>2. TypeOK
    <2>1. llm.states \subseteq {r \in Reqs : handler[r].pc \in {"waiting", "reading", "closing"}}
      BY <1>0 DEF Types, LLMs, Tracked
    <2>2. \A r \in Reqs : \A i \in DOMAIN llm.stream[r] :
             llm.stream[r][i] \in [n : Nat, end : Ends \cup {"more"}]
      <3>1. Items = [n : Nat, end : Ends \cup {"more"}]
        BY DEF Items, Ends
      <3>2. \A r \in Reqs : \A i \in DOMAIN llm.stream[r] : llm.stream[r][i] \in Items
        BY <1>1
      <3> QED
        BY <3>1, <3>2
    <2> QED
      BY <1>0, <2>1, <2>2 DEF TypeOK, Types, Handlers, LLMs, Clients, Cores
  <1>3. StreamFaithful
    BY <1>0, <1>1 DEF StreamFaithful, Streams, Faithful
  <1>4. NoOrphan
    BY <1>0, <1>1 DEF NoOrphan, Reader, Aborting
  <1> QED
    BY <1>2, <1>3, <1>4

(* The inductive invariant holds in every reachable state. *)
THEOREM Invariance == Spec => []IInv
  <1>1. Init => IInv
    BY InitLinked DEF IInv
  <1> QED
    BY <1>1, NextIInv, PTL DEF Spec

(* Every handler, stream, future and counter of the serving front end keeps *)
(* its type, and only a handler at work has its stream fed.                *)
THEOREM TypeCorrect == Spec => []TypeOK
  BY Invariance, IInvImplies, PTL

(* Whatever is sent, read, aborted, cancelled, killed or stopped, and in   *)
(* whatever order, a request's stream is the core's outputs 1, 2, 3, ...   *)
(* without a gap or a repetition, and ends at most once.                   *)
THEOREM StreamsAreFaithful == Spec => []StreamFaithful
  BY Invariance, IInvImplies, PTL

(* As long as the client reads from the core, a request in the engine has  *)
(* a stream that is fed, or an abort behind it on the input socket:        *)
(* clients that leave, cancelled admissions and stop strings never leave a *)
(* request running for nobody.                                             *)
THEOREM NoRequestIsOrphaned == Spec => []NoOrphan
  BY Invariance, IInvImplies, PTL
=============================================================================
