------------------------------- MODULE Loops --------------------------------
(***************************************************************************)
(* Induction for the loops of the engine. Repeat (Scheduler) writes a loop *)
(* as a recursive function of the number of rounds; an invariant of its    *)
(* rounds holds at its end. Round and Inv are parameters of the module, so *)
(* that one proof serves every loop: a loop's proof instantiates it.       *)
(*   a, b, c   what the loop's body and its invariant may refer to         *)
(* That counting from 0 reaches n is a hypothesis, which CountsUp of       *)
(* BlockManager_proofs discharges: the module does without the library     *)
(* that proves it, because every instance would repeat that.               *)
(***************************************************************************)
EXTENDS Integers

CONSTANTS
    Round(_, _, _, _, _),   \* Round(a, b, c, p, i): the state after round i from p
    Inv(_, _, _, _, _)      \* Inv(a, b, c, p, i): holds of the state after i rounds

Loop(a, b, c, start, n) ==
    LET after[i \in 0..n] == IF i = 0 THEN start ELSE Round(a, b, c, after[i - 1], i)
    IN  after[n]

(* g lists the states of n rounds. *)
Trace(g, a, b, c, start, n) ==
    g = [i \in 0..n |-> IF i = 0 THEN start ELSE Round(a, b, c, g[i - 1], i)]

(* The recursion has a solution, however many rounds.                      *)
LEMMA TraceExists ==
    ASSUME NEW a, NEW b, NEW c, NEW start, NEW n \in Nat,
           \A S : 0 \in S /\ (\A k \in 0..(n - 1) : k \in S => k + 1 \in S) => n \in S
    PROVE  \E g : Trace(g, a, b, c, start, n)
  <1> DEFINE N == {k \in Nat : \E g : Trace(g, a, b, c, start, k)}
  <1>1. 0 \in N
    <2> DEFINE g == [i \in 0..0 |-> start]
    <2>1. Trace(g, a, b, c, start, 0)
      BY DEF Trace
    <2> QED
      BY <2>1
  <1>2. ASSUME NEW k \in 0..(n - 1), k \in N PROVE k + 1 \in N
    <2>1. PICK g : Trace(g, a, b, c, start, k)
      BY <1>2
    <2> DEFINE h == [i \in 0..(k + 1) |->
                       IF i <= k THEN g[i] ELSE Round(a, b, c, g[k], i)]
    <2>2. \A i \in 0..k : h[i] = g[i]
      OBVIOUS
    <2>3. \A i \in 0..(k + 1) : h[i] = IF i = 0 THEN start ELSE Round(a, b, c, h[i - 1], i)
      <3> TAKE i \in 0..(k + 1)
      <3>1. CASE i <= k
        <4>1. i \in 0..k /\ (i # 0 => i - 1 \in 0..k)
          BY <3>1
        <4>2. g[i] = IF i = 0 THEN start ELSE Round(a, b, c, g[i - 1], i)
          BY <2>1, <4>1 DEF Trace
        <4> QED
          BY <2>2, <4>1, <4>2
      <3>2. CASE i = k + 1
        <4>1. k \in 0..k /\ i - 1 = k /\ ~(i <= k) /\ i # 0
          BY <3>2
        <4> QED
          BY <2>2, <3>2, <4>1
      <3> QED
        BY <3>1, <3>2
    <2>4. Trace(h, a, b, c, start, k + 1)
      BY <2>3 DEF Trace
    <2> QED
      BY <2>4
  <1> HIDE DEF N
  <1>3. n \in N
    BY <1>1, <1>2
  <1> QED
    BY <1>3 DEF N

(* An invariant of the rounds holds of the state the loop ends in.         *)
THEOREM LoopInvariant ==
    ASSUME NEW a, NEW b, NEW c, NEW start, NEW n \in Nat,
           \A S : 0 \in S /\ (\A k \in 0..(n - 1) : k \in S => k + 1 \in S) => n \in S,
           Inv(a, b, c, start, 0),
           \A i \in 1..n : \A p :
              Inv(a, b, c, p, i - 1) => Inv(a, b, c, Round(a, b, c, p, i), i)
    PROVE  Inv(a, b, c, Loop(a, b, c, start, n), n)
  <1> DEFINE g == CHOOSE f : Trace(f, a, b, c, start, n)
  <1>1. Trace(g, a, b, c, start, n)
    BY TraceExists
  <1>2. Loop(a, b, c, start, n) = g[n]
    BY DEF Loop, Trace
  <1> HIDE DEF g
  <1> DEFINE S == {k \in 0..n : Inv(a, b, c, g[k], k)}
  <1>3. 0 \in S
    <2>1. g[0] = start
      BY <1>1 DEF Trace
    <2> QED
      BY <2>1
  <1>4. ASSUME NEW k \in 0..(n - 1), k \in S PROVE k + 1 \in S
    <2>1. k + 1 \in 1..n /\ (k + 1) - 1 = k /\ k + 1 \in 0..n /\ k + 1 # 0
      OBVIOUS
    <2>2. g[k + 1] = Round(a, b, c, g[k], k + 1)
      BY <1>1, <2>1 DEF Trace
    <2>3. Inv(a, b, c, g[k], (k + 1) - 1)
      BY <1>4, <2>1
    <2>4. Inv(a, b, c, Round(a, b, c, g[k], k + 1), k + 1)
      BY <2>1, <2>3
    <2> QED
      BY <2>1, <2>2, <2>4
  <1> HIDE DEF S
  <1>5. n \in S
    BY <1>3, <1>4
  <1> QED
    BY <1>2, <1>5 DEF S
=============================================================================
