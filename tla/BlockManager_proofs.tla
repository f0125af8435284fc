------------------------ MODULE BlockManager_proofs -------------------------
(***************************************************************************)
(* What the operators of BlockManager and Sequence compute: the free queue *)
(* left by a removal, the slots of a token, the blocks a sequence needs,   *)
(* the effect of taking blocks and of writing keys and values. Facts about *)
(* recursive definitions are proved over the numbers up to a bound (UpTo), *)
(* with the finite subsets of an interval as the well-founded order.       *)
(* The last section is about the lists the scheduler keeps: its deques,    *)
(* the rows of a step and the tokens of a request.                         *)
(***************************************************************************)
EXTENDS BlockManager, FiniteSetTheorems, SequenceTheorems, WellFoundedInduction, TLAPS

(* Induction over the numbers up to n, from the well-foundedness of the    *)
(* subsets of 1..n.                                                        *)
LEMMA UpTo ==
    ASSUME NEW n \in Nat, NEW S, 0 \in S,
           \A k \in 0..(n - 1) : k \in S => k + 1 \in S
    PROVE  \A k \in 0..n : k \in S
  <1> SUFFICES ASSUME NEW m \in 0..n, m \notin S PROVE FALSE
    OBVIOUS
  <1> DEFINE T == {1..k : k \in {j \in 0..n : j \notin S}}
  <1>1. IsFiniteSet(1..n)
    BY FS_Interval
  <1>2. IsWellFoundedOn(StrictSubsetOrdering(1..n), FiniteSubsetsOf(1..n))
    BY FS_StrictSubsetOrderingWellFounded
  <1>3. T \subseteq FiniteSubsetsOf(1..n)
    <2> SUFFICES ASSUME NEW k \in 0..n PROVE 1..k \in FiniteSubsetsOf(1..n)
      OBVIOUS
    <2>1. 1..k \subseteq 1..n
      OBVIOUS
    <2> QED
      BY <1>1, <2>1, FS_Subset DEF FiniteSubsetsOf
  <1>4. T # {}
    OBVIOUS
  <1> HIDE DEF T
  <1>5. PICK x \in T : \A y \in T : ~(<<y, x>> \in StrictSubsetOrdering(1..n))
    BY <1>2, <1>3, <1>4, WFMin
  <1>6. PICK k \in 0..n : k \notin S /\ x = 1..k
    BY DEF T
  <1>7. k # 0 /\ k - 1 \in 0..(n - 1) /\ (k - 1) + 1 = k
    BY <1>6
  <1>8. k - 1 \notin S
    BY <1>6, <1>7
  <1>9. 1..(k - 1) \in T
    BY <1>7, <1>8 DEF T
  <1>10. 1..(k - 1) \subseteq 1..k /\ 1..k \subseteq 1..n /\ 1..(k - 1) # 1..k
    <2>1. k \in 1..k /\ k \notin 1..(k - 1)
      BY <1>7
    <2> QED
      BY <1>7, <2>1
  <1>11. <<1..(k - 1), x>> \in StrictSubsetOrdering(1..n)
    BY <1>6, <1>10 DEF StrictSubsetOrdering
  <1> QED
    BY <1>5, <1>9, <1>11

(* A nonempty set of numbers up to n has a greatest member. *)
LEMMA MaxUpTo ==
    ASSUME NEW n \in Nat, NEW T, T \subseteq 0..n, T # {}
    PROVE  Max(T) \in T /\ \A y \in T : y <= Max(T)
  <1> DEFINE S == {k \in Nat : \A U \in SUBSET (0..k) :
                      U # {} => \E x \in U : \A y \in U : x >= y}
  <1>1. 0 \in S
    <2> SUFFICES ASSUME NEW U \in SUBSET (0..0), U # {} PROVE \E x \in U : \A y \in U : x >= y
      OBVIOUS
    <2>1. \A y \in U : y = 0 /\ 0 >= y
      OBVIOUS
    <2>2. 0 \in U
      BY <2>1
    <2> QED
      BY <2>1, <2>2
  <1>2. ASSUME NEW k \in 0..(n - 1), k \in S PROVE k + 1 \in S
    <2> SUFFICES ASSUME NEW U \in SUBSET (0..(k + 1)), U # {}
                 PROVE  \E x \in U : \A y \in U : x >= y
      OBVIOUS
    <2>1. CASE k + 1 \in U
      <3>1. \A y \in U : k + 1 >= y
        OBVIOUS
      <3> QED
        BY <2>1, <3>1
    <2>2. CASE k + 1 \notin U
      <3>1. U \in SUBSET (0..k)
        BY <2>2
      <3> QED
        BY <1>2, <3>1
    <2> QED
      BY <2>1, <2>2
  <1> HIDE DEF S
  <1>3. n \in S
    BY <1>1, <1>2, UpTo
  <1>4. \E x \in T : \A y \in T : x >= y
    BY <1>3 DEF S
  <1> DEFINE m == CHOOSE x \in T : \A y \in T : x >= y
  <1>5. m \in T /\ \A y \in T : m >= y
    BY <1>4
  <1>6. Max(T) = m
    BY DEF Max
  <1> HIDE DEF m
  <1>7. \A y \in T : y \in Nat /\ m \in Nat
    BY <1>5
  <1> QED
    BY <1>5, <1>6, <1>7

(* The recursion of Keep has a solution. *)
KeptUpTo(g, q, S, n) ==
    g = [i \in 0..n |-> IF i = 0 THEN << >>
                        ELSE IF q[i] \in S THEN Append(g[i - 1], q[i]) ELSE g[i - 1]]

(* The recursion that defines Keep has a solution up to every length.       *)
LEMMA KeptExists ==
    ASSUME NEW q, NEW S, NEW n \in Nat
    PROVE  \E g : KeptUpTo(g, q, S, n)
  <1> DEFINE N == {k \in Nat : \E g : KeptUpTo(g, q, S, k)}
  <1>1. 0 \in N
    <2> DEFINE g == [i \in 0..0 |-> << >>]
    <2>1. KeptUpTo(g, q, S, 0)
      BY DEF KeptUpTo
    <2> QED
      BY <2>1
  <1>2. ASSUME NEW k \in 0..(n - 1), k \in N PROVE k + 1 \in N
    <2>1. PICK g : KeptUpTo(g, q, S, k)
      BY <1>2
    <2> DEFINE h == [i \in 0..(k + 1) |->
                       IF i <= k THEN g[i]
                       ELSE IF q[i] \in S THEN Append(g[k], q[i]) ELSE g[k]]
    <2>2. \A i \in 0..k : h[i] = g[i]
      OBVIOUS
    <2>3. \A i \in 0..(k + 1) : h[i] =
             IF i = 0 THEN << >>
             ELSE IF q[i] \in S THEN Append(h[i - 1], q[i]) ELSE h[i - 1]
      <3> TAKE i \in 0..(k + 1)
      <3>1. CASE i <= k
        <4>1. i \in 0..k /\ (i # 0 => i - 1 \in 0..k)
          BY <3>1
        <4>2. g[i] = IF i = 0 THEN << >>
                     ELSE IF q[i] \in S THEN Append(g[i - 1], q[i]) ELSE g[i - 1]
          BY <2>1, <4>1 DEF KeptUpTo
        <4> QED
          BY <2>2, <4>1, <4>2
      <3>2. CASE i = k + 1
        <4>1. k \in 0..k /\ i - 1 = k /\ ~(i <= k) /\ i # 0
          BY <3>2
        <4> QED
          BY <2>2, <3>2, <4>1
      <3> QED
        BY <3>1, <3>2
    <2>4. KeptUpTo(h, q, S, k + 1)
      BY <2>3 DEF KeptUpTo
    <2> QED
      BY <2>4
  <1> HIDE DEF N
  <1>3. n \in N
    BY <1>1, <1>2, UpTo
  <1> QED
    BY <1>3 DEF N

(* Keep is the last value of a function that obeys its recursion.           *)
LEMMA KeepRecursion ==
    ASSUME NEW q, NEW S, Len(q) \in Nat
    PROVE  \E g : KeptUpTo(g, q, S, Len(q)) /\ Keep(q, S) = g[Len(q)]
  <1> DEFINE h == CHOOSE g : KeptUpTo(g, q, S, Len(q))
  <1>1. KeptUpTo(h, q, S, Len(q))
    BY KeptExists
  <1>2. Keep(q, S) = h[Len(q)]
    BY DEF Keep, KeptUpTo
  <1> QED
    BY <1>1, <1>2

Injective(q) == \A i, j \in 1..Len(q) : q[i] = q[j] => i = j

(* Keep keeps what it says, and repeats nothing that was not repeated. *)
LEMMA KeepProperties ==
    ASSUME NEW T, NEW q \in Seq(T), NEW S
    PROVE  /\ Keep(q, S) \in Seq(T)
           /\ ToSet(Keep(q, S)) = ToSet(q) \cap S
           /\ Injective(q) => Injective(Keep(q, S))
  <1>0. Len(q) \in Nat /\ DOMAIN q = 1..Len(q)
    OBVIOUS
  <1>1. PICK g : KeptUpTo(g, q, S, Len(q)) /\ Keep(q, S) = g[Len(q)]
    BY <1>0, KeepRecursion
  <1> DEFINE First(i) == {q[j] : j \in 1..i}
             N == {i \in 0..Len(q) : /\ g[i] \in Seq(T)
                                     /\ ToSet(g[i]) = First(i) \cap S
                                     /\ Injective(q) => Injective(g[i])}
  <1>2. 0 \in N
    <2>1. g[0] = << >>
      BY <1>0, <1>1 DEF KeptUpTo
    <2>2. First(0) = {}
      OBVIOUS
    <2>3. << >> \in Seq(T) /\ ToSet(<< >>) = {} /\ Injective(<< >>)
      BY DEF ToSet, Injective
    <2>4. 0 \in 0..Len(q) /\ ToSet(g[0]) = First(0) \cap S
      BY <1>0, <2>1, <2>2, <2>3
    <2> HIDE DEF First
    <2> QED
      BY <2>1, <2>3, <2>4
  <1>3. ASSUME NEW k \in 0..(Len(q) - 1), k \in N PROVE k + 1 \in N
    <2>1. /\ k + 1 \in 1..Len(q) /\ k + 1 \in 0..Len(q) /\ (k + 1) - 1 = k /\ k + 1 # 0
          /\ k \in 0..Len(q)
      BY <1>0
    <2>2. g[k + 1] = IF q[k + 1] \in S THEN Append(g[k], q[k + 1]) ELSE g[k]
      BY <1>1, <2>1 DEF KeptUpTo
    <2>3. First(k + 1) = First(k) \cup {q[k + 1]}
      <3>1. 1..(k + 1) = (1..k) \cup {k + 1}
        BY <1>0
      <3> QED
        BY <3>1
    <2>4. q[k + 1] \in T
      BY <2>1
    <2>5. g[k] \in Seq(T) /\ ToSet(g[k]) = First(k) \cap S /\ (Injective(q) => Injective(g[k]))
      BY <1>3
    <2>6. CASE q[k + 1] \notin S
      BY <2>1, <2>2, <2>3, <2>5, <2>6
    <2>7. CASE q[k + 1] \in S
      <3> DEFINE h == Append(g[k], q[k + 1])
      <3>1. /\ h \in Seq(T) /\ Len(h) = Len(g[k]) + 1 /\ Len(g[k]) \in Nat
            /\ DOMAIN h = 1..Len(h) /\ DOMAIN g[k] = 1..Len(g[k])
            /\ \A i \in 1..Len(g[k]) : h[i] = g[k][i]
            /\ h[Len(g[k]) + 1] = q[k + 1]
            /\ \A i \in 1..Len(h) : i \in 1..Len(g[k]) \/ i = Len(g[k]) + 1
            /\ \A i \in 1..Len(g[k]) : i \in 1..Len(h)
            /\ Len(g[k]) + 1 \in 1..Len(h)
        BY <2>4, <2>5
      <3> HIDE DEF h
      <3>2. ToSet(h) = ToSet(g[k]) \cup {q[k + 1]}
        BY <3>1 DEF ToSet
      <3>3. ToSet(h) = First(k + 1) \cap S
        BY <2>3, <2>5, <2>7, <3>2
      <3>4. ASSUME Injective(q) PROVE Injective(h)
        <4>1. q[k + 1] \notin First(k)
          <5> SUFFICES ASSUME NEW j \in 1..k, q[j] = q[k + 1] PROVE FALSE
            OBVIOUS
          <5>1. j \in 1..Len(q) /\ j # k + 1
            BY <1>0
          <5> QED
            BY <2>1, <3>4, <5>1 DEF Injective
        <4>2. \A i \in 1..Len(g[k]) : g[k][i] # q[k + 1]
          BY <2>5, <3>1, <4>1 DEF ToSet
        <4> QED
          BY <2>5, <3>1, <3>4, <4>2 DEF Injective
      <3> QED
        BY <2>1, <2>2, <2>7, <3>1, <3>3, <3>4 DEF h
    <2> QED
      BY <2>6, <2>7
  <1>4. Len(q) \in N
    <2> HIDE DEF N
    <2>1. \A k \in 0..Len(q) : k \in N
      BY <1>0, <1>2, <1>3, UpTo
    <2> QED
      BY <1>0, <2>1
  <1>5. First(Len(q)) = ToSet(q)
    BY <1>0 DEF ToSet
  <1> QED
    BY <1>1, <1>4, <1>5

(* A sequence without repetitions is as long as it has members. *)
LEMMA LenInjective ==
    ASSUME NEW T, NEW q \in Seq(T), Injective(q)
    PROVE  IsFiniteSet(ToSet(q)) /\ Cardinality(ToSet(q)) = Len(q)
  <1>1. Len(q) \in Nat /\ DOMAIN q = 1..Len(q)
    OBVIOUS
  <1>2. q \in Bijection(1..Len(q), ToSet(q))
    <2>1. q \in [1..Len(q) -> ToSet(q)]
      BY <1>1 DEF ToSet
    <2> QED
      BY <1>1, <2>1 DEF Bijection, Injection, Surjection, Injective, ToSet, IsInjective
  <1>3. IsFiniteSet(1..Len(q)) /\ Cardinality(1..Len(q)) = Len(q)
    <2>1. 1 \in Int /\ Len(q) \in Int /\ (IF 1 > Len(q) THEN 0 ELSE Len(q) - 1 + 1) = Len(q)
      BY <1>1
    <2> QED
      BY <2>1, FS_Interval
  <1> QED
    BY <1>2, <1>3, FS_Bijection DEF ExistsBijection

-----------------------------------------------------------------------------
(* Positions, blocks and slots. *)

(* Division by the block size. *)
LEMMA DivBlockBounds ==
    ASSUME NEW a \in Nat
    PROVE  /\ a \div BlockSize \in Nat
           /\ (a \div BlockSize) * BlockSize <= a
           /\ a < (a \div BlockSize + 1) * BlockSize
           /\ a % BlockSize = a - (a \div BlockSize) * BlockSize
  BY BlockSizeAssumption

(* Multiples of the block size are ordered as their factors are.            *)
LEMMA Multiples ==
    ASSUME NEW i \in Nat, NEW j \in Nat
    PROVE  /\ i * BlockSize \in Nat
           /\ (i + 1) * BlockSize = i * BlockSize + BlockSize
           /\ i < j => i * BlockSize + BlockSize <= j * BlockSize
           /\ i <= j => i * BlockSize <= j * BlockSize
           /\ i * BlockSize < j * BlockSize => i < j
           /\ i * BlockSize = j * BlockSize => i = j
  BY BlockSizeAssumption

(* A number between two successive multiples divides to the lower factor.   *)
LEMMA DivBlock ==
    ASSUME NEW a \in Nat, NEW q \in Nat, q * BlockSize <= a, a < (q + 1) * BlockSize
    PROVE  a \div BlockSize = q /\ a % BlockSize = a - q * BlockSize
  <1> DEFINE d == a \div BlockSize
  <1>1. /\ d \in Nat /\ d * BlockSize <= a /\ a < (d + 1) * BlockSize
        /\ a % BlockSize = a - d * BlockSize
    BY DivBlockBounds
  <1> HIDE DEF d
  <1>2. q * BlockSize < (d + 1) * BlockSize /\ d * BlockSize < (q + 1) * BlockSize
    <2>1. /\ q * BlockSize \in Nat /\ (d + 1) * BlockSize \in Nat
          /\ d * BlockSize \in Nat /\ (q + 1) * BlockSize \in Nat
      BY <1>1, Multiples
    <2> QED
      BY <1>1, <2>1
  <1>3. q < d + 1 /\ d < q + 1
    BY <1>1, <1>2, Multiples
  <1>4. q = d
    BY <1>1, <1>3
  <1> QED
    BY <1>1, <1>4 DEF d

(* Position p is slot j of the i-th block of its sequence. *)
LEMMA SlotOf ==
    ASSUME NEW i \in Nat, NEW j \in 1..BlockSize
    PROVE  /\ i * BlockSize + j \in Nat /\ i * BlockSize + j >= 1
           /\ ((i * BlockSize + j) - 1) \div BlockSize = i
           /\ SlotIndex(i * BlockSize + j) = j
  <1> DEFINE a == (i * BlockSize + j) - 1
  <1>1. i * BlockSize \in Nat /\ (i + 1) * BlockSize = i * BlockSize + BlockSize /\ BlockSize \in Nat
    BY Multiples, BlockSizeAssumption
  <1>2. a \in Nat /\ i * BlockSize <= a /\ a < (i + 1) * BlockSize /\ j \in Nat
        /\ a - i * BlockSize = j - 1
    BY <1>1
  <1> HIDE DEF a
  <1>3. a \div BlockSize = i /\ a % BlockSize = j - 1
    BY <1>2, DivBlock
  <1> QED
    BY <1>1, <1>2, <1>3 DEF SlotIndex, a

(* Every position, from 1, is a slot of exactly the block that holds it.    *)
LEMMA SlotExists ==
    ASSUME NEW p \in Nat, p >= 1
    PROVE  /\ (p - 1) \div BlockSize \in Nat /\ SlotIndex(p) \in 1..BlockSize
           /\ p = ((p - 1) \div BlockSize) * BlockSize + SlotIndex(p)
  <1> DEFINE a == p - 1
             d == a \div BlockSize
  <1>1. a \in Nat
    OBVIOUS
  <1>2. /\ d \in Nat /\ d * BlockSize <= a /\ a < (d + 1) * BlockSize
        /\ a % BlockSize = a - d * BlockSize
    BY <1>1, DivBlockBounds
  <1>3. d * BlockSize \in Nat /\ (d + 1) * BlockSize = d * BlockSize + BlockSize /\ BlockSize \in Nat
    BY <1>2, Multiples, BlockSizeAssumption
  <1> HIDE DEF d
  <1> QED
    BY <1>1, <1>2, <1>3 DEF SlotIndex, d

(* The blocks that n tokens fill, the last one perhaps in part. *)
LEMMA CeilDivBlock ==
    ASSUME NEW n \in Nat, n >= 1
    PROVE  /\ CeilDiv(n, BlockSize) \in Nat /\ CeilDiv(n, BlockSize) >= 1
           /\ (CeilDiv(n, BlockSize) - 1) * BlockSize < n
           /\ n <= CeilDiv(n, BlockSize) * BlockSize
  <1> DEFINE a == n + BlockSize - 1
             d == a \div BlockSize
  <1>1. a \in Nat /\ BlockSize \in Nat /\ a >= BlockSize
    BY BlockSizeAssumption
  <1>2. d \in Nat /\ d * BlockSize <= a /\ a < (d + 1) * BlockSize
    BY <1>1, DivBlockBounds
  <1>3. d >= 1
    <2> SUFFICES ASSUME d = 0 PROVE FALSE
      BY <1>2
    <2> QED
      BY <1>1, <1>2
  <1>4. d * BlockSize = (d - 1) * BlockSize + BlockSize /\ (d + 1) * BlockSize = d * BlockSize + BlockSize
        /\ (d - 1) * BlockSize \in Nat
    <2>1. d - 1 \in Nat /\ (d - 1) + 1 = d
      BY <1>2, <1>3
    <2> HIDE DEF d
    <2> QED
      BY <1>2, <2>1, Multiples
  <1>5. CeilDiv(n, BlockSize) = d
    BY DEF CeilDiv
  <1> HIDE DEF d
  <1> QED
    BY <1>1, <1>2, <1>3, <1>4, <1>5

-----------------------------------------------------------------------------
(* Queues and block tables, cut and joined. *)

(* The head and the tail of a queue cut after n members. *)
LEMMA CutQueue ==
    ASSUME NEW T, NEW q \in Seq(T), NEW n \in 0..Len(q)
    PROVE  /\ SubSeq(q, 1, n) \in Seq(T) /\ Len(SubSeq(q, 1, n)) = n
           /\ \A i \in 1..n : SubSeq(q, 1, n)[i] = q[i]
           /\ SubSeq(q, n + 1, Len(q)) \in Seq(T)
           /\ Len(SubSeq(q, n + 1, Len(q))) = Len(q) - n
           /\ \A i \in 1..(Len(q) - n) : SubSeq(q, n + 1, Len(q))[i] = q[n + i]
  <1>1. Len(q) \in Nat /\ n \in Nat /\ n <= Len(q)
    OBVIOUS
  <1>2. SubSeq(q, 1, n) \in Seq(T) /\ Len(SubSeq(q, 1, n)) = n
    BY <1>1
  <1>3. \A i \in 1..n : SubSeq(q, 1, n)[i] = q[i]
    BY <1>1
  <1>4. SubSeq(q, n + 1, Len(q)) \in Seq(T) /\ Len(SubSeq(q, n + 1, Len(q))) = Len(q) - n
    BY <1>1
  <1>5. \A i \in 1..(Len(q) - n) : SubSeq(q, n + 1, Len(q))[i] = q[n + i]
    BY <1>1
  <1> QED
    BY <1>2, <1>3, <1>4, <1>5

(* What the head of a queue without repetitions has, the tail has not. *)
LEMMA CutInjective ==
    ASSUME NEW T, NEW q \in Seq(T), Injective(q), NEW n \in 0..Len(q)
    PROVE  /\ Injective(SubSeq(q, 1, n)) /\ Injective(SubSeq(q, n + 1, Len(q)))
           /\ ToSet(SubSeq(q, 1, n)) \subseteq ToSet(q)
           /\ ToSet(SubSeq(q, n + 1, Len(q))) = ToSet(q) \ ToSet(SubSeq(q, 1, n))
  <1> DEFINE head == SubSeq(q, 1, n)
             tail == SubSeq(q, n + 1, Len(q))
  <1>1. Len(q) \in Nat /\ n \in Nat /\ n <= Len(q) /\ DOMAIN q = 1..Len(q)
    OBVIOUS
  <1>2. /\ DOMAIN head = 1..n /\ Len(head) = n
        /\ \A i \in 1..n : head[i] = q[i]
        /\ DOMAIN tail = 1..(Len(q) - n) /\ Len(tail) = Len(q) - n
        /\ \A i \in 1..(Len(q) - n) : tail[i] = q[n + i]
    <2>1. /\ head \in Seq(T) /\ Len(head) = n /\ \A i \in 1..n : head[i] = q[i]
          /\ tail \in Seq(T) /\ Len(tail) = Len(q) - n
          /\ \A i \in 1..(Len(q) - n) : tail[i] = q[n + i]
      BY CutQueue
    <2> HIDE DEF head, tail
    <2> QED
      BY <1>1, <2>1
  <1> HIDE DEF head, tail
  <1>3. Injective(head) /\ Injective(tail)
    BY <1>1, <1>2 DEF Injective
  <1>4. ToSet(head) = {q[i] : i \in 1..n}
    <2>1. ToSet(head) = {head[i] : i \in 1..n}
      BY <1>2 DEF ToSet
    <2> QED
      BY <1>2, <2>1
  <1>5. ToSet(q) = {q[i] : i \in 1..Len(q)}
    BY <1>1 DEF ToSet
  <1>6. ToSet(tail) = {q[i] : i \in (n + 1)..Len(q)}
    <2>1. \A i \in 1..(Len(q) - n) : n + i \in (n + 1)..Len(q)
      BY <1>1
    <2>2. \A i \in (n + 1)..Len(q) : i - n \in 1..(Len(q) - n) /\ n + (i - n) = i
      BY <1>1
    <2>3. ToSet(tail) = {tail[i] : i \in 1..(Len(q) - n)}
      BY <1>2 DEF ToSet
    <2>4. \A i \in (n + 1)..Len(q) : tail[i - n] = q[i]
      BY <1>1, <1>2, <2>2
    <2>5. \A i \in 1..(Len(q) - n) : tail[i] = q[n + i]
      BY <1>1, <1>2
    <2>6. ToSet(tail) \subseteq {q[i] : i \in (n + 1)..Len(q)}
      BY <2>1, <2>3, <2>5
    <2>7. {q[i] : i \in (n + 1)..Len(q)} \subseteq ToSet(tail)
      <3> SUFFICES ASSUME NEW i \in (n + 1)..Len(q) PROVE q[i] \in ToSet(tail)
        OBVIOUS
      <3>1. i - n \in 1..(Len(q) - n) /\ tail[i - n] = q[i]
        BY <2>2, <2>4
      <3> QED
        BY <2>3, <3>1
    <2> QED
      BY <2>6, <2>7
  <1>7. \A i, j \in 1..Len(q) : q[i] = q[j] => i = j
    BY DEF Injective
  <1>8. \A i \in 1..Len(q) : i \in 1..n \/ i \in (n + 1)..Len(q)
    BY <1>1
  <1>9. \A i \in 1..n : \A j \in (n + 1)..Len(q) : q[i] # q[j]
    BY <1>1, <1>7
  <1>10. 1..n \subseteq 1..Len(q) /\ (n + 1)..Len(q) \subseteq 1..Len(q)
    BY <1>1
  <1>11. ToSet(head) \subseteq ToSet(q)
    BY <1>4, <1>5, <1>10
  <1>12. ToSet(tail) = ToSet(q) \ ToSet(head)
    BY <1>4, <1>5, <1>6, <1>8, <1>9, <1>10
  <1> QED
    BY <1>3, <1>11, <1>12 DEF head, tail

(* A table that a second one is appended to. *)
LEMMA JoinTables ==
    ASSUME NEW T, NEW q \in Seq(T), NEW u \in Seq(T)
    PROVE  /\ q \o u \in Seq(T) /\ Len(q \o u) = Len(q) + Len(u)
           /\ \A i \in 1..Len(q) : (q \o u)[i] = q[i]
           /\ \A i \in 1..Len(u) : (q \o u)[Len(q) + i] = u[i]
           /\ ToSet(q \o u) = ToSet(q) \cup ToSet(u)
           /\ Injective(q) /\ Injective(u) /\ ToSet(q) \cap ToSet(u) = {} => Injective(q \o u)
  <1> DEFINE w == q \o u
  <1>1. Len(q) \in Nat /\ Len(u) \in Nat /\ DOMAIN q = 1..Len(q) /\ DOMAIN u = 1..Len(u)
    OBVIOUS
  <1>2. w \in Seq(T) /\ Len(w) = Len(q) + Len(u)
    OBVIOUS
  <1>3. \A i \in 1..Len(q) : w[i] = q[i]
    BY <1>1
  <1>4. \A i \in 1..Len(u) : w[Len(q) + i] = u[i]
    BY <1>1
  <1>5. DOMAIN w = 1..(Len(q) + Len(u))
    BY <1>2
  <1> HIDE DEF w
  <1>6. \A i \in 1..(Len(q) + Len(u)) :
            \/ i \in 1..Len(q) /\ w[i] = q[i]
            \/ i - Len(q) \in 1..Len(u) /\ w[i] = u[i - Len(q)]
    <2> SUFFICES ASSUME NEW i \in 1..(Len(q) + Len(u)), i \notin 1..Len(q)
                 PROVE  i - Len(q) \in 1..Len(u) /\ w[i] = u[i - Len(q)]
      BY <1>3
    <2>1. i - Len(q) \in 1..Len(u) /\ Len(q) + (i - Len(q)) = i
      BY <1>1
    <2> QED
      BY <1>4, <2>1
  <1>7. ToSet(w) = ToSet(q) \cup ToSet(u)
    <2>1. ToSet(w) \subseteq ToSet(q) \cup ToSet(u)
      BY <1>1, <1>5, <1>6 DEF ToSet
    <2>2. ToSet(q) \subseteq ToSet(w)
      <3>1. \A i \in 1..Len(q) : i \in DOMAIN w
        BY <1>1, <1>5
      <3> QED
        BY <1>1, <1>3, <3>1 DEF ToSet
    <2>3. ToSet(u) \subseteq ToSet(w)
      <3>1. \A i \in 1..Len(u) : Len(q) + i \in DOMAIN w
        BY <1>1, <1>5
      <3> QED
        BY <1>1, <1>4, <3>1 DEF ToSet
    <2> QED
      BY <2>1, <2>2, <2>3
  <1>8. ASSUME Injective(q), Injective(u), ToSet(q) \cap ToSet(u) = {}
        PROVE  Injective(w)
    <2> SUFFICES ASSUME NEW i \in 1..Len(w), NEW j \in 1..Len(w), w[i] = w[j]
                 PROVE  i = j
      BY DEF Injective
    <2>1. i \in 1..(Len(q) + Len(u)) /\ j \in 1..(Len(q) + Len(u))
      BY <1>2
    <2>2. \A k \in 1..Len(q), l \in 1..Len(u) : q[k] # u[l]
      BY <1>1, <1>8 DEF ToSet
    <2>3. CASE i \in 1..Len(q) /\ w[i] = q[i]
      <3>1. j \in 1..Len(q) /\ w[j] = q[j]
        BY <1>6, <2>1, <2>2, <2>3
      <3> QED
        BY <1>8, <2>3, <3>1 DEF Injective
    <2>4. CASE i - Len(q) \in 1..Len(u) /\ w[i] = u[i - Len(q)]
      <3>1. j - Len(q) \in 1..Len(u) /\ w[j] = u[j - Len(q)]
        BY <1>6, <2>1, <2>2, <2>4
      <3>2. i - Len(q) = j - Len(q)
        BY <1>8, <2>4, <3>1 DEF Injective
      <3> QED
        BY <1>1, <2>1, <3>2
    <2> QED
      BY <1>6, <2>1, <2>3, <2>4
  <1> QED
    BY <1>2, <1>3, <1>4, <1>7, <1>8 DEF w

(* A table read from its end has the same blocks. *)
LEMMA ReverseTable ==
    ASSUME NEW T, NEW q \in Seq(T)
    PROVE  /\ Reverse(q) \in Seq(T)
           /\ ToSet(Reverse(q)) = ToSet(q)
           /\ Injective(q) => Injective(Reverse(q))
  <1> DEFINE n == Len(q)
             w == Reverse(q)
  <1>1. n \in Nat /\ DOMAIN q = 1..n /\ \A i \in 1..n : q[i] \in T
    OBVIOUS
  <1>2. \A i \in 1..n : (n - i) + 1 \in 1..n /\ (n - ((n - i) + 1)) + 1 = i
    BY <1>1
  <1>3. w = [i \in 1..n |-> q[(n - i) + 1]]
    BY DEF Reverse
  <1>4. w \in [1..n -> T]
    BY <1>1, <1>2, <1>3
  <1>5. w \in Seq(T) /\ Len(w) = n
    BY <1>1, <1>4
  <1>6. \A i \in 1..n : w[i] = q[(n - i) + 1]
    BY <1>3
  <1> HIDE DEF n, w
  <1>7. DOMAIN w = 1..n
    BY <1>4
  <1>8. ToSet(w) = ToSet(q)
    <2>1. ToSet(w) \subseteq ToSet(q)
      BY <1>1, <1>2, <1>6, <1>7 DEF ToSet
    <2>2. \A i \in 1..n : w[(n - i) + 1] = q[i]
      BY <1>2, <1>6
    <2>3. ToSet(q) \subseteq ToSet(w)
      BY <1>1, <1>2, <1>7, <2>2 DEF ToSet
    <2> QED
      BY <2>1, <2>3
  <1>9. ASSUME Injective(q) PROVE Injective(w)
    <2> SUFFICES ASSUME NEW i \in 1..n, NEW j \in 1..n, w[i] = w[j] PROVE i = j
      BY <1>5 DEF Injective
    <2>1. \A k, l \in 1..n : q[k] = q[l] => k = l
      BY <1>9 DEF Injective, n
    <2>2. (n - i) + 1 = (n - j) + 1
      BY <1>2, <1>6, <2>1
    <2> QED
      BY <1>1, <2>2
  <1> QED
    BY <1>5, <1>8, <1>9 DEF w

-----------------------------------------------------------------------------
(* Prefixes, and the larger and smaller of two numbers. *)

(* The larger and the smaller of two numbers. *)
LEMMA OfTwo ==
    ASSUME NEW a \in Nat, NEW b \in Nat, a <= b
    PROVE  Max({a, b}) = b /\ Max({b, a}) = b /\ Min({a, b}) = a /\ Min({b, a}) = a
  <1>1. \A x \in {a, b} : (\A y \in {a, b} : x >= y) => x = b
    OBVIOUS
  <1>2. \A y \in {a, b} : b >= y
    OBVIOUS
  <1>3. Max({a, b}) = b
    BY <1>1, <1>2 DEF Max
  <1>4. \A x \in {a, b} : (\A y \in {a, b} : x =< y) => x = a
    OBVIOUS
  <1>5. \A y \in {a, b} : a =< y
    OBVIOUS
  <1>6. Min({a, b}) = a
    BY <1>4, <1>5 DEF Min
  <1>7. {a, b} = {b, a}
    OBVIOUS
  <1> QED
    BY <1>3, <1>6, <1>7

(* A prefix of a prefix, and a prefix of a list that grew. *)
LEMMA PrefixFacts ==
    ASSUME NEW T, NEW q \in Seq(T), NEW k \in 0..Len(q)
    PROVE  /\ SubSeq(q, 1, k) \in Seq(T) /\ Len(SubSeq(q, 1, k)) = k
           /\ \A j \in 0..k : SubSeq(SubSeq(q, 1, k), 1, j) = SubSeq(q, 1, j)
           /\ \A x \in T : SubSeq(Append(q, x), 1, k) = SubSeq(q, 1, k)
  <1>1. Len(q) \in Nat /\ k \in Nat /\ k <= Len(q)
    OBVIOUS
  <1>2. /\ SubSeq(q, 1, k) \in Seq(T) /\ Len(SubSeq(q, 1, k)) = k
        /\ \A i \in 1..k : SubSeq(q, 1, k)[i] = q[i]
    BY CutQueue
  <1>3. ASSUME NEW j \in 0..k PROVE SubSeq(SubSeq(q, 1, k), 1, j) = SubSeq(q, 1, j)
    <2> DEFINE p == SubSeq(q, 1, k)
    <2>1. j \in 0..Len(p) /\ j \in 0..Len(q) /\ j \in Nat
      BY <1>1, <1>2
    <2>2. p \in Seq(T)
      BY <1>2
    <2>3. /\ SubSeq(p, 1, j) \in Seq(T) /\ Len(SubSeq(p, 1, j)) = j
          /\ \A i \in 1..j : SubSeq(p, 1, j)[i] = p[i]
      <3> HIDE DEF p
      <3> QED
        BY <2>1, <2>2, CutQueue
    <2>4. /\ SubSeq(q, 1, j) \in Seq(T) /\ Len(SubSeq(q, 1, j)) = j
          /\ \A i \in 1..j : SubSeq(q, 1, j)[i] = q[i]
      BY <2>1, CutQueue
    <2>5. \A i \in 1..j : p[i] = q[i]
      BY <1>1, <1>2
    <2> DEFINE u == SubSeq(p, 1, j)
               v == SubSeq(q, 1, j)
    <2>6. \A i \in 1..j : u[i] = v[i]
      BY <2>3, <2>4, <2>5
    <2>7. u = v
      <3>1. u \in Seq(T) /\ v \in Seq(T) /\ Len(u) = j /\ Len(v) = j
        BY <2>3, <2>4
      <3> HIDE DEF u, v
      <3> QED
        BY <2>1, <2>6, <3>1
    <2> QED
      BY <2>7
  <1>4. ASSUME NEW x \in T PROVE SubSeq(Append(q, x), 1, k) = SubSeq(q, 1, k)
    <2> DEFINE w == Append(q, x)
    <2>1. w \in Seq(T) /\ Len(w) = Len(q) + 1 /\ \A i \in 1..Len(q) : w[i] = q[i]
      OBVIOUS
    <2>2. k \in 0..Len(w)
      BY <1>1, <2>1
    <2> HIDE DEF w
    <2>3. /\ SubSeq(w, 1, k) \in Seq(T) /\ Len(SubSeq(w, 1, k)) = k
          /\ \A i \in 1..k : SubSeq(w, 1, k)[i] = w[i]
      BY <2>1, <2>2, CutQueue
    <2>4. \A i \in 1..k : w[i] = q[i]
      BY <1>1, <2>1
    <2> DEFINE u == SubSeq(w, 1, k)
               v == SubSeq(q, 1, k)
    <2>5. u \in Seq(T) /\ v \in Seq(T) /\ Len(u) = k /\ Len(v) = k
          /\ \A i \in 1..k : u[i] = v[i]
      BY <1>2, <2>3, <2>4
    <2>6. u = v
      <3> HIDE DEF u, v
      <3> QED
        BY <1>1, <2>5
    <2> QED
      BY <2>6 DEF w
  <1> QED
    BY <1>2, <1>3, <1>4

-----------------------------------------------------------------------------
(* A block manager whose published prefixes are in H, and its free queue:  *)
(* each block not in use, once.                                            *)
Indexes(H) == UNION {[D -> Blocks] : D \in SUBSET H}

Managers(H) ==
    [ref_count : [Blocks -> Nat], hash : [Blocks -> H \cup {NoHash}],
     free : Seq(Blocks), used : SUBSET Blocks,
     hash_to_block_id : Indexes(H), asserts : BOOLEAN]

QueueIsFree(m) == Injective(m.free) /\ ToSet(m.free) = Blocks \ m.used

(* _allocate_block takes free blocks only, and the queue stays exact; its  *)
(* assertion holds if free blocks have no references.                      *)
LEMMA AllocateBlocksEffect ==
    ASSUME NEW H, NEW m \in Managers(H), QueueIsFree(m), NEW n \in 0..NumFree(m),
           \A b \in Blocks \ m.used : m.ref_count[b] = 0
    PROVE  /\ AllocateBlocks(m, n) \in Managers(H)
           /\ QueueIsFree(AllocateBlocks(m, n))
           /\ AllocateBlocks(m, n).asserts = m.asserts
           /\ ToSet(SubSeq(m.free, 1, n)) \subseteq Blocks \ m.used
           /\ SubSeq(m.free, 1, n) \in Seq(Blocks) /\ Len(SubSeq(m.free, 1, n)) = n
           /\ Injective(SubSeq(m.free, 1, n))
  <1> DEFINE a == AllocateBlocks(m, n)
             got == ToSet(SubSeq(m.free, 1, n))
             Evicted(h) == LET b == m.hash_to_block_id[h] IN b \in got /\ m.hash[b] = h
             left == {h \in DOMAIN m.hash_to_block_id : ~Evicted(h)}
  <1>1. /\ m.ref_count \in [Blocks -> Nat] /\ m.hash \in [Blocks -> H \cup {NoHash}]
        /\ m.free \in Seq(Blocks) /\ m.used \in SUBSET Blocks
        /\ m.hash_to_block_id \in Indexes(H) /\ m.asserts \in BOOLEAN
    BY DEF Managers
  <1>2. n \in 0..Len(m.free)
    BY DEF NumFree
  <1>3. Injective(m.free) /\ ToSet(m.free) = Blocks \ m.used
    BY DEF QueueIsFree
  <1>4. /\ SubSeq(m.free, 1, n) \in Seq(Blocks) /\ Len(SubSeq(m.free, 1, n)) = n
        /\ SubSeq(m.free, n + 1, Len(m.free)) \in Seq(Blocks)
    BY <1>1, <1>2, CutQueue
  <1>5. /\ Injective(SubSeq(m.free, 1, n)) /\ Injective(SubSeq(m.free, n + 1, Len(m.free)))
        /\ got \subseteq ToSet(m.free)
        /\ ToSet(SubSeq(m.free, n + 1, Len(m.free))) = ToSet(m.free) \ got
    BY <1>1, <1>2, <1>3, CutInjective
  <1>6. got \subseteq Blocks \ m.used
    BY <1>3, <1>5
  <1>7. /\ a.ref_count = [b \in Blocks |-> IF b \in got THEN 1 ELSE m.ref_count[b]]
        /\ a.hash = [b \in Blocks |-> IF b \in got THEN NoHash ELSE m.hash[b]]
        /\ a.free = SubSeq(m.free, n + 1, Len(m.free))
        /\ a.used = m.used \cup got
        /\ a.hash_to_block_id = [h \in left |-> m.hash_to_block_id[h]]
        /\ a.asserts = (m.asserts /\ \A b \in got : m.ref_count[b] = 0)
    BY DEF AllocateBlocks, NumFree, Restrict
  <1>8. a = [ref_count |-> a.ref_count, hash |-> a.hash, free |-> a.free, used |-> a.used,
             hash_to_block_id |-> a.hash_to_block_id, asserts |-> a.asserts]
    BY DEF AllocateBlocks
  <1> HIDE DEF a, got, left
  <1>9. a.hash_to_block_id \in Indexes(H)
    <2>1. PICK D \in SUBSET H : m.hash_to_block_id \in [D -> Blocks]
      BY <1>1 DEF Indexes
    <2>2. left \subseteq D
      BY <2>1 DEF left
    <2>3. a.hash_to_block_id \in [left -> Blocks]
      BY <1>7, <2>1, <2>2
    <2>4. left \in SUBSET H
      BY <2>1, <2>2
    <2> QED
      BY <2>3, <2>4 DEF Indexes
  <1>10. a.asserts = m.asserts
    <2>1. \A b \in got : m.ref_count[b] = 0
      BY <1>6
    <2> QED
      BY <1>1, <1>7, <2>1
  <1>11. a \in Managers(H)
    <2>1. a.ref_count \in [Blocks -> Nat] /\ a.hash \in [Blocks -> H \cup {NoHash}]
      BY <1>1, <1>7
    <2>2. a.free \in Seq(Blocks) /\ a.used \in SUBSET Blocks /\ a.asserts \in BOOLEAN
      BY <1>1, <1>4, <1>6, <1>7, <1>10
    <2> QED
      BY <1>8, <1>9, <2>1, <2>2 DEF Managers
  <1>12. QueueIsFree(a)
    BY <1>3, <1>5, <1>6, <1>7 DEF QueueIsFree
  <1> QED
    BY <1>4, <1>5, <1>6, <1>10, <1>11, <1>12 DEF a, got

(* The block index of a position within the first c blocks. *)
LEMMA SlotInTable ==
    ASSUME NEW c \in Nat, NEW p \in Nat, p >= 1, p <= c * BlockSize
    PROVE  ((p - 1) \div BlockSize) + 1 \in 1..c
  <1> DEFINE d == (p - 1) \div BlockSize
  <1>1. /\ d \in Nat /\ SlotIndex(p) \in 1..BlockSize
        /\ p = d * BlockSize + SlotIndex(p)
    BY SlotExists
  <1> HIDE DEF d
  <1>2. d * BlockSize \in Nat /\ c * BlockSize \in Nat /\ BlockSize \in Nat
    BY <1>1, Multiples, BlockSizeAssumption
  <1>3. d * BlockSize < c * BlockSize
    BY <1>1, <1>2
  <1>4. d < c
    BY <1>1, <1>3, Multiples
  <1> QED
    BY <1>1, <1>4 DEF d

(* Two positions of a table without repetitions have different slots. *)
LEMMA SlotsDistinct ==
    ASSUME NEW table \in Seq(Blocks), Injective(table),
           NEW p \in Nat, p >= 1, p <= Len(table) * BlockSize,
           NEW q \in Nat, q >= 1, q <= Len(table) * BlockSize,
           SlotBlock(table, p) = SlotBlock(table, q), SlotIndex(p) = SlotIndex(q)
    PROVE  p = q
  <1> DEFINE d(x) == (x - 1) \div BlockSize
  <1>1. /\ d(p) \in Nat /\ p = d(p) * BlockSize + SlotIndex(p)
        /\ d(q) \in Nat /\ q = d(q) * BlockSize + SlotIndex(q)
    BY SlotExists
  <1>2. d(p) + 1 \in 1..Len(table) /\ d(q) + 1 \in 1..Len(table)
    <2>1. Len(table) \in Nat
      OBVIOUS
    <2> QED
      BY <2>1, SlotInTable
  <1>3. table[d(q) + 1] = table[d(p) + 1]
    BY DEF SlotBlock
  <1> HIDE DEF d
  <1>4. d(q) + 1 = d(p) + 1
    BY <1>2, <1>3 DEF Injective
  <1>5. d(q) = d(p)
    BY <1>1, <1>4
  <1> QED
    BY <1>1, <1>5

(* In memory w the slots of positions first..last hold their prefixes, and *)
(* every other slot is as in mem.                                          *)
SlotsWritten(w, mem, table, tok, first, last) ==
    /\ \A p \in first..last : w[SlotBlock(table, p)][SlotIndex(p)] = SubSeq(tok, 1, p)
    /\ \A b \in Blocks, i \in 1..BlockSize :
          (\A p \in first..last : ~(SlotBlock(table, p) = b /\ SlotIndex(p) = i))
          => w[b][i] = mem[b][i]

(* A step that computes positions first..last writes each position's slot  *)
(* with that position's prefix, and no other slot.                         *)
LEMMA WriteSlotsEffect ==
    ASSUME NEW table \in Seq(Blocks), Injective(table), NEW tok, NEW mem,
           NEW first \in Nat, first >= 1, NEW last \in Nat, Len(tok) \in Nat,
           last <= Len(tok), last <= Len(table) * BlockSize,
           NEW w, w = WriteSlots(mem, table, tok, first, last)
    PROVE  SlotsWritten(w, mem, table, tok, first, last)
  <1> DEFINE here(b, i) == {p \in first..last : /\ HasSlot(table, p)
                                                /\ SlotBlock(table, p) = b
                                                /\ SlotIndex(p) = i}
  <1>1. \A b \in Blocks, i \in 1..BlockSize :
            w[b][i] = IF here(b, i) = {} THEN mem[b][i]
                      ELSE IF Max(here(b, i)) > Len(tok) THEN Unwritten
                      ELSE SubSeq(tok, 1, Max(here(b, i)))
    BY DEF WriteSlots
  <1>2. Len(table) \in Nat /\ Len(table) * BlockSize \in Nat
    BY Multiples
  <1>3. ASSUME NEW p \in first..last
        PROVE  /\ p \in Nat /\ p >= 1 /\ p <= Len(tok) /\ HasSlot(table, p)
               /\ ((p - 1) \div BlockSize) + 1 \in 1..Len(table)
               /\ (p - 1) \div BlockSize \in Nat
               /\ SlotIndex(p) \in 1..BlockSize
               /\ p = ((p - 1) \div BlockSize) * BlockSize + SlotIndex(p)
               /\ SlotBlock(table, p) \in Blocks
    <2> DEFINE size == Len(table) * BlockSize
    <2>1. size \in Nat /\ last <= size
      BY <1>2
    <2> HIDE DEF size
    <2>2. p \in Nat /\ p >= 1 /\ p <= Len(tok) /\ p <= size
      BY <2>1
    <2>3. HasSlot(table, p) /\ ((p - 1) \div BlockSize) + 1 \in 1..Len(table)
      BY <1>2, <2>2, SlotInTable DEF size, HasSlot
    <2>4. /\ (p - 1) \div BlockSize \in Nat /\ SlotIndex(p) \in 1..BlockSize
          /\ p = ((p - 1) \div BlockSize) * BlockSize + SlotIndex(p)
      BY <2>2, SlotExists
    <2>5. SlotBlock(table, p) \in Blocks
      BY <2>3 DEF SlotBlock
    <2> QED
      BY <2>2, <2>3, <2>4, <2>5
  <1>4. ASSUME NEW p \in first..last
        PROVE  w[SlotBlock(table, p)][SlotIndex(p)] = SubSeq(tok, 1, p)
    <2> DEFINE b == SlotBlock(table, p)
               i == SlotIndex(p)
    <2>1. ASSUME NEW q \in first..last, SlotBlock(table, q) = b, SlotIndex(q) = i
          PROVE  q = p
      <3>1. p \in Nat /\ p >= 1 /\ p <= Len(table) * BlockSize
        BY <1>3 DEF HasSlot
      <3>2. q \in Nat /\ q >= 1 /\ q <= Len(table) * BlockSize
        BY <1>3 DEF HasSlot
      <3> QED
        BY <2>1, <3>1, <3>2, SlotsDistinct
    <2>2. p \in here(b, i)
      BY <1>3
    <2>3. here(b, i) = {p}
      BY <2>1, <2>2
    <2>4. Max({p}) = p
      <3>1. p \in Nat /\ {p, p} = {p}
        BY <1>3
      <3>2. Max({p, p}) = p
        BY <3>1, OfTwo
      <3> QED
        BY <3>1, <3>2
    <2>5. /\ b \in Blocks /\ i \in 1..BlockSize /\ ~(p > Len(tok))
      BY <1>3
    <2> HIDE DEF here, b, i
    <2> QED
      BY <1>1, <2>3, <2>4, <2>5 DEF b, i
  <1>5. ASSUME NEW b \in Blocks, NEW i \in 1..BlockSize,
               \A p \in first..last : ~(SlotBlock(table, p) = b /\ SlotIndex(p) = i)
        PROVE  w[b][i] = mem[b][i]
    <2>1. here(b, i) = {}
      BY <1>5
    <2> QED
      BY <1>1, <2>1
  <1> QED
    BY <1>4, <1>5 DEF SlotsWritten

-----------------------------------------------------------------------------
(* The blocks of a table of n hits, and the hits among them in U. *)
HitSet(f, n) == {f[i] : i \in 1..n}
HitsIn(f, n, U) == {i \in 1..n : f[i] \in U}

(* Taking hits out of the queue costs at most one block for each hit that  *)
(* nobody holds: the count can_allocate relies on.                         *)
LEMMA RoomAfterHits ==
    ASSUME NEW q \in Seq(Blocks), Injective(q), NEW U, ToSet(q) = Blocks \ U,
           NEW n \in Nat, NEW f \in [1..n -> Blocks]
    PROVE  /\ Cardinality(HitsIn(f, n, U)) \in Nat
           /\ Len(Keep(q, Blocks \ HitSet(f, n)))
              >= Len(q) - (n - Cardinality(HitsIn(f, n, U)))
  <1> DEFINE hits == HitSet(f, n)
             held == HitsIn(f, n, U)
             idle == {i \in 1..n : f[i] \notin U}
             taken == ToSet(q) \cap hits
             k == Keep(q, Blocks \ hits)
  <1>0. hits = {f[i] : i \in 1..n} /\ held = {i \in 1..n : f[i] \in U}
    BY DEF HitSet, HitsIn
  <1> HIDE DEF hits, held
  <1>1. IsFiniteSet(1..n) /\ Cardinality(1..n) = n
    BY FS_Interval
  <1>2. /\ IsFiniteSet(held) /\ IsFiniteSet(idle)
        /\ Cardinality(held) \in Nat /\ Cardinality(idle) \in Nat
    <2>1. held \in SUBSET (1..n) /\ idle \in SUBSET (1..n)
      BY <1>0
    <2> HIDE DEF idle
    <2>2. IsFiniteSet(held) /\ IsFiniteSet(idle)
      BY <1>1, <2>1, FS_Subset
    <2> QED
      BY <2>2, FS_CardinalityType
  <1>3. n = Cardinality(held) + Cardinality(idle)
    <2>1. held \cup idle = 1..n /\ held \cap idle = {}
      BY <1>0
    <2> HIDE DEF idle
    <2>2. Cardinality(held \cup idle) =
            Cardinality(held) + Cardinality(idle) - Cardinality(held \cap idle)
      BY <1>2, FS_Union
    <2>3. Cardinality(held \cap idle) = 0
      BY <2>1, FS_EmptySet
    <2>4. Cardinality(held \cup idle) = n
      BY <1>1, <2>1
    <2> QED
      BY <1>2, <2>2, <2>3, <2>4
  <1>4. Cardinality(taken) <= Cardinality(idle) /\ IsFiniteSet(taken)
    <2> DEFINE g == [i \in idle |-> f[i]]
    <2>1. \A i \in idle : g[i] \in taken
      BY <1>0
    <2>2. \A b \in taken : \E i \in idle : g[i] = b
      BY <1>0
    <2>3. g \in [idle -> taken]
      BY <2>1
    <2> HIDE DEF g, idle, taken
    <2>4. g \in Surjection(idle, taken)
      BY <2>2, <2>3 DEF Surjection
    <2> QED
      BY <1>2, <2>4, FS_Surjection
  <1>5. IsFiniteSet(ToSet(q)) /\ Cardinality(ToSet(q)) = Len(q)
    BY LenInjective
  <1>6. /\ k \in Seq(Blocks) /\ ToSet(k) = ToSet(q) \cap (Blocks \ hits) /\ Injective(k)
    BY KeepProperties
  <1>7. Cardinality(ToSet(k)) = Len(k) /\ Len(k) \in Nat
    <2> HIDE DEF k
    <2>1. Len(k) \in Nat
      BY <1>6
    <2>2. Cardinality(ToSet(k)) = Len(k)
      BY <1>6, LenInjective
    <2> QED
      BY <2>1, <2>2
  <1>8. ToSet(k) = ToSet(q) \ hits
    BY <1>6
  <1> HIDE DEF idle, taken, k
  <1>9. Cardinality(ToSet(q) \ hits) = Cardinality(ToSet(q)) - Cardinality(taken)
    BY <1>5, FS_Difference DEF taken
  <1>10. Cardinality(taken) \in Nat
    BY <1>4, FS_CardinalityType
  <1>11. Len(k) = Len(q) - Cardinality(taken)
    BY <1>5, <1>7, <1>8, <1>9
  <1>12. Len(k) >= Len(q) - (n - Cardinality(held))
    <2>1. Len(q) \in Nat
      OBVIOUS
    <2> QED
      BY <1>2, <1>3, <1>4, <1>10, <1>11, <2>1
  <1> QED
    BY <1>2, <1>12 DEF held, hits, k

(* The least of two numbers.                                               *)
LEMMA LeastOf ==
    ASSUME NEW a \in Nat, NEW b \in Nat, NEW m, m = Min({a, b})
    PROVE  m \in Nat /\ m <= a /\ m <= b /\ (m = a \/ m = b)
  <1>1. CASE a <= b
    BY <1>1, OfTwo
  <1>2. CASE b <= a
    <2>1. m = Min({b, a})
      OBVIOUS
    <2> QED
      BY <1>2, <2>1, OfTwo
  <1> QED
    BY <1>1, <1>2

(* The prefix blocks that are reused leave something to compute.           *)
LEMMA HitsLeaveSome ==
    ASSUME NEW bm, NEW s, NumTokens(s) \in Nat, NumTokens(s) > 0,
           s.num_pending_tokens = 0, NEW k,
           NEW n, n = CanAllocate(bm, s, k), n # -1
    PROVE  n \in Nat /\ n * BlockSize < NumTokens(s)
  <1>1. PICK m : m = NumTokens(s)
    OBVIOUS
  <1>2. m \in Nat /\ m >= 1
    BY <1>1
  <1>3. PICK c : c = CeilDiv(m, BlockSize)
    OBVIOUS
  <1>4. c \in Nat /\ c >= 1 /\ (c - 1) * BlockSize < m
    BY <1>2, <1>3, CeilDivBlock
  <1>5. NumSeqBlocks(s) = c
    BY <1>1, <1>2, <1>3 DEF NumSeqBlocks, NumPlannedTokens
  <1>6. PICK h : h = NumHitBlocks(bm, s)
    OBVIOUS
  <1>7. h \in 0..(c - 1)
    <2> DEFINE hashes == BlockHashes(s)
               Hit(i) == /\ hashes[i] \in DOMAIN bm.hash_to_block_id
                         /\ LET b == bm.hash_to_block_id[hashes[i]]
                            IN  HashedBlock(bm.hash[b]) = SeqBlock(s, i)
               candidates == IF EnablePrefixCaching THEN 1..(NumSeqBlocks(s) - 1) ELSE {}
               T == {0} \cup {i \in candidates : \A j \in 1..i : Hit(j)}
    <2>1. h = Max(T)
      BY <1>6 DEF NumHitBlocks
    <2>2. T \subseteq 0..(c - 1) /\ T # {} /\ c - 1 \in Nat
      BY <1>4, <1>5
    <2> HIDE DEF T
    <2>3. Max(T) \in T
      BY <2>2, MaxUpTo
    <2> QED
      BY <2>1, <2>2, <2>3
  <1>8. n \in Nat /\ n <= c - 1
    <2>1. n = -1 \/ n = h \/ (h > 0 /\ n = h - 1)
      BY <1>6 DEF CanAllocate
    <2> QED
      BY <1>4, <1>7, <2>1
  <1>9. n * BlockSize <= (c - 1) * BlockSize /\ n * BlockSize \in Nat /\ (c - 1) * BlockSize \in Nat
    BY <1>4, <1>8, Multiples
  <1> QED
    BY <1>1, <1>2, <1>4, <1>8, <1>9

-----------------------------------------------------------------------------
(* Queues: sequences of distinct requests. *)
Queue(q, S) == q \in Seq(S) /\ Injective(q)

List(q, S) == q \in Seq(S)

Apart(p, q) == ToSet(p) \cap ToSet(q) = {}

(* Counting from 0 reaches every number: what Loops asks for. *)
LEMMA CountsUp ==
    ASSUME NEW n \in Nat
    PROVE  \A S : 0 \in S /\ (\A k \in 0..(n - 1) : k \in S => k + 1 \in S) => n \in S
  <1> SUFFICES ASSUME NEW S, 0 \in S, \A k \in 0..(n - 1) : k \in S => k + 1 \in S
               PROVE  n \in S
    OBVIOUS
  <1>1. \A k \in 0..n : k \in S
    BY UpTo
  <1> QED
    BY <1>1

(* Append at the end.                                                      *)
LEMMA QueueAppend ==
    ASSUME NEW S, NEW q, Queue(q, S), NEW r \in S, r \notin ToSet(q)
    PROVE  /\ Queue(Append(q, r), S)
           /\ ToSet(Append(q, r)) = ToSet(q) \cup {r}
           /\ Len(Append(q, r)) = Len(q) + 1
  <1> DEFINE h == Append(q, r)
  <1>1. q \in Seq(S) /\ DOMAIN q = 1..Len(q) /\ Len(q) \in Nat
    BY DEF Queue
  <1>2. /\ h \in Seq(S) /\ Len(h) = Len(q) + 1 /\ DOMAIN h = 1..Len(h)
        /\ \A i \in 1..Len(q) : h[i] = q[i]
        /\ h[Len(q) + 1] = r
        /\ \A i \in 1..Len(h) : i \in 1..Len(q) \/ i = Len(q) + 1
        /\ \A i \in 1..Len(q) : i \in 1..Len(h)
        /\ Len(q) + 1 \in 1..Len(h)
    BY <1>1
  <1> HIDE DEF h
  <1>3. ToSet(h) = ToSet(q) \cup {r}
    BY <1>1, <1>2 DEF ToSet
  <1>4. \A i \in 1..Len(q) : q[i] # r
    BY <1>1 DEF ToSet
  <1>5. Injective(h)
    BY <1>2, <1>4 DEF Queue, Injective
  <1> QED
    BY <1>2, <1>3, <1>5 DEF h, Queue

(* h has the members of q, and r. *)
Adds(q, r, h) == ToSet(h) = ToSet(q) \cup {r}

(* Append to a list that may repeat its members.                           *)
LEMMA ListAppend ==
    ASSUME NEW S, NEW q, List(q, S), NEW r \in S
    PROVE  List(Append(q, r), S) /\ Adds(q, r, Append(q, r))
  <1>1. DOMAIN q = 1..Len(q) /\ Len(q) \in Nat /\ q \in Seq(S)
    BY DEF List
  <1>2. PICK h : h = Append(q, r)
    OBVIOUS
  <1>3. /\ h \in Seq(S) /\ DOMAIN h = 1..(Len(q) + 1)
        /\ \A i \in 1..Len(q) : h[i] = q[i]
        /\ h[Len(q) + 1] = r
        /\ \A i \in DOMAIN h : i \in 1..Len(q) \/ i = Len(q) + 1
        /\ \A i \in 1..Len(q) : i \in DOMAIN h
        /\ Len(q) + 1 \in DOMAIN h
    BY <1>1, <1>2
  <1>4. ToSet(h) = ToSet(q) \cup {r}
    BY <1>1, <1>3 DEF ToSet
  <1> QED
    BY <1>2, <1>3, <1>4 DEF List, Adds

(* Take the first.                                                         *)
LEMMA QueueTail ==
    ASSUME NEW S, NEW q, Queue(q, S), q # << >>
    PROVE  /\ Queue(Tail(q), S)
           /\ Head(q) \in S
           /\ Head(q) \notin ToSet(Tail(q))
           /\ ToSet(q) = ToSet(Tail(q)) \cup {Head(q)}
           /\ Len(Tail(q)) = Len(q) - 1
  <1> DEFINE h == Tail(q)
  <1>1. q \in Seq(S) /\ DOMAIN q = 1..Len(q) /\ Len(q) \in Nat /\ Len(q) # 0
    BY DEF Queue
  <1>2. /\ h \in Seq(S) /\ Len(h) = Len(q) - 1 /\ DOMAIN h = 1..Len(h)
        /\ \A i \in 1..Len(h) : h[i] = q[i + 1] /\ i + 1 \in 1..Len(q) /\ i + 1 # 1
        /\ \A i \in 1..Len(q) : i = 1 \/ (i - 1 \in 1..Len(h) /\ h[i - 1] = q[i])
        /\ Head(q) = q[1] /\ 1 \in 1..Len(q)
    BY <1>1
  <1> HIDE DEF h
  <1>3. ToSet(q) = ToSet(h) \cup {q[1]}
    <2>1. ToSet(q) = {q[i] : i \in 1..Len(q)} /\ ToSet(h) = {h[i] : i \in 1..Len(h)}
      BY <1>1, <1>2 DEF ToSet
    <2>2. ASSUME NEW x \in ToSet(q) PROVE x \in ToSet(h) \cup {q[1]}
      <3>1. PICK i \in 1..Len(q) : x = q[i]
        BY <2>1
      <3>2. i = 1 \/ (i - 1 \in 1..Len(h) /\ h[i - 1] = q[i])
        BY <1>2
      <3> QED
        BY <2>1, <3>1, <3>2
    <2>3. ASSUME NEW x \in ToSet(h) PROVE x \in ToSet(q)
      <3>1. PICK i \in 1..Len(h) : x = h[i]
        BY <2>1
      <3>2. h[i] = q[i + 1] /\ i + 1 \in 1..Len(q)
        BY <1>2
      <3> QED
        BY <2>1, <3>1, <3>2
    <2>4. q[1] \in ToSet(q)
      BY <1>2, <2>1
    <2> QED
      BY <2>2, <2>3, <2>4
  <1>4. \A i \in 1..Len(h) : h[i] # q[1]
    BY <1>2 DEF Queue, Injective
  <1>5. q[1] \notin ToSet(h) /\ q[1] \in S
    BY <1>1, <1>2, <1>4 DEF ToSet
  <1>6. Injective(h)
    <2> SUFFICES ASSUME NEW i \in 1..Len(h), NEW j \in 1..Len(h), h[i] = h[j] PROVE i = j
      BY DEF Injective
    <2>1. i + 1 = j + 1
      BY <1>2 DEF Queue, Injective
    <2> QED
      BY <1>2, <2>1
  <1> QED
    BY <1>2, <1>3, <1>5, <1>6 DEF h, Queue

(* Two queues without a common member, one after the other.                *)
LEMMA QueueJoin ==
    ASSUME NEW S, NEW p, NEW q, Queue(p, S), Queue(q, S), Apart(p, q)
    PROVE  Queue(p \o q, S)
  BY JoinTables DEF Queue, Apart

(* The members of two queues, one after the other.                         *)
LEMMA JoinMembers ==
    ASSUME NEW S, NEW p, NEW q, Queue(p, S), Queue(q, S)
    PROVE  ToSet(p \o q) = ToSet(p) \cup ToSet(q)
  BY JoinTables DEF Queue

(* A request alone.                                                        *)
LEMMA QueueOne ==
    ASSUME NEW S, NEW r \in S
    PROVE  Queue(<<r>>, S) /\ ToSet(<<r>>) = {r}
  <1>1. <<r>> \in Seq(S) /\ Len(<<r>>) = 1 /\ DOMAIN <<r>> = {1} /\ <<r>>[1] = r
    OBVIOUS
  <1>2. ToSet(<<r>>) = {r}
    BY <1>1 DEF ToSet
  <1>3. Injective(<<r>>)
    BY <1>1 DEF Injective
  <1> QED
    BY <1>1, <1>2, <1>3 DEF Queue

(* The empty queue.                                                        *)
LEMMA QueueEmpty ==
    ASSUME NEW S
    PROVE  Queue(<< >>, S) /\ ToSet(<< >>) = {} /\ Len(<< >>) = 0
  BY DEF Queue, Injective, ToSet

(* A queue cut in two.                                                     *)
LEMMA QueueCut ==
    ASSUME NEW S, NEW q, Queue(q, S), NEW k \in 0..Len(q)
    PROVE  /\ Queue(SubSeq(q, 1, k), S) /\ Queue(SubSeq(q, k + 1, Len(q)), S)
           /\ Apart(SubSeq(q, 1, k), SubSeq(q, k + 1, Len(q)))
           /\ ToSet(q) = ToSet(SubSeq(q, 1, k)) \cup ToSet(SubSeq(q, k + 1, Len(q)))
  <1> DEFINE h == SubSeq(q, 1, k)
             t == SubSeq(q, k + 1, Len(q))
  <1>1. q \in Seq(S) /\ Injective(q)
    BY DEF Queue
  <1>2. h \in Seq(S) /\ t \in Seq(S)
    BY <1>1, CutQueue
  <1>3. /\ Injective(h) /\ Injective(t) /\ ToSet(h) \subseteq ToSet(q)
        /\ ToSet(t) = ToSet(q) \ ToSet(h)
    BY <1>1, CutInjective
  <1> HIDE DEF h, t
  <1>4. ToSet(h) \cap ToSet(t) = {} /\ ToSet(q) = ToSet(h) \cup ToSet(t)
    BY <1>3
  <1> QED
    BY <1>2, <1>3, <1>4 DEF Queue, Apart, h, t

(* A newcomer inserted behind the first k.                                 *)
LEMMA QueueInsert ==
    ASSUME NEW S, NEW q, Queue(q, S), NEW k \in 0..Len(q), NEW r \in S, r \notin ToSet(q)
    PROVE  Queue(InsertAt(q, k + 1, r), S) /\ ToSet(InsertAt(q, k + 1, r)) = ToSet(q) \cup {r}
  <1>1. PICK h : h = SubSeq(q, 1, k)
    OBVIOUS
  <1>2. PICK t : t = SubSeq(q, k + 1, Len(q))
    OBVIOUS
  <1>3. PICK one : one = <<r>>
    OBVIOUS
  <1>4. Queue(h, S) /\ Queue(t, S) /\ Queue(one, S)
    BY <1>1, <1>2, <1>3, QueueCut, QueueOne
  <1>5. Apart(h, t) /\ ToSet(q) = ToSet(h) \cup ToSet(t)
    BY <1>1, <1>2, QueueCut
  <1>6. ToSet(one) = {r}
    BY <1>3, QueueOne
  <1>7. Apart(h, one)
    BY <1>5, <1>6 DEF Apart
  <1>8. Queue(h \o one, S) /\ ToSet(h \o one) = ToSet(h) \cup ToSet(one)
    <2>1. Queue(h \o one, S)
      BY <1>4, <1>7, QueueJoin
    <2>2. ToSet(h \o one) = ToSet(h) \cup ToSet(one)
      BY <1>4, JoinMembers
    <2> QED
      BY <2>1, <2>2
  <1>9. Apart(h \o one, t)
    BY <1>5, <1>6, <1>8 DEF Apart
  <1>10. PICK u : u = h \o one
    OBVIOUS
  <1>11. Queue(u \o t, S) /\ ToSet(u \o t) = ToSet(u) \cup ToSet(t)
    <2>1. Queue(u, S) /\ Apart(u, t) /\ Queue(t, S)
      BY <1>4, <1>8, <1>9, <1>10
    <2>2. Queue(u \o t, S)
      BY <2>1, QueueJoin
    <2>3. ToSet(u \o t) = ToSet(u) \cup ToSet(t)
      BY <2>1, JoinMembers
    <2> QED
      BY <2>2, <2>3
  <1>12. InsertAt(q, k + 1, r) = u \o t
    <2>1. (k + 1) - 1 = k
      BY DEF Queue
    <2> QED
      BY <1>1, <1>2, <1>3, <1>10, <2>1 DEF InsertAt
  <1> QED
    BY <1>5, <1>6, <1>8, <1>10, <1>11, <1>12

(* Fewer members, a shorter queue.                                         *)
LEMMA QueueShorter ==
    ASSUME NEW S, NEW p, NEW q, Queue(p, S), Queue(q, S), ToSet(p) \subseteq ToSet(q)
    PROVE  Len(p) <= Len(q)
  <1>1. /\ IsFiniteSet(ToSet(p)) /\ Cardinality(ToSet(p)) = Len(p)
        /\ IsFiniteSet(ToSet(q)) /\ Cardinality(ToSet(q)) = Len(q)
    BY LenInjective DEF Queue
  <1>2. Cardinality(ToSet(p)) <= Cardinality(ToSet(q))
    BY <1>1, FS_Subset
  <1> QED
    BY <1>1, <1>2

(* The order in which the reports of a step name requests.                 *)
LEMMA ListedOnce ==
    ASSUME NEW S, IsFiniteSet(S), NEW q \in SetToSeqs(S)
    PROVE  Queue(q, S)
  <1>1. Cardinality(S) \in Nat
    BY FS_CardinalityType
  <1>2. PICK n \in Nat : n = Cardinality(S)
    BY <1>1
  <1>3. q \in [1..n -> S] /\ \A i, j \in 1..n : i # j => q[i] # q[j]
    BY <1>2 DEF SetToSeqs
  <1>4. q \in Seq(S) /\ Len(q) = n
    BY <1>3
  <1>5. Injective(q)
    BY <1>3, <1>4 DEF Injective
  <1> QED
    BY <1>4, <1>5 DEF Queue

IsList(q) == \E S : q \in Seq(S)

OneMore(rows, row, more) ==
    /\ IsList(more) /\ Len(rows) \in Nat /\ Len(more) = Len(rows) + 1
    /\ \A i \in 1..Len(rows) : more[i] = rows[i]
    /\ more[Len(rows) + 1] = row

(* One row more.                                                           *)
LEMMA MoreRows ==
    ASSUME NEW rows, IsList(rows), NEW row, NEW more, more = Append(rows, row)
    PROVE  OneMore(rows, row, more)
  <1>1. PICK S : rows \in Seq(S)
    BY DEF IsList
  <1>2. PICK T : T = S \cup {row}
    OBVIOUS
  <1>3. rows \in Seq(T) /\ row \in T
    BY <1>1, <1>2
  <1>4. more \in Seq(T) /\ Len(more) = Len(rows) + 1 /\ Len(rows) \in Nat
    BY <1>3
  <1>5. \A i \in 1..Len(rows) : more[i] = rows[i]
    BY <1>3
  <1>6. more[Len(rows) + 1] = row
    BY <1>3
  <1> QED
    BY <1>4, <1>5, <1>6 DEF IsList, OneMore

(* rows are those of some of the scheduled: one each, at most. *)
Listed(rows, scheduled, n) ==
    /\ IsList(rows)
    /\ \A i \in 1..Len(rows) : \E j \in 1..n : rows[i].req = scheduled[j]
    /\ \A i, j \in 1..Len(rows) : rows[i].req = rows[j].req => i = j

(* A row more.                                                             *)
LEMMA RowListed ==
    ASSUME NEW scheduled, NEW S, Queue(scheduled, S), NEW n \in 1..Len(scheduled), NEW rows,
           Listed(rows, scheduled, n - 1), NEW row, row.req = scheduled[n],
           NEW more, more = Append(rows, row)
    PROVE  Listed(more, scheduled, n)
  <1>1. /\ IsList(rows)
        /\ \A i \in 1..Len(rows) : \E j \in 1..(n - 1) : rows[i].req = scheduled[j]
        /\ \A i, j \in 1..Len(rows) : rows[i].req = rows[j].req => i = j
    BY DEF Listed
  <1>2. /\ Len(scheduled) \in Nat
        /\ \A i, j \in 1..Len(scheduled) : scheduled[i] = scheduled[j] => i = j
    BY DEF Queue, Injective
  <1>3. /\ IsList(more) /\ Len(rows) \in Nat /\ Len(more) = Len(rows) + 1
        /\ \A i \in 1..Len(rows) : more[i] = rows[i]
        /\ more[Len(rows) + 1] = row
    <2>1. OneMore(rows, row, more)
      BY <1>1, MoreRows
    <2> QED
      BY <2>1 DEF OneMore
  <1>4. \A i \in 1..Len(rows) : rows[i].req # scheduled[n]
    <2> SUFFICES ASSUME NEW i \in 1..Len(rows), rows[i].req = scheduled[n] PROVE FALSE
      OBVIOUS
    <2>1. PICK j \in 1..(n - 1) : rows[i].req = scheduled[j]
      BY <1>1
    <2>2. j \in 1..Len(scheduled) /\ j # n
      BY <1>2
    <2> QED
      BY <1>2, <2>1, <2>2
  <1>5. \A i \in 1..Len(more) : i \in 1..Len(rows) \/ i = Len(rows) + 1
    BY <1>3
  <1>6. \A i \in 1..Len(more) : \E j \in 1..n : more[i].req = scheduled[j]
    <2> SUFFICES ASSUME NEW i \in 1..Len(more) PROVE \E j \in 1..n : more[i].req = scheduled[j]
      OBVIOUS
    <2>1. CASE i = Len(rows) + 1
      <3>1. n \in 1..n
        BY <1>2
      <3> QED
        BY <1>3, <2>1, <3>1
    <2>2. CASE i \in 1..Len(rows)
      <3>1. PICK j \in 1..(n - 1) : rows[i].req = scheduled[j]
        BY <1>1, <2>2
      <3>2. j \in 1..n
        BY <1>2
      <3> QED
        BY <1>3, <2>2, <3>1, <3>2
    <2> QED
      BY <1>5, <2>1, <2>2
  <1>7. \A i, j \in 1..Len(more) : more[i].req = more[j].req => i = j
    BY <1>1, <1>3, <1>4, <1>5
  <1> QED
    BY <1>1, <1>3, <1>6, <1>7 DEF Listed

Joins(x, y, z) == z = x \o y

Parts(x, y, z) ==
    /\ Len(z) = Len(x) + Len(y)
    /\ \A i \in 1..Len(x) : z[i] = x[i]
    /\ \A i \in 1..Len(y) : z[Len(x) + i] = y[i]

(* Two lists in one.                                                       *)
LEMMA Joined ==
    ASSUME NEW V, NEW x, List(x, V), NEW y, List(y, V), NEW z, Joins(x, y, z)
    PROVE  List(z, V) /\ Parts(x, y, z)
  <1>1. PICK a \in Seq(V) : a = x
    BY DEF List
  <1>2. PICK b \in Seq(V) : b = y
    BY DEF List
  <1>3. /\ a \o b \in Seq(V) /\ Len(a \o b) = Len(a) + Len(b)
        /\ \A i \in 1..Len(a) : (a \o b)[i] = a[i]
        /\ \A i \in 1..Len(b) : (a \o b)[Len(a) + i] = b[i]
    BY JoinTables
  <1> QED
    BY <1>1, <1>2, <1>3 DEF List, Joins, Parts

(* Three lists in one, joined from either end.                             *)
LEMMA JoinedBothWays ==
    ASSUME NEW V, NEW x, List(x, V), NEW y, List(y, V), NEW z, List(z, V),
           NEW a, Joins(x, y, a), NEW b, Joins(y, z, b), NEW c, Joins(a, z, c)
    PROVE  Joins(x, b, c)
  <1>1. x \in Seq(V) /\ y \in Seq(V) /\ z \in Seq(V)
    BY DEF List
  <1>2. (x \o y) \o z = x \o (y \o z)
    BY <1>1, ConcatAssociative
  <1> QED
    BY <1>2 DEF Joins

(* The last k of a list.                                                   *)
LEMMA LastTokens ==
    ASSUME NEW V, NEW v \in Seq(V), NEW n \in Nat, NEW k \in Nat, Len(v) = n + k, NEW w,
           w = SubSeq(v, Len(v) - k + 1, Len(v))
    PROVE  w \in Seq(V) /\ Len(w) = k /\ \A j \in 1..k : w[j] = v[n + j]
  <1>1. Len(v) - k + 1 = n + 1
    OBVIOUS
  <1>2. w = SubSeq(v, n + 1, n + k)
    BY <1>1
  <1>3. \A i \in (n + 1)..(n + k) : v[i] \in V
    OBVIOUS
  <1>4. PICK m \in Nat : m = n + 1
    OBVIOUS
  <1>5. PICK e \in Nat : e = n + k
    OBVIOUS
  <1>6. /\ w \in Seq(V) /\ Len(w) = IF m <= e THEN e - m + 1 ELSE 0
        /\ \A i \in 1..(e - m + 1) : w[i] = v[m + i - 1]
    BY <1>2, <1>3, <1>4, <1>5, SubSeqProperties
  <1>7. Len(w) = k /\ e - m + 1 = k
    BY <1>4, <1>5, <1>6
  <1>8. ASSUME NEW j \in 1..k PROVE w[j] = v[n + j]
    <2>1. m + j - 1 = n + j
      BY <1>4
    <2> QED
      BY <1>6, <1>7, <2>1
  <1> QED
    BY <1>6, <1>7, <1>8

(* v is u and k tokens more. *)
Grown(u, v, k) ==
    /\ Len(v) = Len(u) + k
    /\ \A j \in 1..Len(u) : v[j] = u[j]

(* d is c and the last k of v. *)
Extends(c, v, k, d) == d = c \o SubSeq(v, Len(v) - k + 1, Len(v))

(* The new tokens of a list that has grown, put behind what was delivered, *)
(* make the list again.                                                    *)
LEMMA GrownTokens ==
    ASSUME NEW V, NEW p, List(p, V), NEW c, List(c, V), NEW u, Joins(p, c, u),
           NEW v, List(v, V), NEW k \in Nat, Grown(u, v, k), NEW d, Extends(c, v, k, d)
    PROVE  /\ List(d, V) /\ Joins(p, d, v) /\ Len(d) = Len(c) + k
           /\ k > 0 => Last(d) = Last(v)
  <1>1. List(u, V)
    BY Joined
  <1>0. u \in Seq(V) /\ v \in Seq(V) /\ c \in Seq(V)
    BY <1>1 DEF List
  <1>2. PICK n \in Nat : n = Len(u)
    BY <1>0
  <1>3. Len(v) = n + k /\ \A j \in 1..n : v[j] = u[j]
    BY <1>2 DEF Grown
  <1>4. PICK w : w = SubSeq(v, Len(v) - k + 1, Len(v))
    OBVIOUS
  <1>5. w \in Seq(V) /\ Len(w) = k /\ \A j \in 1..k : w[j] = v[n + j]
    <2>1. v \in Seq(V)
      BY <1>0
    <2>2. Len(v) = n + k
      BY <1>3
    <2> QED
      BY <1>4, <2>1, <2>2, LastTokens
  <1>6. PICK x : x = u \o w
    OBVIOUS
  <1> DEFINE L(s) == List(s, V)
  <1>7. L(u) /\ L(w) /\ L(p) /\ L(c) /\ Joins(u, w, x)
    BY <1>1, <1>5, <1>6 DEF List, Joins
  <1>20. L(x) /\ Parts(u, w, x)
    BY <1>7, Joined
  <1>21. x \in Seq(V)
    BY <1>20 DEF List
  <1>8. /\ Len(x) = n + k
        /\ \A i \in 1..n : x[i] = u[i]
        /\ \A i \in 1..k : x[n + i] = w[i]
    BY <1>2, <1>5, <1>20 DEF Parts
  <1>9. ASSUME NEW i \in 1..(n + k) PROVE x[i] = v[i]
    <2>1. CASE i <= n
      BY <1>3, <1>8, <2>1
    <2>2. CASE i > n
      <3>1. PICK j \in 1..k : i = n + j
        BY <2>2
      <3>2. x[n + j] = w[j] /\ w[j] = v[n + j]
        BY <1>5, <1>8
      <3> QED
        BY <3>1, <3>2
    <2> QED
      BY <2>1, <2>2
  <1>10. x = v
    BY <1>0, <1>3, <1>21, <1>8, <1>9, SeqEqual
  <1>11. PICK e : e = c \o w
    OBVIOUS
  <1>12. e = d /\ Joins(c, w, e)
    BY <1>4, <1>11 DEF Joins, Extends
  <1>13. Joins(p, e, x)
    BY <1>7, <1>12, JoinedBothWays
  <1>14. Joins(p, e, v)
    BY <1>10, <1>13
  <1>22. L(e) /\ Parts(c, w, e)
    BY <1>7, <1>12, Joined
  <1>16. PICK m \in Nat : m = Len(c)
    BY <1>0
  <1>17. Len(e) = m + k /\ \A i \in 1..k : e[m + i] = w[i]
    BY <1>5, <1>22, <1>16 DEF Parts
  <1>18. ASSUME k > 0 PROVE Last(e) = Last(v)
    <2>1. k \in 1..k
      BY <1>18
    <2>2. e[m + k] = w[k] /\ w[k] = v[n + k]
      BY <1>5, <1>17, <2>1
    <2>3. Last(e) = e[m + k] /\ Last(v) = v[n + k]
      BY <1>3, <1>17 DEF Last
    <2> QED
      BY <2>2, <2>3
  <1> QED
    BY <1>12, <1>14, <1>22, <1>16, <1>17, <1>18

(* A list that grows keeps its beginning.                                  *)
LEMMA GrownIsPrefix ==
    ASSUME NEW V, NEW u \in Seq(V), NEW v \in Seq(V), NEW k \in Nat, Grown(u, v, k)
    PROVE  IsPrefix(u, v)
  <1>1. PICK n \in Nat : n = Len(u)
    OBVIOUS
  <1>2. Len(v) = n + k /\ \A j \in 1..n : v[j] = u[j]
    BY <1>1 DEF Grown
  <1>3. PICK a : a = SubSeq(u, 1, n)
    OBVIOUS
  <1>4. PICK b : b = SubSeq(v, 1, n)
    OBVIOUS
  <1>5. a \in Seq(V) /\ Len(a) = n /\ \A j \in 1..n : a[j] = u[j]
    <2>1. \A i \in 1..n : u[i] \in V
      BY <1>1
    <2>2. /\ a \in Seq(V) /\ Len(a) = IF 1 <= n THEN n - 1 + 1 ELSE 0
          /\ \A i \in 1..(n - 1 + 1) : a[i] = u[1 + i - 1]
      BY <1>3, <2>1, SubSeqProperties
    <2> QED
      BY <2>2
  <1>6. b \in Seq(V) /\ Len(b) = n /\ \A j \in 1..n : b[j] = v[j]
    <2>1. \A i \in 1..n : v[i] \in V
      BY <1>2
    <2>2. /\ b \in Seq(V) /\ Len(b) = IF 1 <= n THEN n - 1 + 1 ELSE 0
          /\ \A i \in 1..(n - 1 + 1) : b[i] = v[1 + i - 1]
      BY <1>4, <2>1, SubSeqProperties
    <2> QED
      BY <2>2
  <1>7. a = b
    BY <1>2, <1>5, <1>6, SeqEqual
  <1> QED
    BY <1>1, <1>2, <1>3, <1>4, <1>7 DEF IsPrefix
=============================================================================
