--------------------------- MODULE Kernels_proofs ---------------------------
(***************************************************************************)
(* The two state machines that Kernels runs side by side, each for every   *)
(* value of its constants.                                                 *)
(*                                                                         *)
(* StopsOnce, for every set of letters, every finite set of stop strings   *)
(* and every cut of the text into pieces. A match not yet seen ends past   *)
(* the text so far, so it begins within the longest stop's length of the   *)
(* end: the held tail is long enough to hold all of it but the last        *)
(* letter, and a search of the tail finds what a search of the text does.  *)
(*                                                                         *)
(* StepsKeepApart, for every runner configuration, batch and lag of the    *)
(* device behind the host. A step waits for the last copy out of its       *)
(* pinned buffer, so the buffer holds what the one copy in the stream is   *)
(* to bring; every pass in the stream has its inputs staged or behind that *)
(* copy; and a graph's call leaves no slot and no keys in its spare rows.  *)
(***************************************************************************)
EXTENDS DeviceStream, StopChecker, FiniteSetTheorems, SequenceTheorems, WellFoundedInduction, TLAPS

(* Stop s stands in a text from its 0-based position i on. *)
Stands(s, text, i) ==
    /\ s # << >> /\ i + Len(s) <= Len(text)
    /\ \A j \in 1..Len(s) : text[i + j] = s[j]

-----------------------------------------------------------------------------
(* A finite set of numbers that is not empty has a greatest member. *)
LEMMA FiniteMax ==
    ASSUME NEW T \in SUBSET Nat, IsFiniteSet(T), T # {}
    PROVE  Max(T) \in T /\ \A y \in T : y <= Max(T)
  <1> DEFINE HasMax(U) == \E x \in U : \A y \in U : x >= y
             Bad == {U \in SUBSET T : U # {} /\ ~HasMax(U)}
  <1>1. \A U \in SUBSET T : IsFiniteSet(U)
    BY FS_Subset
  <1>2. Bad \subseteq FiniteSubsetsOf(T)
    BY <1>1 DEF FiniteSubsetsOf
  <1>3. Bad = {}
    <2> SUFFICES ASSUME Bad # {} PROVE FALSE
      OBVIOUS
    <2>1. IsWellFoundedOn(StrictSubsetOrdering(T), FiniteSubsetsOf(T))
      BY FS_StrictSubsetOrderingWellFounded
    <2> HIDE DEF Bad
    <2>2. PICK U \in Bad : \A V \in Bad : ~(<<V, U>> \in StrictSubsetOrdering(T))
      BY <1>2, <2>1, WFMin
    <2>3. U \in SUBSET T /\ U # {} /\ ~HasMax(U)
      BY DEF Bad
    <2>4. PICK x \in U : TRUE
      BY <2>3
    <2>5. x \in Nat /\ U \subseteq Nat
      BY <2>3
    <2>6. U \ {x} # {}
      <3> SUFFICES ASSUME U \ {x} = {} PROVE HasMax(U)
        BY <2>3
      <3>1. \A y \in U : y = x /\ x >= y
        BY <2>5
      <3> QED
        BY <3>1
    <2>7. U \ {x} \notin Bad
      BY <2>2, <2>3, <2>4 DEF StrictSubsetOrdering
    <2>8. PICK z \in U \ {x} : \A y \in U \ {x} : z >= y
      BY <2>3, <2>6, <2>7 DEF Bad
    <2>9. CASE z >= x
      <3>1. \A y \in U : z >= y
        BY <2>8, <2>9
      <3> QED
        BY <2>3, <3>1
    <2>10. CASE ~(z >= x)
      <3>1. \A y \in U : x >= y
        BY <2>5, <2>8, <2>10
      <3> QED
        BY <2>3, <3>1
    <2> QED
      BY <2>9, <2>10
  <1>4. HasMax(T)
    BY <1>3
  <1>5. PICK x \in T : \A y \in T : x >= y
    BY <1>4
  <1>6. Max(T) \in T /\ \A y \in T : Max(T) >= y
    BY <1>5 DEF Max
  <1> QED
    BY <1>6

(* So has a set of numbers up to n a smallest one. *)
LEMMA LeastMember ==
    ASSUME NEW T \in SUBSET Nat, T # {}
    PROVE  Min(T) \in T /\ \A y \in T : Min(T) <= y
  <1>1. PICK m \in T : TRUE
    OBVIOUS
  <1> DEFINE D == {m - y : y \in {y \in T : y <= m}}
  <1>2. D \in SUBSET Nat /\ \A d \in D : d <= m
    OBVIOUS
  <1>3. IsFiniteSet(D)
    BY <1>2, FS_BoundedSetOfNaturals
  <1>4. m - m \in D
    OBVIOUS
  <1>5. Max(D) \in D /\ \A d \in D : d <= Max(D)
    BY <1>2, <1>3, <1>4, FiniteMax
  <1>6. PICK x \in T : x <= m /\ Max(D) = m - x
    BY <1>5
  <1>7. ASSUME NEW y \in T PROVE x <= y
    <2>0. x \in Nat /\ y \in Nat /\ m \in Nat
      OBVIOUS
    <2>1. CASE y <= m
      <3>1. m - y \in D
        BY <2>1
      <3> HIDE DEF D
      <3>2. m - y <= m - x
        BY <1>5, <1>6, <3>1
      <3> QED
        BY <2>0, <3>2
    <2>2. CASE ~(y <= m)
      BY <2>0, <1>6, <2>2
    <2> QED
      BY <2>1, <2>2
  <1> QED
    BY <1>7 DEF Min

(* A member that no other is below is the least. *)
LEMMA LeastIs ==
    ASSUME NEW T \in SUBSET Nat, NEW x \in T, \A y \in T : x <= y
    PROVE  Min(T) = x
  <1>1. Min(T) \in T /\ Min(T) <= x /\ x <= Min(T)
    BY LeastMember
  <1>2. Min(T) \in Nat /\ x \in Nat
    BY <1>1
  <1> QED
    BY <1>1, <1>2

(* What str.find finds, letter by letter. *)
LEMMA FindsStands ==
    ASSUME NEW text \in Seq(Letters), NEW stops, \A s \in stops : s \in Seq(Letters),
           NEW i \in Nat
    PROVE  i \in Finds(text, stops) <=> \E s \in stops : Stands(s, text, i)
  <1>1. ASSUME NEW s \in Seq(Letters), i <= Len(text)
        PROVE  (s # << >> /\ IsPrefix(s, SubSeq(text, i + 1, Len(text)))) <=> Stands(s, text, i)
    <2> DEFINE rest == SubSeq(text, i + 1, Len(text))
    <2>1. /\ rest \in Seq(Letters) /\ Len(rest) = Len(text) - i
          /\ \A j \in 1..Len(rest) : rest[j] = text[i + j]
      BY <1>1, SMTT(30)
    <2>2. Len(s) \in Nat /\ Len(text) \in Nat /\ SubSeq(s, 1, Len(s)) = s
      OBVIOUS
    <2> HIDE DEF rest
    <2>3. ASSUME Len(s) <= Len(rest)
          PROVE  (s = SubSeq(rest, 1, Len(s))) <=> \A j \in 1..Len(s) : text[i + j] = s[j]
      <3> DEFINE t == SubSeq(rest, 1, Len(s))
      <3>1. t \in Seq(Letters) /\ Len(t) = Len(s) /\ \A j \in 1..Len(s) : t[j] = rest[j]
        BY <2>1, <2>2, <2>3
      <3>2. \A j \in 1..Len(s) : rest[j] = text[i + j]
        BY <2>1, <2>2, <2>3
      <3> HIDE DEF t
      <3>3. (s = t) <=> \A j \in 1..Len(s) : s[j] = t[j]
        BY <3>1
      <3> QED
        BY <3>1, <3>2, <3>3 DEF t
    <2>4. IsPrefix(s, rest) <=> Len(s) <= Len(rest) /\ s = SubSeq(rest, 1, Len(s))
      BY <2>2 DEF IsPrefix
    <2>5. Len(s) <= Len(rest) <=> i + Len(s) <= Len(text)
      BY <2>1, <2>2
    <2> QED
      BY <2>3, <2>4, <2>5 DEF Stands, rest
  <1>2. ASSUME NEW s \in stops, Stands(s, text, i) PROVE i <= Len(text)
    <2>1. s \in Seq(Letters)
      OBVIOUS
    <2>2. Len(s) \in Nat /\ Len(text) \in Nat
      BY <2>1
    <2> QED
      BY <1>2, <2>2 DEF Stands
  <1>3. i \in 0..Len(text) <=> i <= Len(text)
    OBVIOUS
  <1> QED
    BY <1>1, <1>2, <1>3 DEF Finds

(* hold is a number, and no stop is longer than it and one letter. *)
LEMMA HoldBounds ==
    ASSUME NEW stops, IsFiniteSet(stops), \A s \in stops : s \in Seq(Letters)
    PROVE  Hold(stops) \in Nat /\ \A s \in stops : Len(s) <= Hold(stops) + 1
  <1> DEFINE lens == {Len(s) : s \in stops}
             f == [s \in stops |-> Len(s)]
             all == lens \cup {1}
  <1>1. f \in Surjection(stops, lens)
    BY DEF Surjection
  <1>2. IsFiniteSet(all)
    BY <1>1, FS_Surjection, FS_AddElement
  <1>3. all \in SUBSET Nat /\ 1 \in all
    OBVIOUS
  <1>4. Max(all) \in all /\ \A y \in all : y <= Max(all)
    BY <1>2, <1>3, FiniteMax
  <1>5. Hold(stops) = Max(all) - 1
    BY DEF Hold
  <1>6. \A s \in stops : Len(s) \in all
    OBVIOUS
  <1> HIDE DEF all
  <1>7. Max(all) \in Nat /\ Max(all) >= 1
    BY <1>3, <1>4
  <1> QED
    BY <1>3, <1>4, <1>5, <1>6, <1>7

-----------------------------------------------------------------------------
(* Nothing that was let through can still be part of a match: either it is *)
(* empty, or the tail is as long as a checker ever holds.                  *)
TailHeld(c) == c.emitted = << >> \/ Len(c.buffer) >= Hold(c.stops)

Checkers == [stops : StopSets, buffer : Seq(Letters), emitted : Seq(Letters), matched : BOOLEAN]

(* The inductive invariant, of a checker and the text: until a match, the  *)
(* text is what was emitted and what is held, and no stop is in it.        *)
Follows(c, text, over) ==
    /\ c \in Checkers /\ text \in Seq(Letters) /\ over \in BOOLEAN
    /\ ~c.matched =>
          /\ c.emitted \o c.buffer = text
          /\ Finds(text, c.stops) = {}
          /\ over \/ c.stops \subseteq {<< >>} \/ TailHeld(c)
          /\ over \/ c.stops \subseteq {<< >>} => c.buffer = << >>
    /\ c.matched =>
          /\ Finds(text, c.stops) # {}
          /\ c.emitted = SubSeq(text, 1, Min(Finds(text, c.stops)))
          /\ ~over

TextInv == Follows(checker, sent, ended)

(* A search of the tail finds what a search of the text does. *)
LEMMA TailFinds ==
    ASSUME NEW stops, IsFiniteSet(stops), \A s \in stops : s \in Seq(Letters),
           NEW emitted \in Seq(Letters), NEW buffer \in Seq(Letters), NEW text \in Seq(Letters),
           Finds(emitted \o buffer, stops) = {},
           emitted = << >> \/ Len(buffer) >= Hold(stops),
           NEW i \in Nat
    PROVE  i \in Finds((emitted \o buffer) \o text, stops)
              <=> i >= Len(emitted) /\ i - Len(emitted) \in Finds(buffer \o text, stops)
  <1> DEFINE n == Len(emitted)
             old == emitted \o buffer
             all == old \o text
             tail == buffer \o text
  <1>1. /\ n \in Nat /\ old \in Seq(Letters) /\ all \in Seq(Letters) /\ tail \in Seq(Letters)
        /\ Len(old) = n + Len(buffer) /\ Len(all) = Len(old) + Len(text)
        /\ Len(tail) = Len(buffer) + Len(text)
        /\ Len(buffer) \in Nat /\ Len(text) \in Nat
    OBVIOUS
  <1>2. \A j \in 1..Len(tail) : all[n + j] = tail[j]
    OBVIOUS
  <1>3. \A j \in 1..Len(old) : all[j] = old[j]
    OBVIOUS
  <1> HIDE DEF n, old, all, tail
  <1>4. ASSUME NEW s \in stops, Stands(s, all, i)
        PROVE  i >= n
    <2>1. s \in Seq(Letters) /\ Len(s) \in Nat
      OBVIOUS
    <2>2. CASE i + Len(s) <= Len(old)
      <3>1. \A j \in 1..Len(s) : i + j \in 1..Len(old)
        BY <1>1, <2>1, <2>2
      <3>2. Stands(s, old, i)
        BY <1>3, <1>4, <2>2, <3>1 DEF Stands
      <3>3. i \in Finds(old, stops)
        BY <1>1, <3>2, FindsStands
      <3> QED
        BY <3>3 DEF old
    <2>3. CASE ~(i + Len(s) <= Len(old))
      <3>1. Hold(stops) \in Nat /\ Len(s) <= Hold(stops) + 1
        BY HoldBounds
      <3>2. CASE emitted = << >>
        BY <3>2 DEF n
      <3>3. CASE Len(buffer) >= Hold(stops)
        BY <1>1, <2>1, <2>3, <3>1, <3>3
      <3> QED
        BY <3>2, <3>3
    <2> QED
      BY <2>2, <2>3
  <1>5. ASSUME NEW s \in stops, i >= n
        PROVE  Stands(s, all, i) <=> Stands(s, tail, i - n)
    <2>1. s \in Seq(Letters) /\ Len(s) \in Nat
      OBVIOUS
    <2>2. i + Len(s) <= Len(all) <=> (i - n) + Len(s) <= Len(tail)
      BY <1>1, <2>1
    <2>3. ASSUME NEW j \in 1..Len(s), i + Len(s) <= Len(all)
          PROVE  all[i + j] = tail[(i - n) + j]
      <3>1. (i - n) + j \in 1..Len(tail) /\ n + ((i - n) + j) = i + j
        <4>1. PICK k \in Nat : k = Len(s)
          BY <2>1
        <4>2. PICK m \in Nat : m = Len(tail)
          BY <1>1
        <4>3. (i - n) + k <= m /\ j \in 1..k
          BY <2>2, <2>3, <4>1, <4>2
        <4>4. i \in Int /\ n \in Int /\ i - n >= 0
          BY <1>1, <1>5
        <4>5. (i - n) + j \in 1..m /\ n + ((i - n) + j) = i + j
          BY ONLY <4>3, <4>4, k \in Nat, m \in Nat
        <4> QED
          BY <4>2, <4>5
      <3> QED
        BY <1>2, <3>1
    <2> QED
      BY <2>2, <2>3 DEF Stands
  <1>6. i \in Finds(all, stops) <=> \E s \in stops : Stands(s, all, i)
    BY <1>1, FindsStands
  <1>7. CASE i >= n
    <2>1. i - n \in Nat
      BY <1>1, <1>7
    <2>2. i - n \in Finds(tail, stops) <=> \E s \in stops : Stands(s, tail, i - n)
      BY <1>1, <2>1, FindsStands
    <2> QED
      BY <1>5, <1>6, <1>7, <2>2 DEF n, all, old, tail
  <1>8. CASE ~(i >= n)
    BY <1>4, <1>6, <1>8 DEF n, all, old, tail
  <1> QED
    BY <1>7, <1>8

(* Without a stop that is not empty, nothing is found. *)
LEMMA NothingFound ==
    ASSUME NEW text \in Seq(Letters), NEW stops, stops \subseteq {<< >>}
    PROVE  Finds(text, stops) = {}
  BY DEF Finds

(* A sequence cut in two and joined again. *)
LEMMA CutJoin ==
    ASSUME NEW T, NEW q \in Seq(T), NEW k \in 0..Len(q)
    PROVE  /\ SubSeq(q, 1, k) \in Seq(T) /\ SubSeq(q, k + 1, Len(q)) \in Seq(T)
           /\ Len(SubSeq(q, 1, k)) = k /\ Len(SubSeq(q, k + 1, Len(q))) = Len(q) - k
           /\ SubSeq(q, 1, k) \o SubSeq(q, k + 1, Len(q)) = q
  <1>1. Len(q) \in Nat /\ k \in Nat /\ k <= Len(q) /\ k + 1 \in Int
    OBVIOUS
  <1>2. \A i \in 1..Len(q) : q[i] \in T
    BY ElementOfSeq
  <1>3. SubSeq(q, 1, k) \in Seq(T) /\ Len(SubSeq(q, 1, k)) = k
    BY <1>1, <1>2, SubSeqProperties
  <1>4. SubSeq(q, k + 1, Len(q)) \in Seq(T) /\ Len(SubSeq(q, k + 1, Len(q))) = Len(q) - k
    BY <1>1, <1>2, SubSeqProperties
  <1>5. SubSeq(q, 1, k) \o SubSeq(q, k + 1, Len(q)) = SubSeq(q, 1, Len(q))
    <2>1. 1 \in 1..(Len(q) + 1) /\ k \in (1 - 1)..Len(q) /\ Len(q) \in k..Len(q)
      BY <1>1
    <2> QED
      BY <2>1, ConcatAdjacentSubSeq
  <1> QED
    BY <1>3, <1>4, <1>5, SubSeqFull

(* A prefix of a concatenation that reaches into its second part. *)
LEMMA JoinPrefix ==
    ASSUME NEW T, NEW p \in Seq(T), NEW q \in Seq(T), NEW m \in 0..Len(q)
    PROVE  SubSeq(p \o q, 1, Len(p) + m) = p \o SubSeq(q, 1, m)
  <1> DEFINE x == SubSeq(q, 1, m)
             w == p \o q
             n == Len(p) + m
             y == SubSeq(w, 1, n)
  <1>1. /\ Len(p) \in Nat /\ m \in Nat /\ m <= Len(q) /\ Len(q) \in Nat
        /\ n \in Nat /\ n <= Len(p) + Len(q)
    OBVIOUS
  <1>2. w \in Seq(T) /\ Len(w) = Len(p) + Len(q)
        /\ \A i \in 1..(Len(p) + Len(q)) : w[i] = IF i <= Len(p) THEN p[i] ELSE q[i - Len(p)]
    BY ConcatProperties
  <1>3. x \in Seq(T) /\ Len(x) = m /\ \A i \in 1..m : x[i] = q[i]
    <2>1. \A i \in 1..m : q[i] \in T
      BY <1>1, ElementOfSeq
    <2>2. /\ x \in Seq(T) /\ Len(x) = IF 1 <= m THEN m - 1 + 1 ELSE 0
          /\ \A i \in 1..(m - 1 + 1) : x[i] = q[1 + i - 1]
      BY <1>1, <2>1, SubSeqProperties
    <2> QED
      BY <1>1, <2>2
  <1> HIDE DEF w, x
  <1>4. y \in Seq(T) /\ Len(y) = n /\ \A i \in 1..n : y[i] = w[i]
    <2>1. \A i \in 1..n : w[i] \in T
      BY <1>1, <1>2, ElementOfSeq
    <2> HIDE DEF n
    <2>2. /\ y \in Seq(T) /\ Len(y) = IF 1 <= n THEN n - 1 + 1 ELSE 0
          /\ \A i \in 1..(n - 1 + 1) : y[i] = w[1 + i - 1]
      BY <1>1, <2>1, SubSeqProperties
    <2> QED
      BY <1>1, <2>2
  <1>5. p \o x \in Seq(T) /\ Len(p \o x) = n
        /\ \A i \in 1..n : (p \o x)[i] = IF i <= Len(p) THEN p[i] ELSE x[i - Len(p)]
    BY <1>3, ConcatProperties
  <1> HIDE DEF y
  <1>6. ASSUME NEW i \in 1..n PROVE y[i] = (p \o x)[i]
    <2>1. CASE i <= Len(p)
      BY <1>1, <1>2, <1>4, <1>5, <2>1
    <2>2. CASE ~(i <= Len(p))
      <3>1. i - Len(p) \in 1..m /\ i \in 1..(Len(p) + Len(q))
        BY <1>1, <2>2
      <3> QED
        BY <1>2, <1>3, <1>4, <1>5, <2>2, <3>1
    <2> QED
      BY <2>1, <2>2
  <1>7. y = p \o x
    BY <1>4, <1>5, <1>6, SeqEqual
  <1> QED
    BY <1>7 DEF x, y, w

(* A checker with its stops, before a match and at one. *)
Open(stops, e, b) == [stops |-> stops, buffer |-> b, emitted |-> e, matched |-> FALSE]
Hit(stops, e) == [stops |-> stops, buffer |-> << >>, emitted |-> e, matched |-> TRUE]

(* A checker that follows its text is open, with its parts so. *)
LEMMA IsOpen ==
    ASSUME NEW c \in Checkers, ~c.matched
    PROVE  \E stops \in StopSets : \E e, b \in Seq(Letters) : c = Open(stops, e, b)
  <1>1. c = Open(c.stops, c.emitted, c.buffer)
    BY DEF Open, Checkers
  <1>2. c.stops \in StopSets /\ c.emitted \in Seq(Letters) /\ c.buffer \in Seq(Letters)
    BY DEF Checkers
  <1> QED
    BY <1>1, <1>2

(* What the invariant says of a checker without a match. *)
LEMMA OpenFollows ==
    ASSUME NEW stops \in StopSets, NEW e \in Seq(Letters), NEW b \in Seq(Letters), NEW text
    PROVE  Follows(Open(stops, e, b), text, FALSE) <=>
              /\ e \o b = text /\ Finds(text, stops) = {}
              /\ stops \subseteq {<< >>} \/ e = << >> \/ Len(b) >= Hold(stops)
              /\ stops \subseteq {<< >>} => b = << >>
  <1>1. e \o b \in Seq(Letters)
    BY ConcatProperties
  <1>2. PICK c : c = Open(stops, e, b)
    OBVIOUS
  <1>3. c \in Checkers /\ c.stops = stops /\ c.buffer = b /\ c.emitted = e /\ ~c.matched
    BY <1>2 DEF Open, Checkers
  <1>4. Follows(c, text, FALSE) <=>
              /\ e \o b = text /\ Finds(text, stops) = {}
              /\ stops \subseteq {<< >>} \/ e = << >> \/ Len(b) >= Hold(stops)
              /\ stops \subseteq {<< >>} => b = << >>
    BY <1>1, <1>3 DEF Follows, TailHeld
  <1> QED
    BY <1>2, <1>4

(* A text flushed without a match. *)
LEMMA EndedFollows ==
    ASSUME NEW stops \in StopSets, NEW text \in Seq(Letters), Finds(text, stops) = {}
    PROVE  Follows(Open(stops, text, << >>), text, TRUE)
  <1>1. << >> \in Seq(Letters) /\ text \o << >> = text
    BY EmptySeq, ConcatEmptySeq
  <1>2. PICK c : c = Open(stops, text, << >>)
    OBVIOUS
  <1>3. c \in Checkers /\ c.stops = stops /\ c.buffer = << >> /\ c.emitted = text /\ ~c.matched
    BY <1>1, <1>2 DEF Open, Checkers
  <1>4. Follows(c, text, TRUE)
    BY <1>1, <1>3 DEF Follows
  <1> QED
    BY <1>2, <1>4

(* A checker that let the text up to the first stop through. *)
LEMMA HitFollows ==
    ASSUME NEW stops \in StopSets, NEW text \in Seq(Letters), NEW e \in Seq(Letters),
           Finds(text, stops) # {}, e = SubSeq(text, 1, Min(Finds(text, stops)))
    PROVE  Follows(Hit(stops, e), text, FALSE)
  <1>1. PICK d : d = Hit(stops, e)
    OBVIOUS
  <1>2. d \in Checkers /\ d.stops = stops /\ d.emitted = e /\ d.matched
    BY <1>1, EmptySeq DEF Hit, Checkers
  <1>3. Follows(d, text, FALSE)
    BY <1>2 DEF Follows
  <1> QED
    BY <1>1, <1>3

(* push of a piece, before a match: a match found, or a tail held. *)
LEMMA PushOpen ==
    ASSUME NEW stops \in StopSets, NEW e \in Seq(Letters), NEW b \in Seq(Letters),
           NEW text \in Seq(Letters), NEW old, Follows(Open(stops, e, b), old, FALSE)
    PROVE  Follows(Push(Open(stops, e, b), text), old \o text, FALSE)
  <1> DEFINE all == old \o text
             buffer == b \o text
             found == Finds(buffer, stops)
             n == Len(e)
  <1>1. /\ e \o b = old /\ Finds(old, stops) = {}
        /\ stops \subseteq {<< >>} \/ e = << >> \/ Len(b) >= Hold(stops)
        /\ stops \subseteq {<< >>} => b = << >>
    BY OpenFollows
  <1>3. IsFiniteSet(stops) /\ \A s \in stops : s \in Seq(Letters)
    BY TextAssumption
  <1>4. old \in Seq(Letters) /\ all \in Seq(Letters) /\ buffer \in Seq(Letters) /\ n \in Nat
        /\ Len(buffer) \in Nat /\ Len(buffer) = Len(b) + Len(text) /\ Len(b) \in Nat
    <2>1. e \o b \in Seq(Letters) /\ b \o text \in Seq(Letters)
          /\ Len(b \o text) = Len(b) + Len(text)
      BY ConcatProperties
    <2>2. (e \o b) \o text \in Seq(Letters)
      BY <2>1, ConcatProperties
    <2>3. Len(b) \in Nat /\ Len(text) \in Nat /\ Len(e) \in Nat
      BY LenProperties
    <2> QED
      BY <1>1, <2>1, <2>2, <2>3
  <1>5. all = e \o buffer
    <2>1. (e \o b) \o text = e \o (b \o text)
      BY ConcatAssociative
    <2> QED
      BY <1>1, <2>1
  <1>6. found \in SUBSET Nat /\ \A i \in found : i <= Len(buffer)
    BY <1>4 DEF Finds
  <1>7. CASE stops \subseteq {<< >>}
    <2>1. Push(Open(stops, e, b), text) = Open(stops, e \o text, << >>)
      <3>1. b = << >>
        BY <1>1, <1>7
      <3> QED
        BY <1>7, <3>1 DEF Push, Open
    <2>2. e \o text \in Seq(Letters) /\ << >> \in Seq(Letters)
      BY ConcatProperties
    <2>3. (e \o text) \o << >> = all
      <3>1. e \o << >> = e /\ b = << >>
        BY <1>1, <1>7, ConcatEmptySeq
      <3>2. (e \o text) \o << >> = e \o text
        BY <2>2, ConcatEmptySeq
      <3> QED
        BY <1>1, <3>1, <3>2
    <2>4. Finds(all, stops) = {}
      BY <1>4, <1>7, NothingFound
    <2>5. Follows(Open(stops, e \o text, << >>), all, FALSE)
      BY <1>7, <2>2, <2>3, <2>4, OpenFollows
    <2> QED
      BY <2>1, <2>5
  <1>8. CASE ~(stops \subseteq {<< >>})
    <2>1. e = << >> \/ Len(b) >= Hold(stops)
      BY <1>1, <1>8
    <2>2. \A i \in Nat : i \in Finds(all, stops) <=> i >= n /\ i - n \in found
      <3>1. \A i \in Nat :
               i \in Finds((e \o b) \o text, stops)
                  <=> i >= Len(e) /\ i - Len(e) \in Finds(b \o text, stops)
        BY <1>1, <1>3, <2>1, TailFinds
      <3> QED
        BY <1>1, <3>1
    <2>3. Finds(all, stops) \in SUBSET Nat
      BY <1>4 DEF Finds
    <2>4. CASE found # {}
      <3> DEFINE m == Min(found)
                 f == e \o SubSeq(buffer, 1, m)
      <3>1. m \in found /\ \A y \in found : m <= y
        BY <1>6, <2>4, LeastMember
      <3>2. m \in Nat /\ m <= Len(buffer) /\ m \in 0..Len(buffer)
        BY <1>4, <1>6, <3>1
      <3>3. f \in Seq(Letters) /\ << >> \in Seq(Letters)
        <4>1. SubSeq(buffer, 1, m) \in Seq(Letters)
          BY <1>4, <3>2, CutJoin
        <4>2. PICK x \in Seq(Letters) : x = SubSeq(buffer, 1, m)
          BY <4>1
        <4>3. e \o x \in Seq(Letters)
          BY ConcatProperties
        <4>4. f = e \o x
          BY <4>2
        <4> QED
          BY <4>3, <4>4, EmptySeq
      <3>4. Push(Open(stops, e, b), text) = Hit(stops, f)
        BY <1>8, <2>4 DEF Push, Open, Hit
      <3>5. SubSeq(all, 1, n + m) = f
        BY <1>4, <1>5, <3>2, JoinPrefix
      <3> HIDE DEF m, f
      <3>6. n + m \in Finds(all, stops)
        BY <1>4, <2>2, <3>1, <3>2
      <3>7. \A y \in Finds(all, stops) : n + m <= y
        <4> SUFFICES ASSUME NEW y \in Finds(all, stops) PROVE n + m <= y
          OBVIOUS
        <4>1. y \in Nat /\ y >= n /\ y - n \in found
          BY <2>2, <2>3
        <4> QED
          BY <1>4, <3>1, <3>2, <4>1
      <3>8. Min(Finds(all, stops)) = n + m
        BY <2>3, <3>6, <3>7, LeastIs
      <3>9. Follows(Hit(stops, f), all, FALSE)
        <4>1. f = SubSeq(all, 1, Min(Finds(all, stops))) /\ Finds(all, stops) # {}
          BY <3>5, <3>6, <3>8
        <4> QED
          BY <1>4, <3>3, <4>1, HitFollows
      <3> QED
        BY <3>4, <3>9
    <2>5. CASE found = {}
      <3> DEFINE h == Hold(stops)
                 k == Max({Len(buffer) - h, 0})
                 f == e \o SubSeq(buffer, 1, k)
                 g == SubSeq(buffer, k + 1, Len(buffer))
      <3>1. h \in Nat
        BY <1>3, HoldBounds
      <3>2. k = IF Len(buffer) >= h THEN Len(buffer) - h ELSE 0
        <4> HIDE DEF h
        <4> QED
          BY <1>4, <3>1 DEF Max
      <3>3. Push(Open(stops, e, b), text) = Open(stops, f, g)
        BY <1>8, <2>5 DEF Push, Open
      <3>4. k \in Nat /\ k <= Len(buffer) /\ k \in 0..Len(buffer)
        <4> HIDE DEF h, k
        <4> QED
          BY <1>4, <3>1, <3>2
      <3> HIDE DEF k, h
      <3>5. /\ SubSeq(buffer, 1, k) \in Seq(Letters) /\ g \in Seq(Letters)
            /\ Len(g) = Len(buffer) - k /\ SubSeq(buffer, 1, k) \o g = buffer
        BY <1>4, <3>4, CutJoin
      <3>6. f \in Seq(Letters)
        BY <3>5, ConcatProperties
      <3>7. f \o g = all
        <4>1. PICK x \in Seq(Letters), y \in Seq(Letters) : x = SubSeq(buffer, 1, k) /\ y = g
          BY <3>5
        <4>2. (e \o x) \o y = e \o (x \o y)
          BY ConcatAssociative, SMTT(30)
        <4> QED
          BY <1>5, <3>5, <4>1, <4>2
      <3>8. k = 0 => f = e
        <4>1. ASSUME k = 0 PROVE SubSeq(buffer, 1, k) = << >>
          BY <1>4, <4>1, SubSeqEmpty
        <4> QED
          BY <4>1, ConcatEmptySeq
      <3> HIDE DEF f, g
      <3>9. Finds(all, stops) = {}
        BY <2>2, <2>3, <2>5
      <3>10. f = << >> \/ Len(g) >= Hold(stops)
        <4>1. CASE Len(buffer) >= h
          BY <1>4, <3>1, <3>2, <3>4, <3>5, <4>1 DEF h
        <4>2. CASE ~(Len(buffer) >= h)
          <5>1. k = 0 /\ Len(b) < h
            BY <1>4, <3>1, <3>2, <4>2
          <5>2. e = << >>
            BY <1>4, <2>1, <3>1, <5>1 DEF h
          <5> QED
            BY <3>8, <5>1, <5>2
        <4> QED
          BY <4>1, <4>2
      <3>11. Follows(Open(stops, f, g), all, FALSE)
        BY <1>8, <3>5, <3>6, <3>7, <3>9, <3>10, OpenFollows
      <3> QED
        BY <3>3, <3>11
    <2> QED
      BY <2>4, <2>5
  <1> QED
    BY <1>7, <1>8

(* push of a piece, whether or not there was a match before it. *)
LEMMA PushKeeps ==
    ASSUME NEW c, NEW old, NEW text \in Seq(Letters), Follows(c, old, FALSE), ~c.matched
    PROVE  Follows(Push(c, text), old \o text, FALSE)
  <1>1. c \in Checkers
    BY DEF Follows
  <1>2. PICK stops \in StopSets : \E e, b \in Seq(Letters) : c = Open(stops, e, b)
    BY <1>1, IsOpen
  <1> QED
    BY <1>2, PushOpen

(* flush, before a match. *)
LEMMA FlushOpen ==
    ASSUME NEW stops \in StopSets, NEW e \in Seq(Letters), NEW b \in Seq(Letters),
           NEW text, Follows(Open(stops, e, b), text, FALSE)
    PROVE  Follows(Flush(Open(stops, e, b)), text, TRUE)
  <1>1. e \o b = text /\ Finds(text, stops) = {}
    BY OpenFollows
  <1>2. Flush(Open(stops, e, b)) = Open(stops, e \o b, << >>)
    <2>1. PICK c : c = Open(stops, e, b)
      OBVIOUS
    <2>2. c.emitted = e /\ c.buffer = b
      BY <2>1 DEF Open
    <2>3. PICK t : t = e \o b
      OBVIOUS
    <2>4. PICK nil : nil = << >>
      OBVIOUS
    <2>5. Flush(c) = [c EXCEPT !.emitted = t, !.buffer = nil]
      BY <2>2, <2>3, <2>4 DEF Flush
    <2>6. [c EXCEPT !.emitted = t, !.buffer = nil] = Open(stops, t, nil)
      <3>1. PICK no : no = FALSE
        OBVIOUS
      <3>2. c = [stops |-> stops, buffer |-> b, emitted |-> e, matched |-> no]
        BY <2>1, <3>1 DEF Open
      <3>3. [c EXCEPT !.emitted = t, !.buffer = nil]
              = [stops |-> stops, buffer |-> nil, emitted |-> t, matched |-> no]
        <4>1. PICK x : x = [c EXCEPT !.emitted = t, !.buffer = nil]
          OBVIOUS
        <4>2. DOMAIN x = {"stops", "buffer", "emitted", "matched"}
          BY <3>2, <4>1
        <4>3. x.stops = stops /\ x.buffer = nil /\ x.emitted = t /\ x.matched = no
          BY <3>2, <4>1
        <4>4. x = [i \in {"stops", "buffer", "emitted", "matched"} |-> x[i]]
          BY <3>2, <4>1
        <4> QED
          BY <4>1, <4>2, <4>3, <4>4
      <3> QED
        BY <3>1, <3>3 DEF Open
    <2> QED
      BY <2>1, <2>3, <2>4, <2>5, <2>6
  <1>3. PICK t \in Seq(Letters) : t = e \o b
    BY ConcatProperties
  <1>4. Follows(Open(stops, t, << >>), t, TRUE)
    BY <1>1, <1>3, EndedFollows
  <1> QED
    BY <1>1, <1>2, <1>3, <1>4

(* flush, whether or not there was a match before it. *)
LEMMA FlushKeeps ==
    ASSUME NEW c, NEW text, Follows(c, text, FALSE), ~c.matched
    PROVE  Follows(Flush(c), text, TRUE)
  <1>1. c \in Checkers
    BY DEF Follows
  <1>2. PICK stops \in StopSets : \E e, b \in Seq(Letters) : c = Open(stops, e, b)
    BY <1>1, IsOpen
  <1> QED
    BY <1>2, FlushOpen

-----------------------------------------------------------------------------
(* The invariant holds of the empty text. *)
LEMMA StartFollows == StopInit => TextInv
  <1> SUFFICES ASSUME StopInit PROVE TextInv
    OBVIOUS
  <1>1. PICK stops \in StopSets : checker = NewChecker(stops)
    BY DEF StopInit
  <1>2. << >> \in Seq(Letters) /\ << >> \o << >> = << >>
    OBVIOUS
  <1>3. /\ checker \in Checkers /\ checker.stops = stops /\ checker.buffer = << >>
        /\ checker.emitted = << >> /\ checker.matched = FALSE
    BY <1>1, <1>2 DEF NewChecker, Checkers
  <1>4. \A s \in stops : s \in Seq(Letters)
    BY TextAssumption
  <1>5. Finds(<< >>, stops) = {}
    <2> SUFFICES ASSUME NEW i \in Finds(<< >>, stops) PROVE FALSE
      OBVIOUS
    <2>1. i \in Nat
      BY DEF Finds
    <2>2. PICK s \in stops : Stands(s, << >>, i)
      BY <1>2, <1>4, <2>1, FindsStands
    <2>3. s \in Seq(Letters) /\ s # << >> /\ i + Len(s) <= 0
      BY <1>4, <2>2 DEF Stands
    <2> QED
      BY <2>1, <2>3
  <1> QED
    BY <1>2, <1>3, <1>5 DEF StopInit, TextInv, Follows, TailHeld

(* Every step of a text keeps the invariant. *)
LEMMA StepFollows == TextInv /\ [StopNext]_stopVars => TextInv'
  <1> SUFFICES ASSUME TextInv, [StopNext]_stopVars PROVE TextInv'
    OBVIOUS
  <1>1. CASE PushText
    <2>1. PICK text \in Texts : sent' = sent \o text /\ checker' = Push(checker, text)
      BY <1>1 DEF PushText
    <2>2. text \in Seq(Letters)
      BY TextAssumption
    <2>3. ended = FALSE /\ ended' = FALSE /\ ~checker.matched
      BY <1>1 DEF PushText, TextInv, Follows
    <2>4. Follows(Push(checker, text), sent \o text, FALSE)
      BY <2>2, <2>3, PushKeeps DEF TextInv
    <2> QED
      BY <2>1, <2>3, <2>4 DEF TextInv
  <1>2. CASE EndText
    <2>1. /\ ended = FALSE /\ ended' = TRUE /\ ~checker.matched
          /\ sent' = sent /\ checker' = Flush(checker)
      BY <1>2 DEF EndText, TextInv, Follows
    <2>2. Follows(Flush(checker), sent, TRUE)
      BY <2>1, FlushKeeps DEF TextInv
    <2> QED
      BY <2>1, <2>2 DEF TextInv
  <1>3. CASE UNCHANGED stopVars
    BY <1>3 DEF stopVars, TextInv
  <1> QED
    BY <1>1, <1>2, <1>3 DEF StopNext

(* The invariant is strong enough. *)
LEMMA FollowsStops == TextInv => StopsOnce
  <1> SUFFICES ASSUME TextInv PROVE StopsOnce
    OBVIOUS
  <1>1. checker \in Checkers /\ sent \in Seq(Letters) /\ checker.matched \in BOOLEAN
    BY DEF TextInv, Follows, Checkers
  <1>2. CASE checker.matched
    BY <1>2 DEF TextInv, Follows, StopsOnce
  <1>3. CASE ~checker.matched
    <2>1. /\ checker.emitted \o checker.buffer = sent /\ Finds(sent, checker.stops) = {}
          /\ ended => checker.buffer = << >>
      BY <1>3 DEF TextInv, Follows
    <2>2. checker.emitted \in Seq(Letters)
      BY <1>1 DEF Checkers
    <2>3. checker.emitted \o << >> = checker.emitted
      BY <2>2, ConcatAssociative, ConcatEmptySeq
    <2>4. ended => checker.emitted = sent
      BY <2>1, <2>3
    <2> QED
      BY <1>1, <1>3, <2>1, <2>4 DEF StopsOnce
  <1> QED
    BY <1>2, <1>3

(* Whatever the stop strings and however a text is cut into pieces, push   *)
(* and flush emit the text up to the first stop string in it and never a   *)
(* letter of one.                                                          *)
THEOREM StopStringsStop == StopSpec => []StopsOnce
  <1>1. StopInit => TextInv
    BY StartFollows
  <1>2. TextInv /\ [StopNext]_stopVars => TextInv'
    BY StepFollows
  <1>3. TextInv => StopsOnce
    BY FollowsStops
  <1> QED
    BY <1>1, <1>2, <1>3, PTL DEF StopSpec

-----------------------------------------------------------------------------
(***************************************************************************)
(* Steps on the device.                                                    *)
(***************************************************************************)
Passes == {"graph", "draft", "piecewise", "eager"}

Value == Int \X Int
Buffer == Seq(Value)

Runners == {Runner(c) : c \in Setups}

(* What the host may enqueue: a full graph only for a batch it has rows    *)
(* for, a padded pass only for a batch that fits the largest bucket.       *)
Copy == [op : {"copy"}, owner : Owners, n : Nat]
Sample == [op : {"sample"}]
PassOp == [op : Passes, owner : Owners, inputs : Owners, q : Nat \ {0}, b : Nat \X (Nat \ {0})]
Fits(runner, x) ==
    /\ \E rows \in Nat \ {0} :
          /\ x.b[2] = rows * x.q
          /\ x.op = "graph" => x.q = runner.graph_query_len /\ \E size \in runner.graph_bs : rows <= size
          /\ x.op = "draft" => x.q = 1 /\ \E size \in runner.draft_bs : rows <= size
    /\ x.op = "piecewise" => \E size \in runner.piecewise_bs : x.b[2] <= size
Ops(runner) == Copy \cup Sample \cup {x \in PassOp : Fits(runner, x)}

(* The first n entries of a buffer are those of step s. *)
Begins(buffer, s, n) == Len(buffer) >= n /\ \A j \in 1..n : buffer[j] = <<s, j>>

CopyAt(str, o, c) == str[c].op = "copy" /\ str[c].owner = o

(* The lengths of the copies for o that run before operation i. *)
Ahead(str, o, i) == {str[c].n : c \in {c \in 1..(i - 1) : CopyAt(str, o, c)}}

(* Operation i will find step s in what o has staged: it is there, or in   *)
(* the pinned buffer that a copy ahead of i will read.                     *)
Supplied(str, pin, inp, o, i, s, n) ==
    IF Ahead(str, o, i) = {} THEN Begins(inp[o], s, n)
    ELSE Begins(pin[o], s, n) /\ \A m \in Ahead(str, o, i) : m >= n

OpSupplied(str, pin, inp, i, s) ==
    /\ str[i].op \in Passes =>
          str[i].b[1] = s /\ Supplied(str, pin, inp, str[i].inputs, i, s, str[i].b[2])
    /\ str[i].op = "sample" => Supplied(str, pin, inp, "target", i, s, 1)

(* One copy per owner at a time, of what its pinned buffer has. *)
OneCopy(str, pin) ==
    \A o \in Owners :
        /\ \A i, j \in 1..Len(str) : CopyAt(str, o, i) /\ CopyAt(str, o, j) => i = j
        /\ \A i \in 1..Len(str) : CopyAt(str, o, i) => str[i].n <= Len(pin[o])

(* of[i] is the step of operation i: a sample is the last of its step.     *)
Ordered(str, of, first, next) ==
    /\ of \in [1..(Len(str) + 1) -> Nat]
    /\ of[1] = first /\ of[Len(str) + 1] = next
    /\ \A i \in 1..Len(str) : of[i + 1] = IF str[i].op = "sample" THEN of[i] + 1 ELSE of[i]

(* The stream: operations of steps first to next, each with its inputs.    *)
Lined(runner, str, pin, inp, first, next) ==
    /\ str \in Seq(Ops(runner))
    /\ OneCopy(str, pin)
    /\ \E of : /\ Ordered(str, of, first, next)
               /\ \A i \in 1..Len(str) : OpSupplied(str, pin, inp, i, of[i])

(* Operations behind i do not matter to it.                                *)
LEMMA AheadJoin ==
    ASSUME NEW S, NEW str \in Seq(S), NEW more \in Seq(S), NEW o, NEW i \in 1..(Len(str) + 1)
    PROVE  Ahead(str \o more, o, i) = Ahead(str, o, i)
  <1>1. PICK h : h = str \o more
    OBVIOUS
  <1>2. \A c \in 1..(i - 1) : h[c] = str[c]
    BY <1>1
  <1>3. Ahead(h, o, i) = Ahead(str, o, i)
    BY <1>2 DEF Ahead, CopyAt
  <1> QED
    BY <1>1, <1>3

(* Nor do operations that are no copies for o.                             *)
LEMMA AheadPast ==
    ASSUME NEW S, NEW str \in Seq(S), NEW more \in Seq(S), NEW o,
           \A c \in 1..Len(more) : ~CopyAt(more, o, c),
           NEW i \in 1..(Len(more) + 1)
    PROVE  Ahead(str \o more, o, Len(str) + i) = Ahead(str, o, Len(str) + 1)
  <1>1. PICK h : h = str \o more
    OBVIOUS
  <1>2. PICK k \in Nat : k = Len(str)
    OBVIOUS
  <1>3. /\ \A c \in 1..k : h[c] = str[c]
        /\ \A c \in 1..Len(more) : h[k + c] = more[c]
        /\ Len(more) \in Nat
    BY <1>1, <1>2
  <1>4. ASSUME NEW c \in 1..(k + i - 1), c \notin 1..k PROVE ~CopyAt(h, o, c)
    <2>1. c - k \in 1..Len(more) /\ k + (c - k) = c
      BY <1>3, <1>4
    <2>2. h[c] = more[c - k]
      BY <1>3, <2>1
    <2> QED
      BY <2>1, <2>2 DEF CopyAt
  <1>5. 1..k \subseteq 1..(k + i - 1)
    OBVIOUS
  <1>6. {c \in 1..(k + i - 1) : CopyAt(h, o, c)} = {c \in 1..k : CopyAt(str, o, c)}
    BY <1>3, <1>4, <1>5 DEF CopyAt
  <1>7. Ahead(h, o, k + i) = Ahead(str, o, k + 1)
    <2>1. PICK X : X = {c \in 1..k : CopyAt(str, o, c)}
      OBVIOUS
    <2>2. \A c \in X : h[c].n = str[c].n
      BY <1>3, <2>1
    <2>3. {h[c].n : c \in X} = {str[c].n : c \in X}
      BY <2>2
    <2>4. (k + 1) - 1 = k
      OBVIOUS
    <2>5. Ahead(h, o, k + i) = {h[c].n : c \in X}
      BY <1>6, <2>1 DEF Ahead
    <2>6. Ahead(str, o, k + 1) = {str[c].n : c \in X}
      BY <2>1, <2>4 DEF Ahead
    <2> QED
      BY <2>3, <2>5, <2>6
  <1> QED
    BY <1>1, <1>2, <1>7

NoSample(more) == \A i \in 1..Len(more) : more[i].op # "sample"

(* The steps of a longer stream: none of the new operations is a sample.   *)
LEMMA OrderJoin ==
    ASSUME NEW S, NEW str \in Seq(S), NEW more \in Seq(S), NEW of, NEW first, NEW next,
           Ordered(str, of, first, next), NoSample(more)
    PROVE  \E on : /\ Ordered(str \o more, on, first, next)
                   /\ \A i \in 1..Len(str) : on[i] = of[i]
                   /\ \A i \in 1..Len(more) : on[Len(str) + i] = next
  <1>1. PICK h : h = str \o more
    OBVIOUS
  <1>2. PICK k \in Nat : k = Len(str)
    OBVIOUS
  <1>3. /\ \A c \in 1..k : h[c] = str[c]
        /\ \A c \in 1..Len(more) : h[k + c] = more[c]
        /\ Len(more) \in Nat /\ Len(h) = k + Len(more)
    BY <1>1, <1>2
  <1>4. PICK on : on = [i \in 1..(Len(h) + 1) |-> IF i <= k THEN of[i] ELSE next]
    OBVIOUS
  <1>5. /\ of \in [1..(k + 1) -> Nat] /\ of[1] = first /\ of[k + 1] = next
        /\ \A i \in 1..k : of[i + 1] = IF str[i].op = "sample" THEN of[i] + 1 ELSE of[i]
    BY <1>2 DEF Ordered
  <1>6. /\ on \in [1..(Len(h) + 1) -> Nat] /\ on[Len(h) + 1] = next
        /\ \A i \in 1..(k + 1) : on[i] = of[i]
        /\ \A i \in 1..(Len(more) + 1) : on[k + i] = next
    <2>1. PICK m \in Nat : m = Len(more) /\ Len(h) = k + m
      BY <1>3
    <2>2. on = [i \in 1..(k + m + 1) |-> IF i <= k THEN of[i] ELSE next]
      BY <1>4, <2>1
    <2>3. next \in Nat /\ \A i \in 1..k : of[i] \in Nat
      <3>1. k + 1 \in 1..(k + 1) /\ 1..k \subseteq 1..(k + 1)
        OBVIOUS
      <3> QED
        BY <1>5, <3>1
    <2>4. on \in [1..(k + m + 1) -> Nat]
      <3>1. \A i \in 1..(k + m + 1) : i <= k => i \in 1..k
        OBVIOUS
      <3> QED
        BY <2>2, <2>3, <3>1
    <2>5. \A i \in 1..(m + 1) : on[k + i] = next
      <3>1. \A i \in 1..(m + 1) : k + i \in 1..(k + m + 1) /\ ~(k + i <= k)
        OBVIOUS
      <3> QED
        BY <2>2, <3>1
    <2>6. \A i \in 1..(k + 1) : on[i] = of[i]
      <3>1. \A i \in 1..(k + 1) : i \in 1..(k + m + 1) /\ (i <= k \/ i = k + 1)
        OBVIOUS
      <3> QED
        BY <1>5, <2>2, <3>1
    <2>7. on[k + m + 1] = next
      <3>1. m + 1 \in 1..(m + 1) /\ k + (m + 1) = k + m + 1
        OBVIOUS
      <3> QED
        BY <2>5, <3>1
    <2> QED
      BY <2>1, <2>4, <2>5, <2>6, <2>7
  <1>7. on[1] = first
    BY <1>5, <1>6
  <1>8. ASSUME NEW i \in 1..Len(h)
        PROVE  on[i + 1] = IF h[i].op = "sample" THEN on[i] + 1 ELSE on[i]
    <2>1. CASE i \in 1..k
      <3>1. i \in 1..(k + 1) /\ i + 1 \in 1..(k + 1) /\ h[i] = str[i]
        BY <1>3, <2>1
      <3> QED
        BY <1>5, <1>6, <2>1, <3>1
    <2>2. CASE i \notin 1..k
      <3>1. PICK c \in 1..Len(more) : i = k + c
        <4>1. i - k \in 1..Len(more) /\ i = k + (i - k)
          BY <1>3, <2>2
        <4> QED
          BY <4>1
      <3>2. h[i].op # "sample"
        BY <1>3, <3>1 DEF NoSample
      <3>3. c + 1 \in 1..(Len(more) + 1) /\ c \in 1..(Len(more) + 1) /\ i + 1 = k + (c + 1)
        BY <1>3, <3>1
      <3> QED
        BY <1>6, <3>1, <3>2, <3>3
    <2> QED
      BY <2>1, <2>2
  <1>9. Ordered(h, on, first, next)
    BY <1>6, <1>7, <1>8 DEF Ordered
  <1>10. /\ \A i \in 1..Len(str) : on[i] = of[i]
         /\ \A i \in 1..Len(more) : on[Len(str) + i] = next
    BY <1>2, <1>3, <1>6
  <1> QED
    BY <1>1, <1>9, <1>10

(* A sample ends the step.                                                 *)
LEMMA OrderSample ==
    ASSUME NEW S, NEW str \in Seq(S), NEW x \in S, x.op = "sample", NEW of, NEW first, NEW next,
           Ordered(str, of, first, next)
    PROVE  \E on : /\ Ordered(str \o <<x>>, on, first, next + 1)
                   /\ \A i \in 1..Len(str) : on[i] = of[i]
                   /\ on[Len(str) + 1] = next
  <1>1. PICK h : h = str \o <<x>>
    OBVIOUS
  <1>2. PICK k \in Nat : k = Len(str)
    OBVIOUS
  <1>3. (\A c \in 1..k : h[c] = str[c]) /\ h[k + 1] = x /\ Len(h) = k + 1
    BY <1>1, <1>2
  <1>4. PICK on : on = [i \in 1..(k + 2) |-> IF i <= k + 1 THEN of[i] ELSE next + 1]
    OBVIOUS
  <1>5. /\ of \in [1..(k + 1) -> Nat] /\ of[1] = first /\ of[k + 1] = next
        /\ \A i \in 1..k : of[i + 1] = IF str[i].op = "sample" THEN of[i] + 1 ELSE of[i]
    BY <1>2 DEF Ordered
  <1>6. /\ on \in [1..(k + 2) -> Nat] /\ on[k + 2] = next + 1
        /\ \A i \in 1..(k + 1) : on[i] = of[i]
    BY <1>4, <1>5
  <1>7. on[1] = first /\ on[k + 1] = next
    BY <1>5, <1>6
  <1>8. ASSUME NEW i \in 1..(k + 1)
        PROVE  on[i + 1] = IF h[i].op = "sample" THEN on[i] + 1 ELSE on[i]
    <2>1. CASE i \in 1..k
      <3>1. i \in 1..(k + 1) /\ i + 1 \in 1..(k + 1) /\ h[i] = str[i]
        BY <1>3, <2>1
      <3> QED
        BY <1>5, <1>6, <2>1, <3>1
    <2>2. CASE i \notin 1..k
      <3>1. i = k + 1 /\ i + 1 = k + 2
        BY <2>2
      <3> QED
        BY <1>3, <1>6, <1>7, <3>1
    <2> QED
      BY <2>1, <2>2
  <1>9. Ordered(h, on, first, next + 1)
    BY <1>3, <1>6, <1>7, <1>8 DEF Ordered
  <1>10. \A i \in 1..k : on[i] = of[i]
    BY <1>6
  <1> QED
    BY <1>1, <1>2, <1>7, <1>9, <1>10

(* The first operation runs.                                               *)
LEMMA OrderTail ==
    ASSUME NEW S, NEW str \in Seq(S), str # << >>, NEW of, NEW first, NEW next,
           Ordered(str, of, first, next)
    PROVE  \E on : /\ Ordered(Tail(str), on, IF Head(str).op = "sample" THEN first + 1 ELSE first, next)
                   /\ \A i \in 1..Len(Tail(str)) : on[i] = of[i + 1]
  <1>1. PICK h : h = Tail(str)
    OBVIOUS
  <1>2. PICK k \in Nat : k + 1 = Len(str)
    <2>1. Len(str) \in Nat /\ Len(str) # 0
      OBVIOUS
    <2>2. Len(str) - 1 \in Nat /\ (Len(str) - 1) + 1 = Len(str)
      BY <2>1
    <2> QED
      BY <2>2
  <1>3. (\A c \in 1..k : h[c] = str[c + 1]) /\ Head(str) = str[1] /\ Len(h) = k
    BY <1>1, <1>2
  <1>4. /\ of \in [1..(k + 2) -> Nat] /\ of[1] = first /\ of[k + 2] = next
        /\ \A i \in 1..(k + 1) : of[i + 1] = IF str[i].op = "sample" THEN of[i] + 1 ELSE of[i]
    <2>1. (k + 1) + 1 = k + 2
      OBVIOUS
    <2> QED
      BY <1>2, <2>1 DEF Ordered
  <1>5. PICK on : on = [i \in 1..(k + 1) |-> of[i + 1]]
    OBVIOUS
  <1>6. on \in [1..(k + 1) -> Nat] /\ on[k + 1] = next /\ \A i \in 1..(k + 1) : on[i] = of[i + 1]
    <2>1. \A i \in 1..(k + 1) : i + 1 \in 1..(k + 2)
      OBVIOUS
    <2>2. (k + 1) + 1 = k + 2 /\ k + 1 \in 1..(k + 1)
      OBVIOUS
    <2> QED
      BY <1>4, <1>5, <2>1, <2>2
  <1>7. on[1] = IF Head(str).op = "sample" THEN first + 1 ELSE first
    <2>1. 1 \in 1..(k + 1)
      OBVIOUS
    <2> QED
      BY <1>3, <1>4, <1>6, <2>1
  <1>8. ASSUME NEW i \in 1..k
        PROVE  on[i + 1] = IF h[i].op = "sample" THEN on[i] + 1 ELSE on[i]
    <2>1. i \in 1..(k + 1) /\ i + 1 \in 1..(k + 1)
      OBVIOUS
    <2>2. on[i] = of[i + 1] /\ on[i + 1] = of[(i + 1) + 1] /\ h[i] = str[i + 1]
      BY <1>3, <1>6, <2>1
    <2> QED
      BY <1>4, <2>1, <2>2
  <1>9. Ordered(h, on, IF Head(str).op = "sample" THEN first + 1 ELSE first, next)
    BY <1>3, <1>6, <1>7, <1>8 DEF Ordered
  <1>10. \A i \in 1..k : on[i] = of[i + 1]
    BY <1>6
  <1> QED
    BY <1>1, <1>3, <1>9, <1>10

(* What runs ahead of the others, once the first has run.                  *)
LEMMA AheadTail ==
    ASSUME NEW S, NEW str \in Seq(S), str # << >>, NEW o, NEW i \in 1..Len(str)
    PROVE  /\ ~CopyAt(str, o, 1) => Ahead(Tail(str), o, i) = Ahead(str, o, i + 1)
           /\ CopyAt(str, o, 1) => Ahead(str, o, i + 1) = Ahead(Tail(str), o, i) \cup {str[1].n}
  <1>1. PICK h : h = Tail(str)
    OBVIOUS
  <1>2. /\ i \in Nat /\ i >= 1 /\ i <= Len(str)
        /\ \A c \in 1..(i - 1) : h[c] = str[c + 1]
    BY <1>1
  <1>3. PICK X : X = {c \in 1..(i - 1) : CopyAt(h, o, c)}
    OBVIOUS
  <1>4. PICK Y : Y = {c \in 1..i : CopyAt(str, o, c)}
    OBVIOUS
  <1>5. Ahead(h, o, i) = {h[c].n : c \in X} /\ Ahead(str, o, i + 1) = {str[c].n : c \in Y}
    <2>1. (i + 1) - 1 = i
      OBVIOUS
    <2> QED
      BY <1>3, <1>4, <2>1 DEF Ahead
  <1>6. \A c \in X : c + 1 \in Y /\ h[c].n = str[c + 1].n
    BY <1>2, <1>3, <1>4 DEF CopyAt
  <1>7. \A c \in Y : c = 1 \/ (c - 1 \in X /\ h[c - 1].n = str[c].n)
    <2> SUFFICES ASSUME NEW c \in Y, c # 1 PROVE c - 1 \in X /\ h[c - 1].n = str[c].n
      OBVIOUS
    <2>1. c - 1 \in 1..(i - 1) /\ (c - 1) + 1 = c
      BY <1>4
    <2>2. h[c - 1] = str[c]
      BY <1>2, <2>1
    <2> QED
      BY <1>3, <1>4, <2>1, <2>2 DEF CopyAt
  <1>8. 1 \in Y <=> CopyAt(str, o, 1)
    BY <1>2, <1>4
  <1>9. ~CopyAt(str, o, 1) => Ahead(h, o, i) = Ahead(str, o, i + 1)
    BY <1>5, <1>6, <1>7, <1>8
  <1>10. CopyAt(str, o, 1) => Ahead(str, o, i + 1) = Ahead(h, o, i) \cup {str[1].n}
    BY <1>5, <1>6, <1>7, <1>8
  <1> QED
    BY <1>1, <1>9, <1>10

(* The copies of a longer stream, none of them new.                        *)
LEMMA CopiesJoin ==
    ASSUME NEW S, NEW str \in Seq(S), NEW more \in Seq(S), NEW pin, OneCopy(str, pin),
           \A c \in 1..Len(more) : more[c].op # "copy"
    PROVE  OneCopy(str \o more, pin)
  <1>1. PICK h : h = str \o more
    OBVIOUS
  <1>2. PICK k \in Nat : k = Len(str)
    OBVIOUS
  <1>3. /\ \A c \in 1..k : h[c] = str[c]
        /\ \A c \in 1..Len(more) : h[k + c] = more[c]
        /\ Len(more) \in Nat /\ Len(h) = k + Len(more)
    BY <1>1, <1>2
  <1>4. ASSUME NEW o \in Owners, NEW c \in 1..Len(h), CopyAt(h, o, c)
        PROVE  c \in 1..k /\ CopyAt(str, o, c) /\ h[c] = str[c]
    <2>1. c \in 1..k
      <3> SUFFICES ASSUME c \notin 1..k PROVE FALSE
        OBVIOUS
      <3>1. c - k \in 1..Len(more) /\ k + (c - k) = c
        BY <1>3
      <3>2. h[c] = more[c - k]
        BY <1>3, <3>1
      <3> QED
        BY <1>4, <3>1, <3>2 DEF CopyAt
    <2> QED
      BY <1>3, <1>4, <2>1 DEF CopyAt
  <1>5. OneCopy(h, pin)
    BY <1>2, <1>4 DEF OneCopy
  <1> QED
    BY <1>1, <1>5

(* Inputs are supplied or not by what is ahead.                            *)
LEMMA SameSupply ==
    ASSUME NEW a, NEW b, NEW pin, NEW inp, NEW o, NEW i, NEW j, NEW s, NEW n,
           Ahead(a, o, i) = Ahead(b, o, j), Supplied(a, pin, inp, o, i, s, n)
    PROVE  Supplied(b, pin, inp, o, j, s, n)
  BY DEF Supplied

(* Operations already in a stream stay supplied when it grows.             *)
LEMMA StaySupplied ==
    ASSUME NEW S, NEW str \in Seq(S), NEW more \in Seq(S), NEW pin, NEW inp, NEW s,
           NEW i \in 1..Len(str), OpSupplied(str, pin, inp, i, s)
    PROVE  OpSupplied(str \o more, pin, inp, i, s)
  <1>1. PICK h : h = str \o more
    OBVIOUS
  <1>2. h[i] = str[i] /\ i \in 1..(Len(str) + 1)
    BY <1>1
  <1>3. \A o : Ahead(h, o, i) = Ahead(str, o, i)
    BY <1>1, <1>2, AheadJoin
  <1>4. \A o, n : Supplied(str, pin, inp, o, i, s, n) => Supplied(h, pin, inp, o, i, s, n)
    BY <1>3 DEF Supplied
  <1>5. OpSupplied(h, pin, inp, i, s)
    BY <1>2, <1>4 DEF OpSupplied
  <1> QED
    BY <1>1, <1>5

(* Supplied at the end: what an operation enqueued now would find.         *)
AtEnd(str, pin, inp, o, s, n) == Supplied(str, pin, inp, o, Len(str) + 1, s, n)

(* Passes are enqueued, for which the inputs are supplied.                 *)
LEMMA PushPasses ==
    ASSUME NEW runner, NEW str, NEW pin, NEW inp, NEW first, NEW next,
           Lined(runner, str, pin, inp, first, next),
           NEW more \in Seq(Ops(runner)),
           \A i \in 1..Len(more) : /\ more[i].op \in Passes /\ more[i].b[1] = next
                                   /\ AtEnd(str, pin, inp, more[i].inputs, next, more[i].b[2])
    PROVE  /\ Lined(runner, str \o more, pin, inp, first, next)
           /\ \A o, s, n : AtEnd(str, pin, inp, o, s, n) => AtEnd(str \o more, pin, inp, o, s, n)
  <1>1. PICK h : h = str \o more
    OBVIOUS
  <1>2. PICK S : S = Ops(runner)
    OBVIOUS
  <1>3. /\ str \in Seq(S) /\ more \in Seq(S) /\ OneCopy(str, pin)
        /\ \A i \in 1..Len(more) : more[i].op # "copy" /\ more[i].op # "sample"
    BY <1>2 DEF Lined, Passes
  <1>4. PICK of : /\ Ordered(str, of, first, next)
                  /\ \A i \in 1..Len(str) : OpSupplied(str, pin, inp, i, of[i])
    BY DEF Lined
  <1>5. PICK on : /\ Ordered(h, on, first, next)
                  /\ \A i \in 1..Len(str) : on[i] = of[i]
                  /\ \A i \in 1..Len(more) : on[Len(str) + i] = next
    <2>1. NoSample(more)
      BY <1>3 DEF NoSample
    <2> QED
      BY <1>1, <1>3, <1>4, <2>1, OrderJoin
  <1>6. h \in Seq(S) /\ OneCopy(h, pin)
    <2>1. \A i \in 1..Len(more) : more[i].op # "copy"
      BY <1>3
    <2> QED
      BY <1>1, <1>3, <2>1, CopiesJoin, ConcatProperties
  <1>7. PICK k \in Nat : k = Len(str)
    BY <1>3
  <1>8. /\ \A c \in 1..Len(more) : h[k + c] = more[c]
        /\ Len(more) \in Nat /\ Len(h) = k + Len(more)
    BY <1>1, <1>3, <1>7
  <1>9. ASSUME NEW o, NEW i \in 1..(Len(more) + 1) PROVE Ahead(h, o, k + i) = Ahead(str, o, k + 1)
    <2>1. \A c \in 1..Len(more) : ~CopyAt(more, o, c)
      BY <1>3 DEF CopyAt
    <2> QED
      BY <1>1, <1>3, <1>7, <2>1, AheadPast
  <1>10. ASSUME NEW i \in 1..Len(more) PROVE OpSupplied(h, pin, inp, k + i, next)
    <2>1. PICK x : x = more[i]
      OBVIOUS
    <2>2. h[k + i] = x /\ x.op \in Passes /\ x.b[1] = next /\ x.op # "sample"
      BY <1>3, <1>8, <2>1
    <2>3. Supplied(str, pin, inp, x.inputs, k + 1, next, x.b[2])
      BY <1>7, <2>1 DEF AtEnd
    <2>4. i \in 1..(Len(more) + 1)
      BY <1>8
    <2>5. Supplied(h, pin, inp, x.inputs, k + i, next, x.b[2])
      BY <1>9, <2>3, <2>4, SameSupply
    <2> QED
      BY <2>2, <2>5 DEF OpSupplied
  <1>11. ASSUME NEW i \in 1..Len(h) PROVE OpSupplied(h, pin, inp, i, on[i])
    <2>1. CASE i \in 1..k
      <3>1. OpSupplied(str, pin, inp, i, on[i])
        BY <1>4, <1>5, <1>7, <2>1
      <3> QED
        BY <1>1, <1>3, <1>7, <2>1, <3>1, StaySupplied
    <2>2. CASE i \notin 1..k
      <3>1. i - k \in 1..Len(more) /\ k + (i - k) = i
        BY <1>8, <2>2
      <3>2. on[i] = next
        BY <1>5, <1>7, <3>1
      <3> QED
        BY <1>10, <3>1, <3>2
    <2> QED
      BY <2>1, <2>2
  <1>12. Lined(runner, h, pin, inp, first, next)
    BY <1>2, <1>5, <1>6, <1>11 DEF Lined
  <1>13. ASSUME NEW o, NEW s, NEW n, AtEnd(str, pin, inp, o, s, n) PROVE AtEnd(h, pin, inp, o, s, n)
    <2>1. k + (Len(more) + 1) = Len(h) + 1 /\ Len(more) + 1 \in 1..(Len(more) + 1)
      BY <1>8
    <2>2. Ahead(h, o, Len(h) + 1) = Ahead(str, o, Len(str) + 1)
      BY <1>7, <1>9, <2>1
    <2> QED
      BY <1>13, <2>2, SameSupply DEF AtEnd
  <1> QED
    BY <1>1, <1>12, <1>13

(* A sample is enqueued, for whose step the target's inputs are supplied.  *)
LEMMA PushSample ==
    ASSUME NEW runner, NEW str, NEW pin, NEW inp, NEW first, NEW next,
           Lined(runner, str, pin, inp, first, next), AtEnd(str, pin, inp, "target", next, 1)
    PROVE  Lined(runner, str \o <<[op |-> "sample"]>>, pin, inp, first, next + 1)
  <1>1. PICK x : x = [op |-> "sample"]
    OBVIOUS
  <1>2. PICK h : h = str \o <<x>>
    OBVIOUS
  <1>3. PICK S : S = Ops(runner)
    OBVIOUS
  <1>4. x \in S /\ x.op = "sample"
    BY <1>1, <1>3 DEF Ops, Sample
  <1>5. str \in Seq(S) /\ <<x>> \in Seq(S) /\ OneCopy(str, pin)
    BY <1>3, <1>4 DEF Lined
  <1>6. PICK of : /\ Ordered(str, of, first, next)
                  /\ \A i \in 1..Len(str) : OpSupplied(str, pin, inp, i, of[i])
    BY DEF Lined
  <1>7. PICK on : /\ Ordered(h, on, first, next + 1)
                  /\ \A i \in 1..Len(str) : on[i] = of[i]
                  /\ on[Len(str) + 1] = next
    BY <1>2, <1>4, <1>5, <1>6, OrderSample
  <1>8. \A c \in 1..Len(<<x>>) : <<x>>[c].op # "copy"
    BY <1>4
  <1>9. h \in Seq(S) /\ OneCopy(h, pin)
    <2>1. PICK one : one = <<x>>
      OBVIOUS
    <2>2. one \in Seq(S) /\ h = str \o one /\ \A c \in 1..Len(one) : one[c].op # "copy"
      BY <1>2, <1>5, <1>8, <2>1
    <2>3. OneCopy(h, pin)
      BY <1>5, <2>2, CopiesJoin
    <2> QED
      BY <1>5, <2>2, <2>3, ConcatProperties
  <1>10. PICK k \in Nat : k = Len(str)
    BY <1>5
  <1>11. h[k + 1] = x /\ Len(h) = k + 1
    BY <1>2, <1>5, <1>10
  <1>12. Supplied(h, pin, inp, "target", k + 1, next, 1)
    <2>1. k + 1 \in 1..(Len(str) + 1)
      BY <1>10
    <2>2. Ahead(h, "target", k + 1) = Ahead(str, "target", k + 1)
      BY <1>2, <1>5, <2>1, AheadJoin
    <2>3. Supplied(str, pin, inp, "target", k + 1, next, 1)
      BY <1>10 DEF AtEnd
    <2> QED
      BY <2>2, <2>3, SameSupply
  <1>13. OpSupplied(h, pin, inp, k + 1, on[k + 1])
    BY <1>4, <1>7, <1>10, <1>11, <1>12 DEF OpSupplied, Passes
  <1>14. ASSUME NEW i \in 1..k PROVE OpSupplied(h, pin, inp, i, on[i])
    <2>1. OpSupplied(str, pin, inp, i, on[i])
      BY <1>6, <1>7, <1>10
    <2> QED
      BY <1>2, <1>5, <1>10, <2>1, StaySupplied
  <1>15. \A i \in 1..Len(h) : i \in 1..k \/ i = k + 1
    BY <1>11
  <1>16. Lined(runner, h, pin, inp, first, next + 1)
    BY <1>3, <1>7, <1>9, <1>13, <1>14, <1>15 DEF Lined
  <1> QED
    BY <1>1, <1>2, <1>16

NoCopy(str, o) == \A c \in 1..Len(str) : ~CopyAt(str, o, c)

(* pin2 is pin with another buffer for o. *)
Refilled(pin, pin2, o) == \A p \in Owners : p # o => pin2[p] = pin[p]

(* A copy is enqueued for o, whose pinned buffer was just filled. No copy  *)
(* for o was waiting, so nothing in the stream will read that buffer.      *)
LEMMA PushCopy ==
    ASSUME NEW runner, NEW str, NEW pin, NEW inp, NEW first, NEW next,
           Lined(runner, str, pin, inp, first, next),
           NEW o \in Owners, NoCopy(str, o), NEW x \in Copy, x.owner = o,
           NEW pin2, Refilled(pin, pin2, o), NEW n \in Nat, x.n = n, n <= Len(pin2[o])
    PROVE  /\ Lined(runner, str \o <<x>>, pin2, inp, first, next)
           /\ \A s \in Nat : Begins(pin2[o], s, n) => AtEnd(str \o <<x>>, pin2, inp, o, s, n)
           /\ \A p, s, m : p \in Owners /\ p # o /\ AtEnd(str, pin, inp, p, s, m)
                 => AtEnd(str \o <<x>>, pin2, inp, p, s, m)
  <1>1. PICK one : one = <<x>>
    OBVIOUS
  <1>2. PICK h : h = str \o one
    OBVIOUS
  <1>3. PICK S : S = Ops(runner)
    OBVIOUS
  <1>4. x \in S /\ x.op = "copy" /\ x.op # "sample" /\ x.op \notin Passes /\ x.n \in Nat
    BY <1>3 DEF Ops, Copy, Passes
  <1>5. /\ str \in Seq(S) /\ one \in Seq(S) /\ OneCopy(str, pin)
        /\ Len(one) = 1 /\ one[1] = x
    BY <1>1, <1>3, <1>4 DEF Lined
  <1>6. PICK of : /\ Ordered(str, of, first, next)
                  /\ \A i \in 1..Len(str) : OpSupplied(str, pin, inp, i, of[i])
    BY DEF Lined
  <1>7. PICK on : /\ Ordered(h, on, first, next)
                  /\ \A i \in 1..Len(str) : on[i] = of[i]
                  /\ \A i \in 1..Len(one) : on[Len(str) + i] = next
    <2>1. NoSample(one)
      BY <1>4, <1>5 DEF NoSample
    <2>2. str \in Seq(S) /\ one \in Seq(S)
      BY <1>5
    <2>3. Ordered(str, of, first, next)
      BY <1>6
    <2> QED
      BY <1>2, <2>1, <2>2, <2>3, OrderJoin
  <1>8. PICK k \in Nat : k = Len(str)
    BY <1>5
  <1>9. /\ h \in Seq(S) /\ h[k + 1] = x /\ Len(h) = k + 1
        /\ \A i \in 1..k : h[i] = str[i]
    <2>0. str \in Seq(S) /\ one \in Seq(S)
      BY <1>5
    <2>1. /\ h \in Seq(S) /\ Len(h) = Len(str) + Len(one)
          /\ \A i \in 1..(Len(str) + Len(one)) : h[i] = IF i <= Len(str) THEN str[i] ELSE one[i - Len(str)]
      BY <1>2, <2>0, ConcatProperties
    <2>2. k + 1 \in 1..(k + 1) /\ ~(k + 1 <= k) /\ (k + 1) - k = 1
      OBVIOUS
    <2>3. \A i \in 1..k : i \in 1..(k + 1) /\ i <= k
      OBVIOUS
    <2> QED
      BY <1>5, <1>8, <2>1, <2>2, <2>3
  <1>10. \A i \in 1..Len(h) : i \in 1..k \/ i = k + 1
    BY <1>9
  <1>11. OneCopy(h, pin2)
    <2>1. \A i \in 1..Len(h) : CopyAt(h, o, i) => i = k + 1 /\ h[i].n <= Len(pin2[o])
      BY <1>8, <1>9, <1>10 DEF CopyAt, NoCopy
    <2>2. \A p \in Owners, i \in 1..Len(h) : p # o /\ CopyAt(h, p, i) => i \in 1..Len(str) /\ CopyAt(str, p, i) /\ h[i] = str[i]
      BY <1>8, <1>9, <1>10 DEF CopyAt
    <2>3. \A p \in Owners : p # o => \A i, j \in 1..Len(h) : CopyAt(h, p, i) /\ CopyAt(h, p, j) => i = j
      BY <1>5, <2>2 DEF OneCopy
    <2>4. \A p \in Owners : p # o => \A i \in 1..Len(h) : CopyAt(h, p, i) => h[i].n <= Len(pin2[p])
      BY <1>5, <2>2 DEF OneCopy, Refilled
    <2> QED
      BY <2>1, <2>3, <2>4 DEF OneCopy
  <1>12. \A i \in 1..(k + 1) : Ahead(str, o, i) = {}
    <2> SUFFICES ASSUME NEW i \in 1..(k + 1) PROVE Ahead(str, o, i) = {}
      OBVIOUS
    <2>1. \A c \in 1..(i - 1) : c \in 1..Len(str)
      BY <1>8
    <2> QED
      BY <2>1 DEF Ahead, NoCopy
  <1>13. \A i \in 1..(k + 1) : \A p, u, m : p \in Owners /\ Supplied(str, pin, inp, p, i, u, m)
              => Supplied(str, pin2, inp, p, i, u, m)
    BY <1>12 DEF Supplied, Refilled
  <1>14. ASSUME NEW i \in 1..k PROVE OpSupplied(h, pin2, inp, i, on[i])
    <2>1. OpSupplied(str, pin, inp, i, on[i])
      BY <1>6, <1>7, <1>8
    <2>2. str[i] \in S /\ i \in 1..(k + 1)
      BY <1>5, <1>8
    <2>3. str[i].op \in Passes => str[i].inputs \in Owners
      BY <1>3, <2>2 DEF Ops, Copy, Sample, PassOp, Passes
    <2>4. "target" \in Owners
      BY DEF Owners
    <2>5. OpSupplied(str, pin2, inp, i, on[i])
      BY <1>13, <2>1, <2>2, <2>3, <2>4 DEF OpSupplied
    <2> QED
      BY <1>2, <1>5, <1>8, <2>5, StaySupplied
  <1>15. OpSupplied(h, pin2, inp, k + 1, on[k + 1])
    BY <1>4, <1>9 DEF OpSupplied
  <1>16. Lined(runner, h, pin2, inp, first, next)
    BY <1>3, <1>7, <1>9, <1>10, <1>11, <1>14, <1>15 DEF Lined
  <1>17. ASSUME NEW s \in Nat, Begins(pin2[o], s, n) PROVE AtEnd(h, pin2, inp, o, s, n)
    <2>1. {c \in 1..((k + 2) - 1) : CopyAt(h, o, c)} = {k + 1}
      BY <1>8, <1>9, <1>10 DEF CopyAt, Copy, NoCopy
    <2>2. Ahead(h, o, k + 2) = {n}
      BY <1>9, <2>1 DEF Ahead
    <2>3. Supplied(h, pin2, inp, o, k + 2, s, n)
      <3>1. Ahead(h, o, k + 2) # {} /\ \A m \in Ahead(h, o, k + 2) : m >= n
        <4>1. PICK A : A = Ahead(h, o, k + 2)
          OBVIOUS
        <4>2. A = {n}
          BY <2>2, <4>1
        <4>3. A # {} /\ \A m \in A : m >= n
          BY <4>2
        <4> QED
          BY <4>1, <4>3
      <3> QED
        BY <1>17, <3>1 DEF Supplied
    <2>4. Len(h) + 1 = k + 2
      BY <1>9
    <2> QED
      BY <2>3, <2>4 DEF AtEnd
  <1>18. ASSUME NEW p \in Owners, p # o, NEW s, NEW m, AtEnd(str, pin, inp, p, s, m)
         PROVE  AtEnd(h, pin2, inp, p, s, m)
    <2>1. \A c \in 1..Len(one) : ~CopyAt(one, p, c)
      BY <1>5, <1>18 DEF CopyAt
    <2>2. 2 \in 1..(Len(one) + 1)
      BY <1>5
    <2>3. Ahead(h, p, k + 2) = Ahead(str, p, k + 1)
      BY <1>2, <1>5, <1>8, <2>1, <2>2, AheadPast
    <2>4. Supplied(str, pin2, inp, p, k + 1, s, m)
      BY <1>8, <1>13, <1>18 DEF AtEnd
    <2>5. Len(h) + 1 = k + 2
      BY <1>9
    <2> QED
      BY <2>3, <2>4, <2>5, SameSupply DEF AtEnd
  <1> QED
    BY <1>1, <1>2, <1>16, <1>17, <1>18

(* The copies left once the first operation has run.                       *)
LEMMA CopiesTail ==
    ASSUME NEW S, NEW str \in Seq(S), str # << >>, NEW pin, OneCopy(str, pin)
    PROVE  OneCopy(Tail(str), pin)
  <1>1. PICK h : h = Tail(str)
    OBVIOUS
  <1>2. \A i \in 1..Len(h) : i + 1 \in 1..Len(str) /\ h[i] = str[i + 1]
    BY <1>1
  <1>3. \A o, i : i \in 1..Len(h) /\ CopyAt(h, o, i) => CopyAt(str, o, i + 1)
    BY <1>2 DEF CopyAt
  <1>4. \A o \in Owners : \A i, j \in 1..Len(h) : CopyAt(h, o, i) /\ CopyAt(h, o, j) => i = j
    <2> SUFFICES ASSUME NEW o \in Owners, NEW i \in 1..Len(h), NEW j \in 1..Len(h),
                        CopyAt(h, o, i), CopyAt(h, o, j)
                 PROVE  i = j
      OBVIOUS
    <2>1. i + 1 = j + 1
      BY <1>2, <1>3 DEF OneCopy
    <2> QED
      BY <2>1
  <1>5. OneCopy(h, pin)
    BY <1>2, <1>3, <1>4 DEF OneCopy
  <1> QED
    BY <1>1, <1>5

(* An operation that is no copy runs.                                      *)
LEMMA Pop ==
    ASSUME NEW runner, NEW str, NEW pin, NEW inp, NEW first, NEW next,
           Lined(runner, str, pin, inp, first, next), str # << >>, Head(str).op # "copy"
    PROVE  /\ Lined(runner, Tail(str), pin, inp,
                    IF Head(str).op = "sample" THEN first + 1 ELSE first, next)
           /\ \A o, s, n : AtEnd(str, pin, inp, o, s, n) => AtEnd(Tail(str), pin, inp, o, s, n)
           /\ Head(str) \in Ops(runner) /\ first \in Nat
           /\ Head(str).op \in Passes =>
                Head(str).b[1] = first /\ Begins(inp[Head(str).inputs], first, Head(str).b[2])
           /\ Head(str).op = "sample" => Begins(inp["target"], first, 1)
  <1>1. PICK h : h = Tail(str)
    OBVIOUS
  <1>2. PICK S : S = Ops(runner)
    OBVIOUS
  <1>3. PICK x : x = Head(str)
    OBVIOUS
  <1>4. str \in Seq(S) /\ OneCopy(str, pin)
    BY <1>2 DEF Lined
  <1>5. PICK of : /\ Ordered(str, of, first, next)
                  /\ \A i \in 1..Len(str) : OpSupplied(str, pin, inp, i, of[i])
    BY DEF Lined
  <1>6. PICK on : /\ Ordered(h, on, IF x.op = "sample" THEN first + 1 ELSE first, next)
                  /\ \A i \in 1..Len(h) : on[i] = of[i + 1]
    BY <1>1, <1>3, <1>4, <1>5, OrderTail
  <1>7. /\ h \in Seq(S) /\ x \in S /\ x = str[1] /\ Len(str) \in Nat
        /\ Len(str) >= 1 /\ Len(str) = Len(h) + 1
        /\ \A i \in 1..Len(h) : h[i] = str[i + 1]
    BY <1>1, <1>3, <1>4
  <1>8. OneCopy(h, pin)
    BY <1>1, <1>4, CopiesTail
  <1>9. ASSUME NEW o, NEW i \in 1..Len(str) PROVE Ahead(h, o, i) = Ahead(str, o, i + 1)
    <2>1. ~CopyAt(str, o, 1)
      BY <1>3, <1>7 DEF CopyAt
    <2> QED
      BY <1>1, <1>4, <2>1, AheadTail
  <1>10. ASSUME NEW i \in 1..Len(h) PROVE OpSupplied(h, pin, inp, i, on[i])
    <2>1. i + 1 \in 1..Len(str) /\ i \in 1..Len(str)
      BY <1>7
    <2>2. OpSupplied(str, pin, inp, i + 1, on[i]) /\ h[i] = str[i + 1]
      BY <1>5, <1>6, <1>7, <2>1
    <2>3. \A o, s, n : Supplied(str, pin, inp, o, i + 1, s, n) => Supplied(h, pin, inp, o, i, s, n)
      BY <1>9, <2>1 DEF Supplied
    <2> QED
      BY <2>2, <2>3 DEF OpSupplied
  <1>11. Lined(runner, h, pin, inp, IF x.op = "sample" THEN first + 1 ELSE first, next)
    BY <1>2, <1>6, <1>7, <1>8, <1>10 DEF Lined
  <1>12. ASSUME NEW o, NEW s, NEW n, AtEnd(str, pin, inp, o, s, n) PROVE AtEnd(h, pin, inp, o, s, n)
    <2>1. Len(str) \in 1..Len(str) /\ Len(h) + 1 = Len(str)
      BY <1>7
    <2>2. Ahead(h, o, Len(h) + 1) = Ahead(str, o, Len(str) + 1)
      BY <1>9, <2>1
    <2> QED
      BY <1>12, <2>2, SameSupply DEF AtEnd
  <1>13. OpSupplied(str, pin, inp, 1, first) /\ first \in Nat
    <2>1. 1 \in 1..Len(str) /\ 1 \in 1..(Len(str) + 1)
      BY <1>7
    <2> QED
      BY <1>5, <2>1 DEF Ordered
  <1>14. \A o : Ahead(str, o, 1) = {}
    BY DEF Ahead
  <1>15. /\ x.op \in Passes => x.b[1] = first /\ Begins(inp[x.inputs], first, x.b[2])
         /\ x.op = "sample" => Begins(inp["target"], first, 1)
    BY <1>7, <1>13, <1>14 DEF OpSupplied, Supplied
  <1> QED
    BY <1>1, <1>2, <1>3, <1>7, <1>11, <1>12, <1>13, <1>15

(* A copy for o runs: it stages the n entries that the pinned buffer has.  *)
(* It was the only one for o, so all that is to come reads what it staged. *)
LEMMA PopCopy ==
    ASSUME NEW runner, NEW str, NEW pin, NEW inp, NEW first, NEW next,
           Lined(runner, str, pin, inp, first, next), str # << >>, Head(str).op = "copy",
           NEW inp2, \A p \in Owners : p # Head(str).owner => inp2[p] = inp[p],
           \A s \in Nat, n \in Nat : n <= Head(str).n /\ Begins(pin[Head(str).owner], s, n)
              => Begins(inp2[Head(str).owner], s, n)
    PROVE  /\ Lined(runner, Tail(str), pin, inp2, first, next)
           /\ \A o \in Owners, s \in Nat, n \in Nat :
                 AtEnd(str, pin, inp, o, s, n) => AtEnd(Tail(str), pin, inp2, o, s, n)
  <1>1. PICK h : h = Tail(str)
    OBVIOUS
  <1>2. PICK S : S = Ops(runner)
    OBVIOUS
  <1>3. PICK x : x = Head(str)
    OBVIOUS
  <1>4. PICK o : o = x.owner
    OBVIOUS
  <1>5. str \in Seq(S) /\ OneCopy(str, pin)
    BY <1>2 DEF Lined
  <1>6. PICK of : /\ Ordered(str, of, first, next)
                  /\ \A i \in 1..Len(str) : OpSupplied(str, pin, inp, i, of[i])
    BY DEF Lined
  <1>7. PICK on : /\ Ordered(h, on, IF x.op = "sample" THEN first + 1 ELSE first, next)
                  /\ \A i \in 1..Len(h) : on[i] = of[i + 1]
    BY <1>1, <1>3, <1>5, <1>6, OrderTail
  <1>8. Ordered(h, on, first, next)
    BY <1>3, <1>7
  <1>9. /\ h \in Seq(S) /\ x \in S /\ x = str[1] /\ Len(str) \in Nat
        /\ Len(str) >= 1 /\ Len(str) = Len(h) + 1
        /\ \A i \in 1..Len(h) : h[i] = str[i + 1]
    BY <1>1, <1>3, <1>5
  <1>10. x \in Copy /\ x.owner \in Owners /\ x.n \in Nat
    BY <1>2, <1>3, <1>9 DEF Ops, Copy, Sample, PassOp, Passes
  <1>11. OneCopy(h, pin)
    BY <1>1, <1>5, CopiesTail
  <1>12. CopyAt(str, o, 1) /\ \A p : p # o => ~CopyAt(str, p, 1)
    BY <1>3, <1>4, <1>9 DEF CopyAt
  <1>13. \A c \in 1..Len(h) : ~CopyAt(h, o, c)
    <2> SUFFICES ASSUME NEW c \in 1..Len(h), CopyAt(h, o, c) PROVE FALSE
      OBVIOUS
    <2>1. c + 1 \in 1..Len(str) /\ 1 \in 1..Len(str) /\ c + 1 # 1
      BY <1>9
    <2>2. CopyAt(str, o, c + 1)
      BY <1>9 DEF CopyAt
    <2> QED
      BY <1>4, <1>5, <1>10, <1>12, <2>1, <2>2 DEF OneCopy
  <1>14. ASSUME NEW p \in Owners, NEW i \in 1..Len(str), NEW s \in Nat, NEW n \in Nat,
                Supplied(str, pin, inp, p, i + 1, s, n)
         PROVE  Supplied(h, pin, inp2, p, i, s, n)
    <2>1. CASE p = o
      <3>1. Ahead(h, o, i) = {}
        <4>1. \A c \in 1..(i - 1) : c \in 1..Len(h)
          BY <1>9
        <4> QED
          BY <1>13, <4>1 DEF Ahead
      <3>2. x.n \in Ahead(str, o, i + 1)
        <4>1. Ahead(str, o, i + 1) = Ahead(h, o, i) \cup {str[1].n}
          BY <1>1, <1>5, <1>12, AheadTail
        <4> QED
          BY <1>9, <4>1
      <3>3. Begins(pin[o], s, n) /\ n <= x.n
        BY <1>10, <1>14, <2>1, <3>2 DEF Supplied
      <3>4. Begins(inp2[o], s, n)
        BY <1>3, <1>4, <3>3
      <3> QED
        BY <2>1, <3>1, <3>4 DEF Supplied
    <2>2. CASE p # o
      <3>1. Ahead(h, p, i) = Ahead(str, p, i + 1)
        BY <1>1, <1>5, <1>12, <2>2, AheadTail
      <3>2. inp2[p] = inp[p]
        BY <1>3, <1>4, <2>2
      <3> QED
        BY <1>14, <3>1, <3>2 DEF Supplied
    <2> QED
      BY <2>1, <2>2
  <1>15. ASSUME NEW i \in 1..Len(h) PROVE OpSupplied(h, pin, inp2, i, on[i])
    <2>1. i + 1 \in 1..Len(str) /\ i \in 1..Len(str) /\ i \in 1..(Len(h) + 1)
      BY <1>9
    <2>2. OpSupplied(str, pin, inp, i + 1, on[i]) /\ h[i] = str[i + 1] /\ h[i] \in S
      BY <1>6, <1>7, <1>9, <2>1
    <2>3. on[i] \in Nat /\ 1 \in Nat /\ "target" \in Owners
      BY <1>8, <2>1 DEF Ordered, Owners
    <2>4. h[i].op \in Passes => h[i].inputs \in Owners /\ h[i].b[2] \in Nat
      BY <1>2, <2>2 DEF Ops, Copy, Sample, PassOp, Passes
    <2> QED
      BY <1>14, <2>1, <2>2, <2>3, <2>4 DEF OpSupplied
  <1>16. Lined(runner, h, pin, inp2, first, next)
    BY <1>2, <1>8, <1>9, <1>11, <1>15 DEF Lined
  <1>17. ASSUME NEW p \in Owners, NEW s \in Nat, NEW n \in Nat, AtEnd(str, pin, inp, p, s, n)
         PROVE  AtEnd(h, pin, inp2, p, s, n)
    <2>1. Len(str) \in 1..Len(str) /\ Len(h) + 1 = Len(str)
      BY <1>9
    <2> QED
      BY <1>14, <1>17, <2>1 DEF AtEnd
  <1> QED
    BY <1>1, <1>16, <1>17

-----------------------------------------------------------------------------
(* The tokens of a step. *)
Own(s, n) == [j \in 1..n |-> <<s, j>>]

(* They are a buffer of n entries. *)
LEMMA OwnIsBuffer ==
    ASSUME NEW s \in Nat, NEW n \in Nat
    PROVE  Own(s, n) \in Buffer /\ Len(Own(s, n)) = n /\ DOMAIN Own(s, n) = 1..n
  <1>1. PICK v : v = Own(s, n)
    OBVIOUS
  <1>2. v \in [1..n -> Value]
    BY <1>1 DEF Own, Value
  <1>3. v \in Seq(Value) /\ Len(v) = n /\ DOMAIN v = 1..n
    BY <1>2
  <1> QED
    BY <1>1, <1>3 DEF Buffer

(* buffer[:n] = values *)
LEMMA OverlayHead ==
    ASSUME NEW buffer \in Buffer, NEW values \in Buffer, Len(values) <= Len(buffer)
    PROVE  /\ Overlay(buffer, values) \in Buffer
           /\ Len(Overlay(buffer, values)) = Len(buffer)
           /\ \A j \in 1..Len(values) : Overlay(buffer, values)[j] = values[j]
  <1>1. PICK v : v = Overlay(buffer, values)
    OBVIOUS
  <1>2. /\ Len(buffer) \in Nat /\ DOMAIN buffer = 1..Len(buffer)
        /\ Len(values) \in Nat /\ DOMAIN values = 1..Len(values)
        /\ \A j \in 1..Len(buffer) : buffer[j] \in Value
        /\ \A j \in 1..Len(values) : values[j] \in Value
    BY DEF Buffer
  <1>3. v \in [1..Len(buffer) -> Value] /\ \A j \in 1..Len(values) : v[j] = values[j]
    BY <1>1, <1>2 DEF Overlay
  <1>4. v \in Seq(Value) /\ Len(v) = Len(buffer)
    BY <1>2, <1>3
  <1> QED
    BY <1>1, <1>3, <1>4 DEF Buffer

(* put: the pinned buffer begins with the values and is long enough.       *)
LEMMA PutFills ==
    ASSUME pinned \in [Owners -> Buffer], NEW o \in Owners, NEW s \in Nat, NEW n \in Nat,
           Put(o, Own(s, n))
    PROVE  /\ pinned' \in [Owners -> Buffer]
           /\ \A p \in Owners : p # o => pinned'[p] = pinned[p]
           /\ Begins(pinned'[o], s, n)
  <1>1. PICK values : values = Own(s, n)
    OBVIOUS
  <1>2. values \in Buffer /\ Len(values) = n /\ \A j \in 1..n : values[j] = <<s, j>>
    BY <1>1, OwnIsBuffer DEF Own
  <1>3. PICK old : old = pinned[o]
    OBVIOUS
  <1>4. old \in Buffer /\ Len(old) \in Nat
    BY <1>3 DEF Buffer
  <1>5. PICK capacity : capacity = Max({n, 2 * Len(old), MinCapacity})
    OBVIOUS
  <1>6. capacity \in Nat /\ n <= capacity
    <2>1. PICK T : T = {n, 2 * Len(old), MinCapacity}
      OBVIOUS
    <2>2. T \in SUBSET Nat /\ n \in T /\ T # {}
      BY <1>4, <2>1, StreamAssumption
    <2>3. IsFiniteSet(T)
      <3>1. IsFiniteSet({MinCapacity}) /\ T = ({MinCapacity} \cup {2 * Len(old)}) \cup {n}
        BY <2>1, FS_Singleton
      <3>2. IsFiniteSet({MinCapacity} \cup {2 * Len(old)})
        BY <3>1, FS_AddElement
      <3> QED
        BY <3>1, <3>2, FS_AddElement
    <2>4. Max(T) \in T /\ \A y \in T : y <= Max(T)
      BY <2>2, <2>3, FiniteMax
    <2> QED
      BY <1>5, <2>1, <2>2, <2>4
  <1>7. PICK fresh : fresh = [j \in 1..capacity |-> Cleared]
    OBVIOUS
  <1>8. fresh \in Buffer /\ Len(fresh) = capacity
    <2>1. fresh \in [1..capacity -> Value]
      BY <1>7 DEF Value, Cleared
    <2> QED
      BY <1>6, <2>1 DEF Buffer
  <1>9. PICK buffer : buffer = IF Len(old) >= n THEN old ELSE fresh
    OBVIOUS
  <1>10. buffer \in Buffer /\ n <= Len(buffer)
    BY <1>4, <1>6, <1>8, <1>9
  <1>11. pinned' = [pinned EXCEPT ![o] = Overlay(buffer, values)]
    BY <1>1, <1>2, <1>3, <1>5, <1>7, <1>9 DEF Put
  <1>12. PICK new : new = Overlay(buffer, values)
    OBVIOUS
  <1>13. new \in Buffer /\ Len(new) = Len(buffer) /\ \A j \in 1..n : new[j] = values[j]
    BY <1>2, <1>10, <1>12, OverlayHead
  <1>14. Begins(new, s, n)
    BY <1>2, <1>10, <1>13 DEF Begins
  <1> QED
    BY <1>11, <1>12, <1>13, <1>14

(* What a pass over step s reads of a buffer that begins with it.          *)
LEMMA InputsAreOwn ==
    ASSUME NEW buffer \in Buffer, NEW s \in Nat, NEW n \in Nat, Begins(buffer, s, n)
    PROVE  SubSeq(buffer, 1, n) = Own(s, n)
  <1>1. Len(buffer) \in Nat /\ n <= Len(buffer)
    BY DEF Buffer, Begins
  <1>2. PICK v : v = SubSeq(buffer, 1, n)
    OBVIOUS
  <1>3. v \in Seq(Value) /\ Len(v) = n /\ \A j \in 1..n : v[j] = buffer[j]
    BY <1>1, <1>2 DEF Buffer
  <1>4. DOMAIN v = 1..n /\ v = [j \in 1..n |-> v[j]]
    BY <1>3
  <1>5. \A j \in 1..n : v[j] = <<s, j>>
    BY <1>3 DEF Begins
  <1> QED
    BY <1>2, <1>4, <1>5 DEF Own

-----------------------------------------------------------------------------
(* The sizes of graphs.                                                    *)
LEMMA CaptureSizesFinite ==
    ASSUME NEW m \in Nat \ {0}, NEW budget \in Nat \ {0}
    PROVE  CaptureSizes(m, budget) \in SUBSET (Nat \ {0}) /\ IsFiniteSet(CaptureSizes(m, budget))
  <1>1. PICK top : top = Min({m * 2, 512, budget})
    OBVIOUS
  <1>2. top \in Nat
    <2>1. m * 2 \in Nat
      OBVIOUS
    <2>2. {m * 2, 512, budget} \in SUBSET Nat /\ {m * 2, 512, budget} # {}
      BY <2>1
    <2> QED
      BY <1>1, <2>2, LeastMember
  <1>3. PICK cap : cap = Min({top, 255})
    OBVIOUS
  <1>4. cap \in Nat /\ cap <= top
    <2>1. {top, 255} \in SUBSET Nat /\ top \in {top, 255}
      BY <1>2
    <2> QED
      BY <1>3, <2>1, LeastMember
  <1>5. CaptureSizes(m, budget) = {size \in {1, 2, 4} : size <= top}
            \cup {size \in 8..cap : size % 8 = 0} \cup {size \in 256..top : size % 16 = 0}
            \cup (IF budget <= top THEN {budget} ELSE {})
    BY <1>1, <1>3 DEF CaptureSizes
  <1>6. CaptureSizes(m, budget) \subseteq 1..top
    BY <1>2, <1>4, <1>5
  <1>7. IsFiniteSet(1..top)
    BY <1>2, FS_Interval
  <1> QED
    BY <1>2, <1>6, <1>7, FS_Subset

Sizes(T) == T \in SUBSET (Nat \ {0}) /\ IsFiniteSet(T)

(* The sizes a runner captures are finitely many, and not 0. *)
LEMMA RunnerSizes ==
    ASSUME NEW runner \in Runners
    PROVE  /\ Sizes(runner.graph_bs) /\ Sizes(runner.draft_bs) /\ Sizes(runner.piecewise_bs)
           /\ runner.graph_query_len \in Nat \ {0}
           /\ runner.config \in Setups /\ runner.graph_query_len = 1 + runner.config.k
  <1>1. PICK c \in Setups : runner = Runner(c)
    BY DEF Runners
  <1>2. /\ c.max_num_seqs \in Nat \ {0} /\ c.budget \in Nat \ {0} /\ c.k \in Nat
    BY StreamAssumption
  <1>3. PICK all : all = CaptureSizes(c.max_num_seqs, c.budget)
    OBVIOUS
  <1>4. Sizes(all) /\ Sizes({})
    BY <1>2, <1>3, CaptureSizesFinite, FS_EmptySet DEF Sizes
  <1>5. \A T : T \subseteq all => Sizes(T)
    BY <1>4, FS_Subset DEF Sizes
  <1>6. DecodeGraphSizes(c) \subseteq all /\ GraphSizes(c) \subseteq all
    BY <1>3 DEF DecodeGraphSizes, GraphSizes
  <1>7. /\ runner.graph_bs = GraphSizes(c) \/ runner.graph_bs = {}
        /\ runner.draft_bs = DecodeGraphSizes(c) \/ runner.draft_bs = {}
        /\ runner.piecewise_bs = all \/ runner.piecewise_bs = {}
        /\ runner.graph_query_len = 1 + c.k /\ runner.config = c
    BY <1>1, <1>3 DEF Runner
  <1> QED
    BY <1>2, <1>4, <1>5, <1>6, <1>7

Top(T) == Max(T \cup {0})

(* The largest size bounds the others. *)
LEMMA TopBounds ==
    ASSUME NEW T, Sizes(T)
    PROVE  /\ Top(T) \in Nat /\ \A size \in T : size <= Top(T)
           /\ T # {} => Max(T) \in T /\ \A size \in T : size <= Max(T)
  <1>1. T \cup {0} \in SUBSET Nat /\ T \in SUBSET Nat
    BY DEF Sizes
  <1>2. IsFiniteSet(T \cup {0})
    BY FS_AddElement DEF Sizes
  <1>3. Max(T \cup {0}) \in T \cup {0} /\ \A y \in T \cup {0} : y <= Max(T \cup {0})
    BY <1>1, <1>2, FiniteMax
  <1>4. T # {} => Max(T) \in T /\ \A y \in T : y <= Max(T)
    BY <1>1, FiniteMax DEF Sizes
  <1> QED
    BY <1>1, <1>3, <1>4 DEF Top

(* The first size that holds n.                                            *)
LEMMA FittingFits ==
    ASSUME NEW T, Sizes(T), NEW n \in Nat
    PROVE  /\ Fitting(T, n) # 0 => \E size \in T : n <= size
           /\ (\E size \in T : n <= size) => Fitting(T, n) \in T /\ n <= Fitting(T, n)
  <1>1. PICK U : U = {size \in T : size >= n}
    OBVIOUS
  <1>2. T \in SUBSET (Nat \ {0})
    BY DEF Sizes
  <1>3. CASE \E size \in T : n <= size
    <2>1. ~\A size \in T : size < n
      BY <1>2, <1>3
    <2>2. Fitting(T, n) = Min(U)
      <3>1. U \cup {} = U
        OBVIOUS
      <3> QED
        BY <1>1, <2>1, <3>1 DEF Fitting
    <2>3. U \in SUBSET Nat /\ U # {}
      BY <1>1, <1>2, <1>3
    <2>4. Min(U) \in U
      BY <2>3, LeastMember
    <2> QED
      BY <1>1, <1>2, <1>3, <2>2, <2>4
  <1>4. CASE ~\E size \in T : n <= size
    <2>1. (\A size \in T : size < n) /\ U = {}
      <3>1. ASSUME NEW size \in T PROVE size < n /\ ~(size >= n)
        <4>1. size \in Nat /\ ~(n <= size)
          BY <1>2, <1>4
        <4> QED
          BY <4>1
      <3> QED
        BY <1>1, <3>1
    <2>2. Fitting(T, n) = Min({0})
      <3>1. {} \cup {0} = {0}
        OBVIOUS
      <3> QED
        BY <1>1, <2>1, <3>1 DEF Fitting
    <2>3. Min({0}) \in {0}
      BY LeastMember
    <2> QED
      BY <1>4, <2>2, <2>3
  <1> QED
    BY <1>3, <1>4

-----------------------------------------------------------------------------
(* Passes.                                                                 *)
LEMMA RowStarts ==
    ASSUME NEW q \in Nat \ {0}, NEW rows \in Nat, NEW n, n = rows * q
    PROVE  /\ n \in Nat /\ n \div q = rows
           /\ \A row \in 1..rows : (row - 1) * q + 1 \in 1..n
  <1>1. n \in Nat
    OBVIOUS
  <1>2. n \div q = rows
    OBVIOUS
  <1>3. ASSUME NEW row \in 1..rows PROVE (row - 1) * q + 1 \in 1..n
    <2>1. PICK d \in Nat : row + d = rows
      <3>1. rows - row \in Nat /\ row + (rows - row) = rows
        OBVIOUS
      <3> QED
        BY <3>1
    <2>2. PICK e \in Nat : row = e + 1
      <3>1. row - 1 \in Nat /\ row = (row - 1) + 1
        OBVIOUS
      <3> QED
        BY <3>1
    <2>3. n = e * q + q + d * q /\ e * q \in Nat /\ d * q \in Nat
      BY <2>1, <2>2
    <2>4. (row - 1) * q + 1 = e * q + 1
      BY <2>2
    <2> QED
      BY <2>3, <2>4
  <1> QED
    BY <1>1, <1>2, <1>3

(* Fewer rows are fewer tokens. *)
LEMMA Products ==
    ASSUME NEW a \in Nat, NEW b \in Nat, NEW q \in Nat, a <= b
    PROVE  a * q <= b * q /\ a * q \in Nat /\ b * q \in Nat
  <1>1. PICK d \in Nat : b = a + d
    <2>1. b - a \in Nat /\ b = a + (b - a)
      OBVIOUS
    <2> QED
      BY <2>1
  <1>2. b * q = a * q + d * q /\ d * q \in Nat /\ a * q \in Nat
    BY <1>1
  <1> QED
    BY <1>2

Firsts(firsts, rows) == DOMAIN firsts = 1..rows /\ \A row \in 1..rows : firsts[row] # None

(* The rows' first tokens.                                                 *)
LEMMA FirstsAreOwn ==
    ASSUME NEW s \in Nat, NEW q \in Nat \ {0}, NEW rows \in Nat, NEW n, n = rows * q
    PROVE  Firsts(FirstOf(Own(s, n), q), rows)
  <1>1. /\ n \in Nat /\ n \div q = rows
        /\ \A row \in 1..rows : (row - 1) * q + 1 \in 1..n
    BY RowStarts
  <1>2. PICK own : own = Own(s, n)
    OBVIOUS
  <1>3. Len(own) = n /\ \A j \in 1..n : own[j] = <<s, j>> /\ own[j] # None
    <2>1. \A j \in 1..n : <<s, j>> # <<-1, 0>>
      OBVIOUS
    <2> QED
      BY <1>1, <1>2, <2>1, OwnIsBuffer DEF Own, None
  <1>4. PICK firsts : firsts = FirstOf(own, q)
    OBVIOUS
  <1>5. DOMAIN firsts = 1..rows /\ \A row \in 1..rows : firsts[row] = own[(row - 1) * q + 1]
    BY <1>1, <1>3, <1>4 DEF FirstOf
  <1>6. \A row \in 1..rows : firsts[row] # None
    BY <1>1, <1>3, <1>5
  <1> QED
    BY <1>2, <1>4, <1>5, <1>6 DEF Firsts

(* What a pass of step s may do. *)
Writes(s, n) == {<<Own(s, n)[j], Own(s, n)[j]>> : j \in 1..n}
Attends(s, n, q) ==
    LET firsts == FirstOf(Own(s, n), q)
    IN  {<<row, firsts[row], firsts[row]>> : row \in DOMAIN firsts}

GraphShape(g, rows, q) ==
    /\ DOMAIN g.ids = 1..(rows * q) /\ DOMAIN g.slots = 1..(rows * q)
    /\ DOMAIN g.lens = 1..rows /\ DOMAIN g.tables = 1..rows

(* Its buffers hold the step's values, and no slot and no keys past them.  *)
Loaded(g, own, firsts, n, rows, tokens, size) ==
    /\ \A j \in 1..n : g.slots[j] = own[j] /\ g.ids[j] = own[j]
    /\ \A j \in 1..tokens : j \notin 1..n => g.slots[j] = None
    /\ \A row \in 1..rows : g.lens[row] = firsts[row] /\ g.tables[row] = firsts[row]
    /\ \A row \in 1..size : row \notin 1..rows => g.lens[row] = None

(* A pass over loaded buffers writes and attends the step alone. *)
LEMMA PassIsOwn ==
    ASSUME NEW s \in Nat, NEW q \in Nat \ {0}, NEW rows \in Nat, NEW n, n = rows * q,
           NEW g, NEW tokens \in Nat, NEW size \in Nat, n <= tokens, rows <= size,
           Loaded(g, Own(s, n), FirstOf(Own(s, n), q), n, rows, tokens, size)
    PROVE  /\ Pass(g, tokens, size).writes = Writes(s, n)
           /\ Pass(g, tokens, size).attends = Attends(s, n, q)
  <1>1. n \in Nat
    BY RowStarts
  <1>2. PICK own : own = Own(s, n)
    OBVIOUS
  <1>3. \A j \in 1..n : own[j] # None
    <2>1. \A j \in 1..n : <<s, j>> # <<-1, 0>>
      OBVIOUS
    <2> QED
      BY <1>2, <2>1 DEF Own, None
  <1>4. PICK firsts : firsts = FirstOf(own, q)
    OBVIOUS
  <1>5. DOMAIN firsts = 1..rows /\ \A row \in 1..rows : firsts[row] # None
    <2>1. Firsts(firsts, rows)
      BY <1>2, <1>4, FirstsAreOwn
    <2> QED
      BY <2>1 DEF Firsts
  <1>6. {j \in 1..tokens : g.slots[j] # None} = 1..n
    BY <1>1, <1>2, <1>3 DEF Loaded
  <1>7. {row \in 1..size : g.lens[row] # None} = 1..rows
    BY <1>2, <1>4, <1>5 DEF Loaded
  <1>8. Pass(g, tokens, size).writes = {<<g.slots[j], g.ids[j]>> : j \in 1..n}
    BY <1>6 DEF Pass
  <1>9. Pass(g, tokens, size).attends = {<<row, g.lens[row], g.tables[row]>> : row \in 1..rows}
    BY <1>7 DEF Pass
  <1>10. {<<g.slots[j], g.ids[j]>> : j \in 1..n} = {<<own[j], own[j]>> : j \in 1..n}
    <2>1. \A j \in 1..n : <<g.slots[j], g.ids[j]>> = <<own[j], own[j]>>
      BY <1>2 DEF Loaded
    <2> QED
      BY <2>1
  <1>11. {<<row, g.lens[row], g.tables[row]>> : row \in 1..rows} = {<<row, firsts[row], firsts[row]>> : row \in 1..rows}
    <2>1. \A row \in 1..rows : <<row, g.lens[row], g.tables[row]>> = <<row, firsts[row], firsts[row]>>
      BY <1>2, <1>4 DEF Loaded
    <2> QED
      BY <2>1
  <1>12. Writes(s, n) = {<<own[j], own[j]>> : j \in 1..n}
    BY <1>2 DEF Writes
  <1>13. Attends(s, n, q) = {<<row, firsts[row], firsts[row]>> : row \in 1..rows}
    BY <1>2, <1>4, <1>5 DEF Attends
  <1> QED
    BY <1>8, <1>9, <1>10, <1>11, <1>12, <1>13

(* The same, its hypotheses and its conclusion as predicates.              *)
PassCall(g, s, n, q, rows, tokens, size) ==
    /\ s \in Nat /\ q \in Nat \ {0} /\ rows \in Nat /\ n = rows * q
    /\ tokens \in Nat /\ size \in Nat /\ n <= tokens /\ rows <= size
    /\ Loaded(g, Own(s, n), FirstOf(Own(s, n), q), n, rows, tokens, size)

PassOwn(g, s, n, q, tokens, size) ==
    /\ Pass(g, tokens, size).writes = Writes(s, n)
    /\ Pass(g, tokens, size).attends = Attends(s, n, q)

(* PassIsOwn, in these terms. *)
LEMMA PassCallIsOwn ==
    ASSUME NEW g, NEW s, NEW n, NEW q, NEW rows, NEW tokens, NEW size,
           PassCall(g, s, n, q, rows, tokens, size)
    PROVE  PassOwn(g, s, n, q, tokens, size)
  <1>1. /\ s \in Nat /\ q \in Nat \ {0} /\ rows \in Nat /\ n = rows * q
        /\ tokens \in Nat /\ size \in Nat /\ n <= tokens /\ rows <= size
        /\ Loaded(g, Own(s, n), FirstOf(Own(s, n), q), n, rows, tokens, size)
    BY DEF PassCall
  <1> QED
    BY ONLY <1>1, PassIsOwn DEF PassOwn

(* A captured graph, over more rows than the step has: what earlier steps  *)
(* left in its buffers is neither written to a slot nor attended to.       *)
LEMMA GraphPassIsOwn ==
    ASSUME NEW s \in Nat, NEW q \in Nat \ {0}, NEW rows \in Nat, NEW n, n = rows * q,
           NEW size \in Nat, rows <= size, NEW top \in Nat, size <= top,
           NEW g0, GraphShape(g0, top, q)
    PROVE  LET g == GraphInputs(g0, Own(s, n), q)
           IN  /\ GraphShape(g, top, q)
               /\ Pass(g, size * q, size).writes = Writes(s, n)
               /\ Pass(g, size * q, size).attends = Attends(s, n, q)
  <1>1. PICK g : g = GraphInputs(g0, Own(s, n), q)
    OBVIOUS
  <1>2. PICK own : own = Own(s, n)
    OBVIOUS
  <1>3. PICK firsts : firsts = FirstOf(own, q)
    OBVIOUS
  <1>4. n \in Nat /\ n <= size * q /\ size * q \in Nat /\ size * q <= top * q /\ top * q \in Nat
    BY Products
  <1>5. DOMAIN own = 1..n /\ DOMAIN firsts = 1..rows
    <2>1. Firsts(firsts, rows)
      BY <1>2, <1>3, FirstsAreOwn
    <2> QED
      BY <1>2, <1>4, <2>1, OwnIsBuffer DEF Firsts
  <1>6. /\ g.ids = Overlay(g0.ids, own) /\ g.slots = Overlay(Filled(g0.slots, None), own)
        /\ g.lens = Overlay(Filled(g0.lens, None), firsts) /\ g.tables = Overlay(g0.tables, firsts)
    BY <1>1, <1>2, <1>3 DEF GraphInputs
  <1>7. GraphShape(g, top, q)
    BY <1>6 DEF GraphShape, Overlay, Filled
  <1>8. \A j \in 1..n : j \in 1..(top * q) /\ g.slots[j] = own[j] /\ g.ids[j] = own[j]
    <2>1. \A j \in 1..n : j \in 1..(top * q)
      BY <1>4
    <2> QED
      BY <1>5, <1>6, <2>1 DEF GraphShape, Overlay, Filled
  <1>9. \A j \in 1..(size * q) : j \notin 1..n => g.slots[j] = None
    <2>1. \A j \in 1..(size * q) : j \in 1..(top * q)
      BY <1>4
    <2> QED
      BY <1>5, <1>6, <2>1 DEF GraphShape, Overlay, Filled
  <1>10. \A row \in 1..rows : g.lens[row] = firsts[row] /\ g.tables[row] = firsts[row]
    <2>1. \A row \in 1..rows : row \in 1..top
      OBVIOUS
    <2> QED
      BY <1>5, <1>6, <2>1 DEF GraphShape, Overlay, Filled
  <1>11. \A row \in 1..size : row \notin 1..rows => g.lens[row] = None
    <2>1. \A row \in 1..size : row \in 1..top
      OBVIOUS
    <2> QED
      BY <1>5, <1>6, <2>1 DEF GraphShape, Overlay, Filled
  <1>12. PICK tokens \in Nat : tokens = size * q
    BY <1>4
  <1>13. Pass(g, tokens, size).writes = Writes(s, n) /\ Pass(g, tokens, size).attends = Attends(s, n, q)
    <2>1. Loaded(g, own, firsts, n, rows, tokens, size)
      BY <1>8, <1>9, <1>10, <1>11, <1>12 DEF Loaded
    <2>2. PassCall(g, s, n, q, rows, tokens, size)
      BY <1>2, <1>3, <1>4, <1>12, <2>1 DEF PassCall
    <2>3. PassOwn(g, s, n, q, tokens, size)
      BY <2>2, PassCallIsOwn
    <2> QED
      BY <2>3 DEF PassOwn
  <1> QED
    BY <1>1, <1>7, <1>12, <1>13

(* The graph's call and its result, as the two predicates the runs cite.   *)
GraphCall(g0, s, n, q, rows, size, top) ==
    /\ s \in Nat /\ q \in Nat \ {0} /\ rows \in Nat /\ n = rows * q
    /\ size \in Nat /\ rows <= size /\ top \in Nat /\ size <= top /\ GraphShape(g0, top, q)

GraphOwn(g, s, n, q, size, top) ==
    /\ GraphShape(g, top, q)
    /\ Pass(g, size * q, size).writes = Writes(s, n)
    /\ Pass(g, size * q, size).attends = Attends(s, n, q)

(* GraphPassIsOwn, in these terms. *)
LEMMA GraphCallIsOwn ==
    ASSUME NEW g0, NEW s, NEW n, NEW q, NEW rows, NEW size, NEW top,
           GraphCall(g0, s, n, q, rows, size, top)
    PROVE  GraphOwn(GraphInputs(g0, Own(s, n), q), s, n, q, size, top)
  <1>1. /\ s \in Nat /\ q \in Nat \ {0} /\ rows \in Nat /\ n = rows * q
        /\ size \in Nat /\ rows <= size /\ top \in Nat /\ size <= top /\ GraphShape(g0, top, q)
    BY DEF GraphCall
  <1> QED
    BY ONLY <1>1, GraphPassIsOwn DEF GraphOwn

(* A pass without a full graph, its ids in a buffer of their own or of a   *)
(* piecewise graph.                                                        *)
LEMMA DirectPassIsOwn ==
    ASSUME NEW s \in Nat, NEW q \in Nat \ {0}, NEW rows \in Nat, NEW n, n = rows * q,
           NEW ids, \A j \in 1..n : ids[j] = Own(s, n)[j]
    PROVE  /\ DirectPass(Own(s, n), ids, q).writes = Writes(s, n)
           /\ DirectPass(Own(s, n), ids, q).attends = Attends(s, n, q)
  <1>1. PICK own : own = Own(s, n)
    OBVIOUS
  <1>2. PICK firsts : firsts = FirstOf(own, q)
    OBVIOUS
  <1>3. n \in Nat /\ n \div q = rows /\ Len(own) = n
    BY <1>1, RowStarts, OwnIsBuffer
  <1>4. PICK g : g = [ids |-> ids, slots |-> own, lens |-> firsts, tables |-> firsts]
    OBVIOUS
  <1>5. DirectPass(own, ids, q) = Pass(g, n, rows)
    BY <1>2, <1>3, <1>4 DEF DirectPass
  <1>6. g.ids = ids /\ g.slots = own /\ g.lens = firsts /\ g.tables = firsts
    BY <1>4
  <1>7. Pass(g, n, rows).writes = Writes(s, n) /\ Pass(g, n, rows).attends = Attends(s, n, q)
    <2>1. Loaded(g, own, firsts, n, rows, n, rows)
      BY <1>1, <1>6 DEF Loaded
    <2>2. PassCall(g, s, n, q, rows, n, rows)
      BY <1>1, <1>2, <1>3, <2>1 DEF PassCall
    <2>3. PassOwn(g, s, n, q, n, rows)
      BY <2>2, PassCallIsOwn
    <2> QED
      BY <2>3 DEF PassOwn
  <1> QED
    BY <1>1, <1>5, <1>7

-----------------------------------------------------------------------------
(* A buffer that begins with n entries of a step begins with fewer.        *)
LEMMA AtEndLess ==
    ASSUME NEW str, NEW pin, NEW inp, NEW o, NEW s, NEW n \in Nat, NEW m \in Nat, m <= n,
           pin[o] \in Buffer, inp[o] \in Buffer, AtEnd(str, pin, inp, o, s, n),
           \A c \in 1..Len(str) : CopyAt(str, o, c) => str[c].n \in Nat, Len(str) \in Nat
    PROVE  AtEnd(str, pin, inp, o, s, m)
  <1>1. \A buffer \in Buffer : Begins(buffer, s, n) => Begins(buffer, s, m)
    <2> SUFFICES ASSUME NEW buffer \in Buffer, Begins(buffer, s, n) PROVE Begins(buffer, s, m)
      OBVIOUS
    <2>1. Len(buffer) \in Nat
      BY DEF Buffer
    <2> QED
      BY <2>1 DEF Begins
  <1>2. PICK A : A = Ahead(str, o, Len(str) + 1)
    OBVIOUS
  <1>3. A \subseteq Nat
    BY <1>2 DEF Ahead
  <1>4. CASE A = {}
    BY <1>1, <1>2, <1>4 DEF AtEnd, Supplied
  <1>5. CASE A # {}
    <2>1. Begins(pin[o], s, n) /\ \A x \in A : x >= n
      BY <1>2, <1>5 DEF AtEnd, Supplied
    <2>2. Begins(pin[o], s, m) /\ \A x \in A : x >= m
      BY <1>1, <1>3, <2>1
    <2> QED
      BY <1>2, <1>5, <2>2 DEF AtEnd, Supplied
  <1> QED
    BY <1>4, <1>5

(* The same in a stream, for the sample at the end of a step.              *)
LEMMA OneAtEnd ==
    ASSUME NEW runner, NEW str, NEW pin \in [Owners -> Buffer], NEW inp \in [Owners -> Buffer],
           NEW first, NEW next, Lined(runner, str, pin, inp, first, next), NEW n \in Nat \ {0},
           AtEnd(str, pin, inp, "target", next, n)
    PROVE  AtEnd(str, pin, inp, "target", next, 1)
  <1>1. str \in Seq(Ops(runner)) /\ Len(str) \in Nat
    BY DEF Lined
  <1>2. ASSUME NEW c \in 1..Len(str), CopyAt(str, "target", c) PROVE str[c].n \in Nat
    <2>1. str[c] \in Ops(runner)
      BY <1>1
    <2> QED
      BY <1>2, <2>1 DEF Ops, Copy, Sample, PassOp, Passes, CopyAt
  <1>3. "target" \in Owners
    BY DEF Owners
  <1>4. pin["target"] \in Buffer /\ inp["target"] \in Buffer
    BY <1>3
  <1> QED
    BY <1>1, <1>2, <1>4, AtEndLess

InTwo(str, x, y) == (str \o <<x>>) \o <<y>> = str \o <<x, y>>

(* Two operations, enqueued at once or one by one.                         *)
LEMMA PairJoin ==
    ASSUME NEW S, NEW str \in Seq(S), NEW x \in S, NEW y \in S
    PROVE  InTwo(str, x, y) /\ <<x, y>> \in Seq(S)
  <1>1. <<x>> \in Seq(S) /\ <<y>> \in Seq(S) /\ <<x, y>> \in Seq(S)
    OBVIOUS
  <1>2. <<x>> \o <<y>> = <<x, y>>
    <2>1. PICK a : a = <<x>>
      OBVIOUS
    <2>2. PICK b : b = <<y>>
      OBVIOUS
    <2>3. /\ a \in Seq(S) /\ Len(a) = 1 /\ a[1] = x
          /\ b \in Seq(S) /\ Len(b) = 1 /\ b[1] = y
      BY <2>1, <2>2
    <2>4. PICK c : c = <<x, y>>
      OBVIOUS
    <2>5. c \in Seq(S) /\ Len(c) = 2 /\ c[1] = x /\ c[2] = y
      BY <2>4
    <2>6. /\ a \o b \in Seq(S) /\ Len(a \o b) = Len(a) + Len(b)
          /\ \A i \in 1..(Len(a) + Len(b)) : (a \o b)[i] = IF i <= Len(a) THEN a[i] ELSE b[i - Len(a)]
      BY <2>3, ConcatProperties
    <2>7. PICK d : d = a \o b
      OBVIOUS
    <2>8. d \in Seq(S) /\ Len(d) = 2 /\ d[1] = x /\ d[2] = y
      BY <2>3, <2>6, <2>7
    <2>9. \A i \in 1..2 : c[i] = d[i]
      BY <2>5, <2>8
    <2>10. c = d
      BY <2>5, <2>8, <2>9, SeqEqual
    <2> QED
      BY <2>1, <2>2, <2>4, <2>7, <2>10
  <1>3. PICK a \in Seq(S), b \in Seq(S) : a = <<x>> /\ b = <<y>>
    BY <1>1
  <1>4. (str \o a) \o b = str \o (a \o b)
    BY ConcatAssociative
  <1> QED
    BY <1>1, <1>2, <1>3, <1>4 DEF InTwo

(* What is enqueued by a step without drafts, and by one with drafts up to *)
(* the proposer.                                                           *)
LEMMA StepPushed ==
    ASSUME NEW runner, NEW str, NEW pin, NEW inp \in [Owners -> Buffer], NEW first, NEW s \in Nat,
           Lined(runner, str, pin, inp, first, s), NEW n \in Nat \ {0},
           NoCopy(str, "target"),
           NEW pin2 \in [Owners -> Buffer], Refilled(pin, pin2, "target"),
           Begins(pin2["target"], s, n),
           NEW x \in Copy, x.owner = "target", x.n = n,
           NEW y \in Ops(runner), y.op \in Passes, y.inputs = "target", y.b[1] = s, y.b[2] = n
    PROVE  /\ Lined(runner, str \o <<x, y>>, pin2, inp, first, s)
           /\ AtEnd(str \o <<x, y>>, pin2, inp, "target", s, n)
           /\ Lined(runner, str \o <<x, y>> \o <<[op |-> "sample"]>>, pin2, inp, first, s + 1)
  <1>1. x \in Copy /\ x.owner = "target" /\ x.n = n /\ "target" \in Owners
    BY DEF Copy, Owners
  <1>2. x \in Ops(runner) /\ str \in Seq(Ops(runner))
    BY <1>1 DEF Ops, Lined
  <1>3. n <= Len(pin2["target"])
    BY DEF Begins, Buffer
  <1>4. PICK one : one = <<x>>
    OBVIOUS
  <1>5. PICK two : two = <<y>>
    OBVIOUS
  <1>6. PICK a : a = str \o one
    OBVIOUS
  <1>7. Lined(runner, a, pin2, inp, first, s) /\ AtEnd(a, pin2, inp, "target", s, n)
    BY <1>1, <1>3, <1>4, <1>6, PushCopy
  <1>8. PICK b : b = a \o two
    OBVIOUS
  <1>9. two \in Seq(Ops(runner)) /\ one \in Seq(Ops(runner)) /\ Len(two) = 1 /\ two[1] = y
    BY <1>2, <1>4, <1>5
  <1>10. \A i \in 1..Len(two) : /\ two[i].op \in Passes /\ two[i].b[1] = s
                               /\ AtEnd(a, pin2, inp, two[i].inputs, s, two[i].b[2])
    BY <1>7, <1>9
  <1>11. Lined(runner, b, pin2, inp, first, s) /\ AtEnd(b, pin2, inp, "target", s, n)
    BY <1>7, <1>8, <1>9, <1>10, PushPasses
  <1>12. b = str \o <<x, y>>
    <2>1. PICK S : S = Ops(runner)
      OBVIOUS
    <2>2. str \in Seq(S) /\ x \in S /\ y \in S
      BY <1>2, <2>1
    <2>3. InTwo(str, x, y)
      BY <2>2, PairJoin
    <2> QED
      BY <1>4, <1>5, <1>6, <1>8, <2>3 DEF InTwo
  <1>13. AtEnd(b, pin2, inp, "target", s, 1)
    BY <1>11, OneAtEnd
  <1>14. Lined(runner, b \o <<[op |-> "sample"]>>, pin2, inp, first, s + 1)
    BY <1>11, <1>13, PushSample
  <1> QED
    BY <1>11, <1>12, <1>14

(* What the proposer enqueues.                                             *)
LEMMA DraftPushed ==
    ASSUME NEW runner, NEW str, NEW pin, NEW inp \in [Owners -> Buffer], NEW first, NEW s \in Nat,
           Lined(runner, str, pin, inp, first, s),
           NEW n \in Nat \ {0}, AtEnd(str, pin, inp, "target", s, n), NEW rows \in Nat,
           NoCopy(str, "drafter"),
           NEW pin2 \in [Owners -> Buffer], Refilled(pin, pin2, "drafter"),
           Begins(pin2["drafter"], s, rows),
           NEW x \in Copy, x.owner = "drafter", x.n = rows,
           NEW y \in Ops(runner), y.op \in Passes, y.inputs = "target", y.b[1] = s, y.b[2] = n,
           NEW more \in Seq(Ops(runner)),
           \A i \in 1..Len(more) : /\ more[i].op \in Passes /\ more[i].inputs = "drafter"
                                   /\ more[i].b[1] = s /\ more[i].b[2] = rows
    PROVE  Lined(runner, str \o (<<x, y>> \o more) \o <<[op |-> "sample"]>>, pin2, inp, first, s + 1)
  <1>1. x \in Copy /\ x.owner = "drafter" /\ x.n = rows /\ "drafter" \in Owners /\ "target" \in Owners
    BY DEF Copy, Owners
  <1>2. x \in Ops(runner) /\ str \in Seq(Ops(runner))
    BY <1>1 DEF Ops, Lined
  <1>3. rows <= Len(pin2["drafter"])
    BY DEF Begins, Buffer
  <1>4. PICK one : one = <<x>>
    OBVIOUS
  <1>5. PICK two : two = <<y>>
    OBVIOUS
  <1>6. PICK a : a = str \o one
    OBVIOUS
  <1>7. /\ Lined(runner, a, pin2, inp, first, s) /\ AtEnd(a, pin2, inp, "drafter", s, rows)
        /\ AtEnd(a, pin2, inp, "target", s, n)
    BY <1>1, <1>3, <1>4, <1>6, PushCopy
  <1>8. PICK b : b = a \o two
    OBVIOUS
  <1>9. two \in Seq(Ops(runner)) /\ one \in Seq(Ops(runner)) /\ Len(two) = 1 /\ two[1] = y
    BY <1>2, <1>4, <1>5
  <1>10. \A i \in 1..Len(two) : /\ two[i].op \in Passes /\ two[i].b[1] = s
                               /\ AtEnd(a, pin2, inp, two[i].inputs, s, two[i].b[2])
    BY <1>7, <1>9
  <1>11. /\ Lined(runner, b, pin2, inp, first, s) /\ AtEnd(b, pin2, inp, "target", s, n)
         /\ AtEnd(b, pin2, inp, "drafter", s, rows)
    BY <1>7, <1>8, <1>9, <1>10, PushPasses
  <1>12. PICK d : d = b \o more
    OBVIOUS
  <1>13. \A i \in 1..Len(more) : /\ more[i].op \in Passes /\ more[i].b[1] = s
                                /\ AtEnd(b, pin2, inp, more[i].inputs, s, more[i].b[2])
    BY <1>11
  <1>14. Lined(runner, d, pin2, inp, first, s) /\ AtEnd(d, pin2, inp, "target", s, n)
    BY <1>11, <1>12, <1>13, PushPasses
  <1>15. AtEnd(d, pin2, inp, "target", s, 1)
    BY <1>14, OneAtEnd
  <1>16. Lined(runner, d \o <<[op |-> "sample"]>>, pin2, inp, first, s + 1)
    BY <1>14, <1>15, PushSample
  <1>17. d = str \o (<<x, y>> \o more)
    <2>1. PICK S : S = Ops(runner)
      OBVIOUS
    <2>2. str \in Seq(S) /\ x \in S /\ y \in S /\ more \in Seq(S)
      BY <1>2, <2>1
    <2>3. PICK both : both = <<x, y>>
      OBVIOUS
    <2>4. both \in Seq(S)
      BY <2>2, <2>3, PairJoin
    <2>5. b = str \o both
      <3>1. InTwo(str, x, y)
        BY <2>2, PairJoin
      <3> QED
        BY <1>4, <1>5, <1>6, <1>8, <2>3, <3>1 DEF InTwo
    <2>6. (str \o both) \o more = str \o (both \o more)
      BY ONLY <2>2, <2>4, ConcatAssociative
    <2> QED
      BY <1>12, <2>3, <2>5, <2>6
  <1> QED
    BY <1>16, <1>17

-----------------------------------------------------------------------------
(* The batches of steps.                                                   *)
BatchFits(b) ==
    /\ b.query_len \in Nat \ {0} /\ \E rows \in Nat \ {0} : b.num_tokens = rows * b.query_len
    /\ b.rows \in Nat

(* A batch, and the pass its kind asks for.                                *)
LEMMA BatchOp ==
    ASSUME setup \in Runners, NEW b \in Batches, NEW s \in Nat,
           NEW y, y = [op |-> StepKind(setup, b), owner |-> "target", inputs |-> "target",
                       q |-> b.query_len, b |-> <<s, b.num_tokens>>]
    PROVE  /\ BatchFits(b)
           /\ y \in Ops(setup) /\ y.op \in Passes /\ y.inputs = "target"
           /\ y.b[1] = s /\ y.b[2] = b.num_tokens
  <1>1. PICK runner : runner = setup
    OBVIOUS
  <1>2. PICK c : c = setup.config
    OBVIOUS
  <1>3. /\ Sizes(runner.graph_bs) /\ Sizes(runner.piecewise_bs)
        /\ c \in Setups /\ runner.graph_query_len = 1 + c.k
    BY <1>1, <1>2, RunnerSizes
  <1>4. c.max_num_seqs \in Nat \ {0} /\ c.k \in Nat /\ c.chunks \subseteq Nat \ {0}
    BY <1>3, StreamAssumption
  <1>5. PICK q \in Nat \ {0}, rows \in Nat \ {0} :
            b.query_len = q /\ b.num_tokens = rows * q /\ b.rows \in Nat
    <2>1. CASE \E q \in {1, 1 + c.k}, n \in 1..c.max_num_seqs :
                 b = [is_prefill |-> FALSE, query_len |-> q, num_tokens |-> n * q, rows |-> n]
      <3>1. PICK q \in {1, 1 + c.k}, n \in 1..c.max_num_seqs :
                 b = [is_prefill |-> FALSE, query_len |-> q, num_tokens |-> n * q, rows |-> n]
        BY <2>1
      <3>2. q \in Nat \ {0} /\ n \in Nat \ {0}
        BY <1>4
      <3>3. b.query_len = q /\ b.num_tokens = n * q /\ b.rows = n
        BY <3>1
      <3> QED
        BY <3>2, <3>3
    <2>2. CASE \E n \in c.chunks, m \in 0..c.max_num_seqs :
                 b = [is_prefill |-> TRUE, query_len |-> n, num_tokens |-> n, rows |-> m]
      <3>1. PICK n \in Nat \ {0}, m \in Nat :
                 b = [is_prefill |-> TRUE, query_len |-> n, num_tokens |-> n, rows |-> m]
        <4>1. c.chunks \subseteq Nat \ {0} /\ 0..c.max_num_seqs \subseteq Nat
          BY <1>4
        <4> QED
          BY <2>2, <4>1
      <3>2. b.query_len = n /\ b.num_tokens = 1 * n /\ b.rows \in Nat
        BY <3>1
      <3> QED
        BY <3>2
    <2> QED
      BY <1>2, <2>1, <2>2 DEF Batches
  <1>6. PICK n \in Nat \ {0} : n = rows * q
    OBVIOUS
  <1>7. PICK kind : kind = StepKind(setup, b)
    OBVIOUS
  <1>8. y = [op |-> kind, owner |-> "target", inputs |-> "target", q |-> q, b |-> <<s, n>>]
    BY <1>5, <1>6, <1>7
  <1>9. kind \in Passes
    BY <1>7 DEF StepKind, Passes
  <1>10. y \in PassOp /\ y.op = kind /\ y.q = q /\ y.b[1] = s /\ y.b[2] = n /\ y.inputs = "target"
    BY <1>8, <1>9 DEF PassOp, Owners
  <1>11. kind = "graph" => q = runner.graph_query_len /\ \E size \in runner.graph_bs : rows <= size
    <2> SUFFICES ASSUME kind = "graph"
                 PROVE  q = runner.graph_query_len /\ \E size \in runner.graph_bs : rows <= size
      OBVIOUS
    <2>1. /\ runner.graph_bs # {} /\ q = runner.graph_query_len
          /\ n <= Max(runner.graph_bs) * q
      BY <1>1, <1>5, <1>6, <1>7 DEF StepKind
    <2>2. PICK size \in runner.graph_bs : size = Max(runner.graph_bs)
      BY <1>3, <2>1, TopBounds
    <2>3. size \in Nat
      BY <1>3 DEF Sizes
    <2>4. rows <= size
      <3> SUFFICES ASSUME ~(rows <= size) PROVE FALSE
        OBVIOUS
      <3>1. size + 1 <= rows /\ size + 1 \in Nat
        BY <2>3
      <3>2. (size + 1) * q <= rows * q
        BY <3>1, Products
      <3>3. (size + 1) * q = size * q + q /\ size * q \in Nat
        BY <2>3
      <3> QED
        BY <1>6, <2>1, <2>2, <3>2, <3>3
    <2> QED
      BY <2>1, <2>4
  <1>12. kind # "draft"
    BY <1>7 DEF StepKind
  <1>13. kind = "piecewise" => \E size \in runner.piecewise_bs : n <= size
    <2> SUFFICES ASSUME kind = "piecewise" PROVE \E size \in runner.piecewise_bs : n <= size
      OBVIOUS
    <2>1. Fitting(runner.piecewise_bs, n) # 0
      BY <1>1, <1>5, <1>6, <1>7 DEF StepKind
    <2> QED
      BY <1>3, <2>1, FittingFits
  <1>14. Fits(setup, y)
    <2>1. /\ y.b[2] = rows * y.q
          /\ y.op = "graph" => y.q = runner.graph_query_len /\ \E size \in runner.graph_bs : rows <= size
          /\ y.op = "draft" => y.q = 1 /\ \E size \in runner.draft_bs : rows <= size
      BY <1>6, <1>10, <1>11, <1>12
    <2>2. y.op = "piecewise" => \E size \in runner.piecewise_bs : y.b[2] <= size
      BY <1>10, <1>13
    <2> QED
      BY <1>1, <2>1, <2>2 DEF Fits
  <1> QED
    BY <1>5, <1>6, <1>9, <1>10, <1>14 DEF BatchFits, Ops

-----------------------------------------------------------------------------
(* The proposer's first pass, and its further ones.                        *)
LEMMA DraftOps ==
    ASSUME NEW runner \in Runners, NEW s \in Nat, NEW q \in Nat \ {0}, NEW width \in Nat \ {0},
           NEW n, n = width * q, NEW rows \in Nat, NEW y, NEW z,
           y = [op |-> IF Fitting(runner.piecewise_bs, n) # 0 THEN "piecewise" ELSE "eager",
                owner |-> "drafter", inputs |-> "target", q |-> q, b |-> <<s, n>>],
           z = [op |-> IF Fitting(runner.draft_bs, rows) # 0 THEN "draft" ELSE "eager",
                owner |-> "drafter", inputs |-> "drafter", q |-> 1, b |-> <<s, rows>>]
    PROVE  /\ y \in Ops(runner) /\ y.op \in Passes /\ y.inputs = "target" /\ y.b[1] = s /\ y.b[2] = n
           /\ rows # 0 => /\ z \in Ops(runner) /\ z.op \in Passes /\ z.inputs = "drafter"
                          /\ z.b[1] = s /\ z.b[2] = rows
  <1>1. n \in Nat \ {0}
    OBVIOUS
  <1>2. Sizes(runner.piecewise_bs) /\ Sizes(runner.draft_bs)
    BY RunnerSizes
  <1>3. y.op = "piecewise" => \E size \in runner.piecewise_bs : n <= size
    BY <1>1, <1>2, FittingFits
  <1>4. /\ y \in PassOp /\ y.op \in {"piecewise", "eager"} /\ y.q = q /\ y.b[2] = n /\ y.b[1] = s
        /\ y.inputs = "target"
    BY <1>1 DEF PassOp, Passes, Owners
  <1>5. Fits(runner, y)
    BY <1>3, <1>4 DEF Fits
  <1>6. ASSUME rows # 0
        PROVE  /\ z \in PassOp /\ z.op \in {"draft", "eager"} /\ z.q = 1 /\ z.b[2] = rows /\ z.b[1] = s
               /\ z.inputs = "drafter" /\ Fits(runner, z)
    <2>1. PICK m \in Nat \ {0} : m = rows
      BY <1>6
    <2>2. z.op = "draft" => \E size \in runner.draft_bs : m <= size
      BY <1>2, <2>1, FittingFits
    <2>3. z = [op |-> z.op, owner |-> "drafter", inputs |-> "drafter", q |-> 1, b |-> <<s, m>>]
      BY <2>1
    <2>4. z.op \in {"draft", "eager"}
      OBVIOUS
    <2>5. z \in PassOp /\ z.q = 1 /\ z.b[2] = m /\ z.b[1] = s /\ z.inputs = "drafter"
      BY <2>3, <2>4 DEF PassOp, Passes, Owners
    <2>6. m = m * 1
      OBVIOUS
    <2>7. Fits(runner, z)
      BY <2>2, <2>4, <2>5, <2>6 DEF Fits
    <2> QED
      BY <2>1, <2>4, <2>5, <2>7
  <1> QED
    BY <1>4, <1>5, <1>6 DEF Ops, Passes

-----------------------------------------------------------------------------
(* The inductive invariant. *)

HostFields == {"launched", "read", "drafts"}
DeviceFields == {"inputs", "graph", "draft", "padded", "sampled"}

(* Tokens are copied back and read in the order of their steps. *)
HostInOrder(h, cp, rd) ==
    /\ DOMAIN h = HostFields /\ h.launched \in Nat /\ h.read \in Nat
    /\ cp \in Seq(Nat) /\ h.read + Len(cp) = h.launched
    /\ \A i \in 1..Len(cp) : cp[i] = h.read + i
    /\ rd \in Seq(Nat) /\ Len(rd) = h.read
    /\ \A s \in 1..Len(rd) : rd[s] = s

(* Buffers keep their sizes; sampled tokens are those of their steps. *)
DeviceShape(runner, d) ==
    /\ DOMAIN d = DeviceFields
    /\ d.inputs \in [Owners -> Buffer]
    /\ GraphShape(d.graph, Top(runner.graph_bs), runner.graph_query_len)
    /\ GraphShape(d.draft, Top(runner.draft_bs), 1)
    /\ DOMAIN d.padded = Owners
    /\ \A o \in Owners : DOMAIN d.padded[o] = 1..Top(runner.piecewise_bs)
    /\ d.sampled \in Seq(Nat)
    /\ \A s \in 1..Len(d.sampled) : d.sampled[s] = s

(* Between a step's target pass and its proposer, its inputs stay staged. *)
DraftDue(runner, h, str, pin, inp) ==
    \/ h.drafts = << >>
    \/ \E b : /\ h.drafts = <<b>>
              /\ runner.config.k > 0 /\ BatchFits(b)
              /\ AtEnd(str, pin, inp, "target", h.launched + 1, b.num_tokens)

RanOwn(r) == r.writes = Writes(r.b[1], r.b[2]) /\ r.attends = Attends(r.b[1], r.b[2], r.q)

StreamInv ==
    /\ setup \in Runners
    /\ DeviceShape(setup, device)
    /\ pinned \in [Owners -> Buffer]
    /\ Lined(setup, stream, pinned, device.inputs, Len(device.sampled) + 1, host.launched + 1)
    /\ DraftDue(setup, host, stream, pinned, device.inputs)
    /\ HostInOrder(host, copying, read)
    /\ ran # << >> => RanOwn(ran)

(* An empty stream.                                                        *)
LEMMA EmptyLined ==
    ASSUME NEW runner, NEW pin, NEW inp, NEW first \in Nat
    PROVE  Lined(runner, << >>, pin, inp, first, first)
  <1>1. PICK str : str = << >>
    OBVIOUS
  <1>2. str \in Seq(Ops(runner)) /\ Len(str) = 0
    BY <1>1
  <1>3. OneCopy(str, pin)
    BY <1>2 DEF OneCopy
  <1>4. PICK of : of = [i \in 1..1 |-> first]
    OBVIOUS
  <1>5. Ordered(str, of, first, first)
    BY <1>2, <1>4 DEF Ordered
  <1>6. Lined(runner, str, pin, inp, first, first)
    BY <1>2, <1>3, <1>5 DEF Lined
  <1> QED
    BY <1>1, <1>6

(* The invariant holds of a runner that has just captured its graphs. *)
LEMMA StartsApart == StreamInit => StreamInv
  <1> SUFFICES ASSUME StreamInit PROVE StreamInv
    OBVIOUS
  <1>1. setup \in Runners
    BY DEF StreamInit, Runners
  <1>2. << >> \in Buffer
    BY DEF Buffer
  <1>3. pinned \in [Owners -> Buffer]
    BY <1>2 DEF StreamInit
  <1>4. /\ Top(setup.graph_bs) = Max(setup.graph_bs \cup {0})
        /\ Top(setup.draft_bs) = Max(setup.draft_bs \cup {0})
        /\ Top(setup.piecewise_bs) = Max(setup.piecewise_bs \cup {0})
    BY DEF Top
  <1>5. /\ DOMAIN device = DeviceFields
        /\ device.inputs = [o \in Owners |-> << >>]
        /\ device.graph = GraphVars(Top(setup.graph_bs), setup.graph_query_len)
        /\ device.draft = GraphVars(Top(setup.draft_bs), 1)
        /\ device.padded = [o \in Owners |-> [j \in 1..Top(setup.piecewise_bs) |-> Cleared]]
        /\ device.sampled = << >>
    BY <1>4 DEF StreamInit, DeviceFields
  <1>6. \A rows, q : GraphShape(GraphVars(rows, q), rows, q)
    BY DEF GraphShape, GraphVars
  <1>7. DeviceShape(setup, device)
    <2>1. device.inputs \in [Owners -> Buffer]
      BY <1>2, <1>5
    <2>2. device.sampled \in Seq(Nat) /\ \A s \in 1..Len(device.sampled) : device.sampled[s] = s
      BY <1>5
    <2> QED
      BY <1>5, <1>6, <2>1, <2>2 DEF DeviceShape
  <1>8. Len(device.sampled) + 1 = 1 /\ host.launched + 1 = 1 /\ stream = << >>
    BY <1>5 DEF StreamInit
  <1>9. Lined(setup, stream, pinned, device.inputs, Len(device.sampled) + 1, host.launched + 1)
    <2>1. Lined(setup, << >>, pinned, device.inputs, 1, 1)
      BY EmptyLined
    <2> QED
      BY <1>8, <2>1
  <1>10. HostInOrder(host, copying, read)
    BY DEF StreamInit, HostInOrder, HostFields
  <1>11. DraftDue(setup, host, stream, pinned, device.inputs)
    BY DEF StreamInit, DraftDue
  <1> QED
    BY <1>1, <1>3, <1>7, <1>9, <1>10, <1>11 DEF StreamInv, StreamInit

(* A step is launched: its tokens are to be copied back behind the others. *)
LEMMA HostLaunches ==
    ASSUME NEW h, NEW cp, NEW rd, HostInOrder(h, cp, rd), NEW g, DOMAIN g = HostFields,
           g.launched = h.launched + 1, g.read = h.read
    PROVE  HostInOrder(g, Append(cp, h.launched + 1), rd)
  <1>1. PICK c : c = Append(cp, h.launched + 1)
    OBVIOUS
  <1>2. /\ h.launched \in Nat /\ h.read \in Nat /\ cp \in Seq(Nat) /\ Len(cp) \in Nat
        /\ h.read + Len(cp) = h.launched /\ \A i \in 1..Len(cp) : cp[i] = h.read + i
    BY DEF HostInOrder
  <1>3. /\ c \in Seq(Nat) /\ Len(c) = Len(cp) + 1 /\ c[Len(cp) + 1] = h.launched + 1
        /\ \A i \in 1..Len(cp) : c[i] = cp[i]
    BY <1>1, <1>2, AppendProperties
  <1>4. \A i \in 1..Len(c) : c[i] = h.read + i
    <2> SUFFICES ASSUME NEW i \in 1..Len(c) PROVE c[i] = h.read + i
      OBVIOUS
    <2>1. PICK k \in Nat : k = h.read
      BY <1>2
    <2>2. PICK m \in Nat : m = Len(cp)
      BY <1>2
    <2>3. i \in 1..m \/ i = m + 1
      BY <1>3, <2>2
    <2>4. CASE i \in 1..m
      BY <1>2, <1>3, <2>2, <2>4
    <2>5. CASE i = m + 1
      <3>1. c[i] = (k + m) + 1
        BY <1>2, <1>3, <2>1, <2>2, <2>5
      <3> QED
        BY <2>1, <2>5, <3>1
    <2> QED
      BY <2>3, <2>4, <2>5
  <1>5. HostInOrder(g, c, rd)
    <2>1. g.launched \in Nat /\ g.read \in Nat /\ g.read + Len(c) = g.launched
      BY <1>2, <1>3
    <2> QED
      BY <1>3, <1>4, <2>1 DEF HostInOrder
  <1> QED
    BY <1>1, <1>5

(* A step is staged: its copy and its pass go behind the others. *)
LEMMA PrepareAndRunApart ==
    ASSUME StreamInv, PrepareAndRun
    PROVE  StreamInv'
  <1>1. PICK s : s = host.launched + 1
    OBVIOUS
  <1>2. PICK b \in Batches :
          LET kind == StepKind(setup, b)
              ops == <<[op |-> "copy", owner |-> "target", n |-> b.num_tokens],
                       [op |-> kind, owner |-> "target", inputs |-> "target", q |-> b.query_len, b |-> <<s, b.num_tokens>>]>>
          IN  /\ Put("target", [j \in 1..b.num_tokens |-> <<s, j>>])
              /\ IF setup.config.k = 0
                 THEN Launch(ops) /\ host' = [host EXCEPT !.launched = s]
                 ELSE /\ stream' = stream \o ops
                      /\ host' = [host EXCEPT !.drafts = <<b>>]
                      /\ UNCHANGED copying
    BY <1>1 DEF PrepareAndRun
  <1>3. UNCHANGED <<setup, device, ran, read>> /\ Begin("target") /\ host.drafts = << >>
    BY DEF PrepareAndRun
  <1>4. PICK x : x = [op |-> "copy", owner |-> "target", n |-> b.num_tokens]
    OBVIOUS
  <1>5. PICK y : y = [op |-> StepKind(setup, b), owner |-> "target", inputs |-> "target",
                      q |-> b.query_len, b |-> <<s, b.num_tokens>>]
    OBVIOUS
  <1>6. PICK n : n = b.num_tokens
    OBVIOUS
  <1>7. PICK runner : runner = setup
    OBVIOUS
  <1>8. PICK str : str = stream
    OBVIOUS
  <1>9. PICK pin : pin = pinned
    OBVIOUS
  <1>10. PICK pin2 : pin2 = pinned'
    OBVIOUS
  <1>11. PICK inp : inp = device.inputs
    OBVIOUS
  <1>12. PICK first : first = Len(device.sampled) + 1
    OBVIOUS
  <1>13. runner \in Runners /\ s \in Nat /\ DOMAIN host = HostFields /\ inp \in [Owners -> Buffer]
    BY <1>1, <1>7, <1>11 DEF StreamInv, HostInOrder, DeviceShape
  <1>14. /\ BatchFits(b) /\ y \in Ops(runner) /\ y.op \in Passes /\ y.inputs = "target"
         /\ y.b[1] = s /\ y.b[2] = n
    BY <1>5, <1>6, <1>7, <1>13, BatchOp
  <1>15. n \in Nat \ {0}
    BY <1>6, <1>14 DEF BatchFits
  <1>16. pin2 \in [Owners -> Buffer] /\ Refilled(pin, pin2, "target") /\ Begins(pin2["target"], s, n)
    <2>1. "target" \in Owners /\ pinned \in [Owners -> Buffer]
      BY DEF Owners, StreamInv
    <2>2. Put("target", Own(s, n))
      BY <1>2, <1>6 DEF Own
    <2>3. /\ pinned' \in [Owners -> Buffer]
          /\ \A p \in Owners : p # "target" => pinned'[p] = pinned[p]
          /\ Begins(pinned'["target"], s, n)
      BY <1>13, <1>15, <2>1, <2>2, PutFills
    <2> QED
      BY <1>9, <1>10, <2>3 DEF Refilled
  <1>17. Lined(runner, str, pin, inp, first, s)
    BY <1>1, <1>7, <1>8, <1>9, <1>11, <1>12 DEF StreamInv
  <1>18. NoCopy(str, "target")
    <2>1. DOMAIN str = 1..Len(str)
      BY <1>17 DEF Lined
    <2> QED
      BY <1>3, <1>8, <2>1 DEF Begin, NoCopy, CopyAt
  <1>19. x \in Copy /\ x.owner = "target" /\ x.n = n
    BY <1>4, <1>6, <1>15 DEF Copy, Owners
  <1>20. /\ Lined(runner, str \o <<x, y>>, pin2, inp, first, s)
         /\ AtEnd(str \o <<x, y>>, pin2, inp, "target", s, n)
         /\ Lined(runner, str \o <<x, y>> \o <<[op |-> "sample"]>>, pin2, inp, first, s + 1)
    BY <1>13, <1>14, <1>15, <1>16, <1>17, <1>18, <1>19, StepPushed
  <1>21. setup' = runner /\ device' = device /\ device'.inputs = inp /\ Len(device'.sampled) + 1 = first
    BY <1>3, <1>7, <1>11, <1>12
  <1>22. setup' \in Runners /\ DeviceShape(setup, device)' /\ (pinned \in [Owners -> Buffer])' /\ (ran # << >> => RanOwn(ran))'
    BY <1>3, <1>10, <1>16 DEF StreamInv
  <1>23. CASE setup.config.k = 0
    <2>1. stream' = str \o <<x, y>> \o <<[op |-> "sample"]>> /\ copying' = Append(copying, s)
      BY <1>1, <1>2, <1>4, <1>5, <1>8, <1>23 DEF Launch
    <2>2. host' = [host EXCEPT !.launched = s]
      BY <1>2, <1>23
    <2>3. host'.launched = s /\ host'.read = host.read /\ host'.drafts = << >> /\ DOMAIN host' = HostFields
      BY <1>3, <1>13, <2>2 DEF HostFields
    <2>4. HostInOrder(host, copying, read)'
      BY <1>1, <1>3, <2>1, <2>3, HostLaunches DEF StreamInv
    <2>5. Lined(setup, stream, pinned, device.inputs, Len(device.sampled) + 1, host.launched + 1)'
      BY <1>10, <1>20, <1>21, <2>1, <2>3
    <2>6. DraftDue(setup, host, stream, pinned, device.inputs)'
      BY <2>3 DEF DraftDue
    <2> QED
      BY <1>22, <2>4, <2>5, <2>6 DEF StreamInv
  <1>24. CASE setup.config.k # 0
    <2>1. stream' = str \o <<x, y>> /\ copying' = copying
      BY <1>2, <1>4, <1>5, <1>8, <1>24
    <2>2. host' = [host EXCEPT !.drafts = <<b>>]
      BY <1>2, <1>24
    <2>3. /\ host'.launched = host.launched /\ host'.read = host.read /\ host'.drafts = <<b>>
          /\ DOMAIN host' = HostFields
      BY <1>13, <2>2 DEF HostFields
    <2>4. HostInOrder(host, copying, read)'
      BY <1>3, <2>1, <2>3 DEF StreamInv, HostInOrder
    <2>5. Lined(setup, stream, pinned, device.inputs, Len(device.sampled) + 1, host.launched + 1)'
      BY <1>1, <1>10, <1>20, <1>21, <2>1, <2>3
    <2>6. setup'.config.k > 0
      <3>1. setup.config \in Setups
        BY <1>7, <1>13, RunnerSizes
      <3>2. setup.config.k \in Nat
        BY <3>1, StreamAssumption
      <3> QED
        BY <1>3, <1>24, <3>2
    <2>7. AtEnd(stream', pinned', device'.inputs, "target", host'.launched + 1, b.num_tokens)
      BY <1>1, <1>6, <1>10, <1>20, <1>21, <2>1, <2>3
    <2>8. DraftDue(setup, host, stream, pinned, device.inputs)'
      BY <1>14, <2>3, <2>6, <2>7 DEF DraftDue
    <2> QED
      BY <1>22, <2>4, <2>5, <2>8 DEF StreamInv
  <1> QED
    BY <1>23, <1>24

-----------------------------------------------------------------------------
(* The proposer's copy and passes follow the target's pass. *)
LEMMA ProposeApart ==
    ASSUME StreamInv, Propose
    PROVE  StreamInv'
  <1>1. PICK s : s = host.launched + 1
    OBVIOUS
  <1>2. PICK b : /\ host.drafts = <<b>> /\ setup.config.k > 0 /\ BatchFits(b)
                 /\ AtEnd(stream, pinned, device.inputs, "target", s, b.num_tokens)
    BY <1>1 DEF StreamInv, DraftDue, Propose
  <1>3. PICK q \in Nat \ {0}, width \in Nat \ {0} : b.query_len = q /\ b.num_tokens = width * q
    BY <1>2 DEF BatchFits
  <1>4. PICK n \in Nat \ {0} : n = width * q
    OBVIOUS
  <1>5. PICK rows \in Nat : rows = b.rows
    BY <1>2 DEF BatchFits
  <1>6. PICK runner : runner = setup
    OBVIOUS
  <1>7. PICK str : str = stream
    OBVIOUS
  <1>8. PICK pin : pin = pinned
    OBVIOUS
  <1>9. PICK pin2 : pin2 = pinned'
    OBVIOUS
  <1>10. PICK inp : inp = device.inputs
    OBVIOUS
  <1>11. PICK start : start = Len(device.sampled) + 1
    OBVIOUS
  <1>12. PICK x : x = [op |-> "copy", owner |-> "drafter", n |-> rows]
    OBVIOUS
  <1>13. PICK y : y = [op |-> IF Fitting(runner.piecewise_bs, n) # 0 THEN "piecewise" ELSE "eager",
                       owner |-> "drafter", inputs |-> "target", q |-> q, b |-> <<s, n>>]
    OBVIOUS
  <1>14. PICK z : z = [op |-> IF Fitting(runner.draft_bs, rows) # 0 THEN "draft" ELSE "eager",
                       owner |-> "drafter", inputs |-> "drafter", q |-> 1, b |-> <<s, rows>>]
    OBVIOUS
  <1>15. PICK k \in Nat : k = IF rows = 0 THEN 0 ELSE runner.config.k - 1
    <2>1. runner.config \in Setups
      BY <1>6, RunnerSizes DEF StreamInv
    <2>2. runner.config.k \in Nat
      BY <2>1, StreamAssumption
    <2> QED
      BY <1>2, <1>6, <2>2
  <1>16. PICK more : more = [i \in 1..k |-> z]
    OBVIOUS
  <1>17. /\ Begin("drafter") /\ Put("drafter", [j \in 1..rows |-> <<s, j>>])
         /\ Launch(<<x, y>> \o more)
         /\ host' = [host EXCEPT !.launched = s, !.drafts = << >>]
         /\ UNCHANGED <<setup, device, ran, read>>
    <2>1. host.drafts[1] = b
      BY <1>2
    <2> QED
      BY <1>1, <1>3, <1>4, <1>5, <1>6, <1>12, <1>13, <1>14, <1>15, <1>16, <2>1 DEF Propose
  <1>18. runner \in Runners /\ s \in Nat /\ DOMAIN host = HostFields /\ inp \in [Owners -> Buffer]
    BY <1>1, <1>6, <1>10 DEF StreamInv, HostInOrder, DeviceShape
  <1>19. /\ y \in Ops(runner) /\ y.op \in Passes /\ y.inputs = "target" /\ y.b[1] = s /\ y.b[2] = n
         /\ k # 0 => /\ z \in Ops(runner) /\ z.op \in Passes /\ z.inputs = "drafter"
                     /\ z.b[1] = s /\ z.b[2] = rows
    BY <1>4, <1>13, <1>14, <1>15, <1>18, DraftOps
  <1>20. /\ more \in Seq(Ops(runner))
         /\ \A i \in 1..Len(more) : /\ more[i].op \in Passes /\ more[i].inputs = "drafter"
                                    /\ more[i].b[1] = s /\ more[i].b[2] = rows
    <2>1. PICK S : S = Ops(runner)
      OBVIOUS
    <2>2. more \in [1..k -> S] /\ \A i \in 1..k : more[i] = z
      <3>1. \A i \in 1..k : z \in S
        BY <1>19, <2>1
      <3> QED
        BY <1>16, <3>1
    <2>3. more \in Seq(S) /\ Len(more) = k
      BY <2>2
    <2>4. \A i \in 1..Len(more) : more[i] = z
      BY <2>2, <2>3
    <2>5. \A i \in 1..Len(more) : k # 0
      BY <2>3
    <2> QED
      BY <1>19, <2>1, <2>3, <2>4, <2>5
  <1>21. pin2 \in [Owners -> Buffer] /\ Refilled(pin, pin2, "drafter") /\ Begins(pin2["drafter"], s, rows)
    <2>1. "drafter" \in Owners /\ pinned \in [Owners -> Buffer]
      BY DEF Owners, StreamInv
    <2>2. Put("drafter", Own(s, rows))
      BY <1>17 DEF Own
    <2>3. /\ pinned' \in [Owners -> Buffer]
          /\ \A p \in Owners : p # "drafter" => pinned'[p] = pinned[p]
          /\ Begins(pinned'["drafter"], s, rows)
      BY <1>18, <2>1, <2>2, PutFills
    <2> QED
      BY <1>8, <1>9, <2>3 DEF Refilled
  <1>22. Lined(runner, str, pin, inp, start, s)
    BY <1>1, <1>6, <1>7, <1>8, <1>10, <1>11 DEF StreamInv
  <1>23. NoCopy(str, "drafter")
    <2>1. DOMAIN str = 1..Len(str)
      BY <1>22 DEF Lined
    <2> QED
      BY <1>7, <1>17, <2>1 DEF Begin, NoCopy, CopyAt
  <1>24. x \in Copy /\ x.owner = "drafter" /\ x.n = rows
    BY <1>12 DEF Copy, Owners
  <1>25. AtEnd(str, pin, inp, "target", s, n)
    BY <1>2, <1>3, <1>4, <1>7, <1>8, <1>10
  <1>26. Lined(runner, str \o (<<x, y>> \o more) \o <<[op |-> "sample"]>>, pin2, inp, start, s + 1)
    <2>1. y \in Ops(runner) /\ y.op \in Passes /\ y.inputs = "target" /\ y.b[1] = s /\ y.b[2] = n
      BY <1>19
    <2> QED
      BY <1>18, <1>20, <1>21, <1>22, <1>23, <1>24, <1>25, <2>1, DraftPushed, SMTT(40)
  <1>27. stream' = str \o (<<x, y>> \o more) \o <<[op |-> "sample"]>> /\ copying' = Append(copying, s)
    BY <1>1, <1>7, <1>17 DEF Launch
  <1>28. host'.launched = s /\ host'.read = host.read /\ host'.drafts = << >> /\ DOMAIN host' = HostFields
    BY <1>17, <1>18 DEF HostFields
  <1>29. setup' = runner /\ device'.inputs = inp /\ Len(device'.sampled) + 1 = start
    BY <1>6, <1>10, <1>11, <1>17
  <1>30. setup' \in Runners /\ DeviceShape(setup, device)' /\ (pinned \in [Owners -> Buffer])' /\ (ran # << >> => RanOwn(ran))'
    BY <1>9, <1>17, <1>21 DEF StreamInv
  <1>31. HostInOrder(host, copying, read)'
    BY <1>1, <1>17, <1>27, <1>28, HostLaunches DEF StreamInv
  <1>32. Lined(setup, stream, pinned, device.inputs, Len(device.sampled) + 1, host.launched + 1)'
    BY <1>9, <1>26, <1>27, <1>28, <1>29
  <1>33. DraftDue(setup, host, stream, pinned, device.inputs)'
    BY <1>28 DEF DraftDue
  <1> QED
    BY <1>30, <1>31, <1>32, <1>33 DEF StreamInv

-----------------------------------------------------------------------------
(* A copy stages the first n entries of the pinned buffer.                 *)
LEMMA CopyStages ==
    ASSUME NEW staged \in Buffer, NEW source \in Buffer, NEW n \in Nat, n <= Len(source)
    PROVE  LET values == SubSeq(source, 1, n)
               new == IF Len(staged) >= n THEN Overlay(staged, values) ELSE values
           IN  /\ new \in Buffer
               /\ \A s \in Nat, m \in Nat : m <= n /\ Begins(source, s, m) => Begins(new, s, m)
  <1>1. PICK values : values = SubSeq(source, 1, n)
    OBVIOUS
  <1>2. Len(source) \in Nat /\ Len(staged) \in Nat
    BY DEF Buffer
  <1>3. values \in Buffer /\ Len(values) = n /\ \A j \in 1..n : values[j] = source[j]
    BY <1>1, <1>2 DEF Buffer
  <1>4. PICK new : new = IF Len(staged) >= n THEN Overlay(staged, values) ELSE values
    OBVIOUS
  <1>5. new \in Buffer /\ Len(new) >= n /\ \A j \in 1..n : new[j] = source[j]
    <2>1. CASE Len(staged) >= n
      BY <1>2, <1>3, <1>4, <2>1, OverlayHead
    <2>2. CASE ~(Len(staged) >= n)
      BY <1>3, <1>4, <2>2
    <2> QED
      BY <2>1, <2>2
  <1>6. Len(new) \in Nat
    BY <1>5 DEF Buffer
  <1>7. \A s \in Nat, m \in Nat : m <= n /\ Begins(source, s, m) => Begins(new, s, m)
    BY <1>5, <1>6 DEF Begins
  <1> QED
    BY <1>1, <1>4, <1>5, <1>7

(* A copy runs: what waited for it in the pinned buffer is staged. *)
LEMMA RunCopyApart ==
    ASSUME StreamInv, RunCopy
    PROVE  StreamInv'
  <1>1. PICK runner : runner = setup
    OBVIOUS
  <1>2. PICK str : str = stream
    OBVIOUS
  <1>3. PICK pin : pin = pinned
    OBVIOUS
  <1>4. PICK inp : inp = device.inputs
    OBVIOUS
  <1>5. PICK first : first = Len(device.sampled) + 1
    OBVIOUS
  <1>6. PICK next : next = host.launched + 1
    OBVIOUS
  <1>7. PICK x : x = Head(str)
    OBVIOUS
  <1>8. PICK o : o = x.owner
    OBVIOUS
  <1>9. PICK new : new = IF Len(inp[o]) >= x.n THEN Overlay(inp[o], SubSeq(pin[o], 1, x.n)) ELSE SubSeq(pin[o], 1, x.n)
    OBVIOUS
  <1>10. /\ str # << >> /\ x.op = "copy" /\ stream' = Tail(str)
         /\ device' = [device EXCEPT !.inputs[o] = new]
         /\ UNCHANGED <<setup, host, pinned, copying, ran, read>>
    BY <1>2, <1>3, <1>4, <1>7, <1>8, <1>9 DEF RunCopy, Running
  <1>11. Lined(runner, str, pin, inp, first, next)
    BY <1>1, <1>2, <1>3, <1>4, <1>5, <1>6 DEF StreamInv
  <1>12. /\ DOMAIN device = DeviceFields /\ inp \in [Owners -> Buffer] /\ pin \in [Owners -> Buffer]
         /\ next \in Nat
    BY <1>3, <1>4, <1>6 DEF StreamInv, DeviceShape, HostInOrder
  <1>13. x \in Copy /\ o \in Owners /\ x.n \in Nat /\ x.n <= Len(pin[o])
    <2>1. str \in Seq(Ops(runner)) /\ OneCopy(str, pin)
      BY <1>11 DEF Lined
    <2>2. x \in Ops(runner) /\ x = str[1] /\ 1 \in 1..Len(str)
      BY <1>7, <1>10, <2>1
    <2>3. x \in Copy
      BY <1>10, <2>2 DEF Ops, Copy, Sample, PassOp, Passes
    <2>4. o \in Owners /\ x.n \in Nat
      BY <1>8, <2>3 DEF Copy
    <2>5. CopyAt(str, o, 1)
      BY <1>8, <1>10, <2>2 DEF CopyAt
    <2> QED
      BY <2>1, <2>2, <2>3, <2>4, <2>5 DEF OneCopy
  <1>14. PICK inp2 : inp2 = [inp EXCEPT ![o] = new]
    OBVIOUS
  <1>15. /\ new \in Buffer
         /\ \A s \in Nat, m \in Nat : m <= x.n /\ Begins(pin[o], s, m) => Begins(new, s, m)
    <2>1. PICK n \in Nat : n = x.n
      BY <1>13
    <2>2. inp[o] \in Buffer /\ pin[o] \in Buffer /\ n <= Len(pin[o])
      BY <1>12, <1>13, <2>1
    <2>3. /\ new \in Buffer
          /\ \A s \in Nat, m \in Nat : m <= n /\ Begins(pin[o], s, m) => Begins(new, s, m)
      BY <1>9, <2>1, <2>2, CopyStages
    <2> QED
      BY <2>1, <2>3
  <1>16. inp2 \in [Owners -> Buffer] /\ inp2[o] = new /\ \A p \in Owners : p # o => inp2[p] = inp[p]
    BY <1>12, <1>13, <1>14, <1>15
  <1>17. /\ Lined(runner, Tail(str), pin, inp2, first, next)
         /\ \A p \in Owners, s \in Nat, n \in Nat :
               AtEnd(str, pin, inp, p, s, n) => AtEnd(Tail(str), pin, inp2, p, s, n)
    <2>1. Head(str).op = "copy"
      BY <1>7, <1>10
    <2>2. \A p \in Owners : p # Head(str).owner => inp2[p] = inp[p]
      BY <1>7, <1>8, <1>16
    <2>3. \A s \in Nat, n \in Nat : n <= Head(str).n /\ Begins(pin[Head(str).owner], s, n)
              => Begins(inp2[Head(str).owner], s, n)
      BY <1>7, <1>8, <1>15, <1>16
    <2> QED
      BY <1>10, <1>11, <2>1, <2>2, <2>3, PopCopy
  <1>18. /\ device'.inputs = inp2 /\ DOMAIN device' = DeviceFields
         /\ device'.graph = device.graph /\ device'.draft = device.draft
         /\ device'.padded = device.padded /\ device'.sampled = device.sampled
    BY <1>4, <1>10, <1>12, <1>14 DEF DeviceFields
  <1>19. DeviceShape(setup, device)'
    BY <1>10, <1>16, <1>18 DEF StreamInv, DeviceShape
  <1>20. Lined(setup, stream, pinned, device.inputs, Len(device.sampled) + 1, host.launched + 1)'
    BY <1>1, <1>3, <1>5, <1>6, <1>10, <1>17, <1>18
  <1>21. DraftDue(setup, host, stream, pinned, device.inputs)'
    <2>1. CASE host.drafts = << >>
      BY <1>10, <2>1 DEF DraftDue
    <2>2. CASE host.drafts # << >>
      <3>1. PICK b : /\ host.drafts = <<b>> /\ setup.config.k > 0 /\ BatchFits(b)
                     /\ AtEnd(str, pin, inp, "target", next, b.num_tokens)
        BY <1>2, <1>3, <1>4, <1>6, <2>2 DEF StreamInv, DraftDue
      <3>2. b.num_tokens \in Nat /\ "target" \in Owners
        BY <3>1 DEF BatchFits, Owners
      <3>3. AtEnd(Tail(str), pin, inp2, "target", next, b.num_tokens)
        BY <1>12, <1>17, <3>1, <3>2
      <3>4. AtEnd(stream', pinned', device'.inputs, "target", host'.launched + 1, b.num_tokens)
        BY <1>3, <1>6, <1>10, <1>18, <3>3
      <3>5. host'.drafts = <<b>> /\ setup'.config.k > 0
        BY <1>10, <3>1
      <3> QED
        BY <3>1, <3>4, <3>5 DEF DraftDue
    <2> QED
      BY <2>1, <2>2
  <1> QED
    BY <1>10, <1>19, <1>20, <1>21 DEF StreamInv

(* What the device has of its first operation, and the stream behind it.   *)
LEMMA RunFacts ==
    ASSUME StreamInv, NEW kind \in Passes \cup {"sample"}, Running(kind),
           UNCHANGED <<setup, host, pinned, copying, read>>, device'.inputs = device.inputs,
           IF kind = "sample" THEN Len(device'.sampled) = Len(device.sampled) + 1
           ELSE device'.sampled = device.sampled
    PROVE  /\ Lined(setup, stream, pinned, device.inputs, Len(device.sampled) + 1, host.launched + 1)'
           /\ DraftDue(setup, host, stream, pinned, device.inputs)'
           /\ Len(device.sampled) + 1 \in Nat
           /\ kind = "sample" => Begins(device.inputs["target"], Len(device.sampled) + 1, 1)
           /\ kind \in Passes =>
                /\ Head(stream) \in PassOp /\ Fits(setup, Head(stream)) /\ Head(stream).op = kind
                /\ Begins(device.inputs[Head(stream).inputs], Head(stream).b[1], Head(stream).b[2])
  <1>1. PICK runner : runner = setup
    OBVIOUS
  <1>2. PICK str : str = stream
    OBVIOUS
  <1>3. PICK pin : pin = pinned
    OBVIOUS
  <1>4. PICK inp : inp = device.inputs
    OBVIOUS
  <1>5. PICK first : first = Len(device.sampled) + 1
    OBVIOUS
  <1>6. PICK next : next = host.launched + 1
    OBVIOUS
  <1>7. PICK x : x = Head(str)
    OBVIOUS
  <1>8. str # << >> /\ x.op = kind /\ x.op # "copy" /\ stream' = Tail(str)
    BY <1>2, <1>7 DEF Running, Passes
  <1>9. Lined(runner, str, pin, inp, first, next)
    BY <1>1, <1>2, <1>3, <1>4, <1>5, <1>6 DEF StreamInv
  <1>10. PICK then : then = IF x.op = "sample" THEN first + 1 ELSE first
    OBVIOUS
  <1>11. /\ Lined(runner, Tail(str), pin, inp, then, next)
         /\ \A o, s, n : AtEnd(str, pin, inp, o, s, n) => AtEnd(Tail(str), pin, inp, o, s, n)
         /\ x \in Ops(runner) /\ first \in Nat
         /\ x.op \in Passes => x.b[1] = first /\ Begins(inp[x.inputs], first, x.b[2])
         /\ x.op = "sample" => Begins(inp["target"], first, 1)
    BY <1>7, <1>8, <1>9, <1>10, Pop
  <1>12. then = Len(device'.sampled) + 1
    BY <1>5, <1>8, <1>10 DEF Passes
  <1>13. Lined(setup, stream, pinned, device.inputs, Len(device.sampled) + 1, host.launched + 1)'
    BY <1>1, <1>3, <1>4, <1>6, <1>8, <1>11, <1>12
  <1>14. DraftDue(setup, host, stream, pinned, device.inputs)'
    <2>1. CASE host.drafts = << >>
      BY <2>1 DEF DraftDue
    <2>2. CASE host.drafts # << >>
      <3>1. PICK b : /\ host.drafts = <<b>> /\ setup.config.k > 0 /\ BatchFits(b)
                     /\ AtEnd(str, pin, inp, "target", next, b.num_tokens)
        BY <1>2, <1>3, <1>4, <1>6, <2>2 DEF StreamInv, DraftDue
      <3>2. AtEnd(Tail(str), pin, inp, "target", next, b.num_tokens)
        BY <1>11, <3>1
      <3>3. AtEnd(stream', pinned', device'.inputs, "target", host'.launched + 1, b.num_tokens)
        BY <1>3, <1>4, <1>6, <1>8, <3>2
      <3>4. host'.drafts = <<b>> /\ setup'.config.k > 0
        BY <3>1
      <3> QED
        BY <3>1, <3>3, <3>4 DEF DraftDue
    <2> QED
      BY <2>1, <2>2
  <1>15. kind = "sample" => Begins(device.inputs["target"], Len(device.sampled) + 1, 1)
    BY <1>4, <1>5, <1>8, <1>11
  <1>16. kind \in Passes => /\ x \in PassOp /\ Fits(runner, x) /\ x.op = kind
                            /\ Begins(inp[x.inputs], x.b[1], x.b[2])
    BY <1>8, <1>11 DEF Ops, Copy, Sample, Passes
  <1> QED
    BY <1>1, <1>2, <1>4, <1>5, <1>7, <1>11, <1>13, <1>14, <1>15, <1>16

-----------------------------------------------------------------------------
(* x is the pass of step s, over n tokens in rows of q, and reads them.    *)
ReadsStep(x, runner, inp, s, n, q, rows) ==
    /\ s \in Nat /\ n \in Nat \ {0} /\ q \in Nat \ {0} /\ rows \in Nat \ {0}
    /\ x.b[1] = s /\ x.b[2] = n /\ x.q = q /\ n = rows * q /\ n \div q = rows
    /\ SubSeq(inp[x.inputs], 1, n) = Own(s, n)
    /\ x.op = "graph" => q = runner.graph_query_len /\ \E size \in runner.graph_bs : rows <= size
    /\ x.op = "draft" => q = 1 /\ \E size \in runner.draft_bs : rows <= size
    /\ x.op = "piecewise" => \E size \in runner.piecewise_bs : n <= size

(* The inputs a pass reads are its step's, in rows of q tokens.            *)
LEMMA PassInputs ==
    ASSUME NEW x \in PassOp, NEW runner, Fits(runner, x), NEW inp \in [Owners -> Buffer],
           Begins(inp[x.inputs], x.b[1], x.b[2])
    PROVE  \E s, n, q, rows : ReadsStep(x, runner, inp, s, n, q, rows)
  <1>1. PICK s \in Nat, n \in Nat \ {0}, q \in Nat \ {0} : x.b[1] = s /\ x.b[2] = n /\ x.q = q
    BY DEF PassOp
  <1>2. PICK rows \in Nat \ {0} :
            /\ n = rows * q
            /\ x.op = "graph" => q = runner.graph_query_len /\ \E size \in runner.graph_bs : rows <= size
            /\ x.op = "draft" => q = 1 /\ \E size \in runner.draft_bs : rows <= size
    BY <1>1 DEF Fits
  <1>3. x.op = "piecewise" => \E size \in runner.piecewise_bs : n <= size
    BY <1>1 DEF Fits
  <1>4. n \div q = rows
    BY <1>2, RowStarts
  <1>5. SubSeq(inp[x.inputs], 1, n) = Own(s, n)
    <2>1. inp[x.inputs] \in Buffer
      BY DEF PassOp
    <2> QED
      BY <1>1, <2>1, InputsAreOwn
  <1>6. ReadsStep(x, runner, inp, s, n, q, rows)
    BY <1>1, <1>2, <1>3, <1>4, <1>5 DEF ReadsStep
  <1> QED
    BY <1>6

(* A pass that wrote and attended what its step is.                        *)
LEMMA RanIsOwn ==
    ASSUME NEW x, NEW pass, NEW r, r = Ran(x, pass), NEW s, NEW n, NEW q,
           x.b[1] = s, x.b[2] = n, x.q = q, pass.writes = Writes(s, n), pass.attends = Attends(s, n, q)
    PROVE  RanOwn(r)
  <1>1. r.b = x.b /\ r.q = x.q /\ r.writes = pass.writes /\ r.attends = pass.attends
    BY DEF Ran
  <1> QED
    BY <1>1 DEF RanOwn

(* The target's graph runs over the rows it was captured with. *)
LEMMA RunGraphApart ==
    ASSUME StreamInv, RunGraph
    PROVE  StreamInv'
  <1>1. PICK x : x = Head(stream)
    OBVIOUS
  <1>2. PICK runner : runner = setup
    OBVIOUS
  <1>3. PICK inp : inp = device.inputs
    OBVIOUS
  <1>4. PICK g0 : g0 = device.graph
    OBVIOUS
  <1>5. PICK g : g = GraphInputs(g0, SubSeq(inp[x.inputs], 1, x.b[2]), x.q)
    OBVIOUS
  <1>6. PICK size : size = Fitting(runner.graph_bs, x.b[2] \div x.q)
    OBVIOUS
  <1>7. /\ Running("graph") /\ device' = [device EXCEPT !.graph = g]
        /\ ran' = Ran(x, Pass(g, size * x.q, size))
        /\ UNCHANGED <<setup, host, pinned, copying, read>>
    BY <1>1, <1>2, <1>3, <1>4, <1>5, <1>6 DEF RunGraph, Inputs
  <1>8. DOMAIN device = DeviceFields /\ runner \in Runners /\ inp \in [Owners -> Buffer]
    BY <1>2, <1>3 DEF StreamInv, DeviceShape
  <1>9. /\ DOMAIN device' = DeviceFields /\ device'.inputs = device.inputs /\ device'.graph = g
        /\ device'.draft = device.draft /\ device'.padded = device.padded
        /\ device'.sampled = device.sampled
    BY <1>7, <1>8 DEF DeviceFields
  <1>10. /\ Lined(setup, stream, pinned, device.inputs, Len(device.sampled) + 1, host.launched + 1)'
         /\ DraftDue(setup, host, stream, pinned, device.inputs)'
         /\ x \in PassOp /\ Fits(runner, x) /\ x.op = "graph"
         /\ Begins(inp[x.inputs], x.b[1], x.b[2])
    <2>1. PICK kind \in Passes : kind = "graph"
      BY DEF Passes
    <2>2. Running(kind) /\ kind # "sample"
      BY <1>7, <2>1
    <2> QED
      BY <1>1, <1>2, <1>3, <1>7, <1>9, <2>1, <2>2, RunFacts
  <1>11. PICK s, n, q, rows : ReadsStep(x, runner, inp, s, n, q, rows)
    BY <1>8, <1>10, PassInputs
  <1>11a. /\ s \in Nat /\ n \in Nat \ {0} /\ q \in Nat \ {0} /\ rows \in Nat \ {0}
              /\ x.b[1] = s /\ x.b[2] = n /\ x.q = q /\ n = rows * q /\ n \div q = rows
              /\ SubSeq(inp[x.inputs], 1, n) = Own(s, n)
              /\ q = runner.graph_query_len /\ \E fit \in runner.graph_bs : rows <= fit
    BY <1>10, <1>11 DEF ReadsStep
  <1>12. PICK top \in Nat : top = Top(runner.graph_bs) /\ \A fit \in runner.graph_bs : fit <= top
    BY <1>8, RunnerSizes, TopBounds
  <1>13. size \in Nat /\ rows <= size /\ size <= top
    <2>1. Sizes(runner.graph_bs)
      BY <1>8, RunnerSizes
    <2>2. size \in runner.graph_bs /\ rows <= size
      BY <1>6, <1>11a, <2>1, FittingFits
    <2> QED
      BY <1>12, <2>1, <2>2 DEF Sizes
  <1>14. GraphShape(g0, top, q)
    BY <1>2, <1>4, <1>11a, <1>12 DEF StreamInv, DeviceShape
  <1>15. g = GraphInputs(g0, Own(s, n), q)
    BY <1>5, <1>11a
  <1>16. /\ GraphShape(g, top, q)
         /\ Pass(g, size * q, size).writes = Writes(s, n)
         /\ Pass(g, size * q, size).attends = Attends(s, n, q)
    <2>1. GraphCall(g0, s, n, q, rows, size, top)
      BY <1>11a, <1>12, <1>13, <1>14 DEF GraphCall
    <2>2. GraphOwn(g, s, n, q, size, top)
      BY <1>15, <2>1, GraphCallIsOwn
    <2> QED
      BY <2>2 DEF GraphOwn
  <1>17. RanOwn(ran')
    <2>1. PICK pass : pass = Pass(g, size * q, size)
      OBVIOUS
    <2>2. PICK r : r = ran'
      OBVIOUS
    <2>3. r = Ran(x, pass)
      BY <1>7, <1>11a, <2>1, <2>2
    <2>4. RanOwn(r)
      BY <1>11a, <1>16, <2>1, <2>3, RanIsOwn
    <2> QED
      BY <2>2, <2>4
  <1>18. DeviceShape(setup, device)'
    BY <1>2, <1>7, <1>9, <1>11a, <1>12, <1>16 DEF StreamInv, DeviceShape
  <1> QED
    BY <1>7, <1>10, <1>17, <1>18 DEF StreamInv

(* The drafter's graph runs, one token per row. *)
LEMMA RunDraftApart ==
    ASSUME StreamInv, RunDraft
    PROVE  StreamInv'
  <1>1. PICK x : x = Head(stream)
    OBVIOUS
  <1>2. PICK runner : runner = setup
    OBVIOUS
  <1>3. PICK inp : inp = device.inputs
    OBVIOUS
  <1>4. PICK g0 : g0 = device.draft
    OBVIOUS
  <1>5. PICK g : g = GraphInputs(g0, SubSeq(inp[x.inputs], 1, x.b[2]), 1)
    OBVIOUS
  <1>6. PICK size : size = Fitting(runner.draft_bs, x.b[2])
    OBVIOUS
  <1>7. /\ Running("draft") /\ device' = [device EXCEPT !.draft = g]
        /\ ran' = Ran(x, Pass(g, size, size))
        /\ UNCHANGED <<setup, host, pinned, copying, read>>
    BY <1>1, <1>2, <1>3, <1>4, <1>5, <1>6 DEF RunDraft, Inputs
  <1>8. DOMAIN device = DeviceFields /\ runner \in Runners /\ inp \in [Owners -> Buffer]
    BY <1>2, <1>3 DEF StreamInv, DeviceShape
  <1>9. /\ DOMAIN device' = DeviceFields /\ device'.inputs = device.inputs /\ device'.draft = g
        /\ device'.graph = device.graph /\ device'.padded = device.padded
        /\ device'.sampled = device.sampled
    BY <1>7, <1>8 DEF DeviceFields
  <1>10. /\ Lined(setup, stream, pinned, device.inputs, Len(device.sampled) + 1, host.launched + 1)'
         /\ DraftDue(setup, host, stream, pinned, device.inputs)'
         /\ x \in PassOp /\ Fits(runner, x) /\ x.op = "draft"
         /\ Begins(inp[x.inputs], x.b[1], x.b[2])
    <2>1. PICK kind \in Passes : kind = "draft"
      BY DEF Passes
    <2>2. Running(kind) /\ kind # "sample"
      BY <1>7, <2>1
    <2> QED
      BY <1>1, <1>2, <1>3, <1>7, <1>9, <2>1, <2>2, RunFacts
  <1>11. PICK s, n, q, rows : ReadsStep(x, runner, inp, s, n, q, rows)
    BY <1>8, <1>10, PassInputs
  <1>11a. /\ s \in Nat /\ n \in Nat \ {0} /\ q \in Nat \ {0} /\ rows \in Nat \ {0}
              /\ x.b[1] = s /\ x.b[2] = n /\ x.q = q /\ n = rows * q /\ n \div q = rows
              /\ SubSeq(inp[x.inputs], 1, n) = Own(s, n)
              /\ q = 1 /\ \E fit \in runner.draft_bs : rows <= fit
    BY <1>10, <1>11 DEF ReadsStep
  <1>12. PICK top \in Nat : top = Top(runner.draft_bs) /\ \A fit \in runner.draft_bs : fit <= top
    BY <1>8, RunnerSizes, TopBounds
  <1>13. size \in Nat /\ rows <= size /\ size <= top /\ size * q = size
    <2>1. Sizes(runner.draft_bs)
      BY <1>8, RunnerSizes
    <2>2. n = rows
      BY <1>11a
    <2>3. size \in runner.draft_bs /\ rows <= size
      BY <1>6, <1>11a, <2>1, <2>2, FittingFits
    <2>4. size \in Nat
      BY <2>1, <2>3 DEF Sizes
    <2> QED
      BY <1>11a, <1>12, <2>3, <2>4
  <1>14. GraphShape(g0, top, q)
    BY <1>2, <1>4, <1>11a, <1>12 DEF StreamInv, DeviceShape
  <1>15. g = GraphInputs(g0, Own(s, n), q)
    BY <1>5, <1>11a
  <1>16. /\ GraphShape(g, top, q)
         /\ Pass(g, size * q, size).writes = Writes(s, n)
         /\ Pass(g, size * q, size).attends = Attends(s, n, q)
    <2>1. GraphCall(g0, s, n, q, rows, size, top)
      BY <1>11a, <1>12, <1>13, <1>14 DEF GraphCall
    <2>2. GraphOwn(g, s, n, q, size, top)
      BY <1>15, <2>1, GraphCallIsOwn
    <2> QED
      BY <2>2 DEF GraphOwn
  <1>17. RanOwn(ran')
    <2>1. PICK pass : pass = Pass(g, size * q, size)
      OBVIOUS
    <2>2. PICK r : r = ran'
      OBVIOUS
    <2>3. r = Ran(x, pass)
      BY <1>7, <1>13, <2>1, <2>2
    <2>4. RanOwn(r)
      BY <1>11a, <1>16, <2>1, <2>3, RanIsOwn
    <2> QED
      BY <2>2, <2>4
  <1>18. DeviceShape(setup, device)'
    BY <1>2, <1>7, <1>9, <1>11a, <1>12, <1>16 DEF StreamInv, DeviceShape
  <1> QED
    BY <1>7, <1>10, <1>17, <1>18 DEF StreamInv

(* A piecewise graph pads the ids alone. *)
LEMMA RunPiecewiseApart ==
    ASSUME StreamInv, RunPiecewise
    PROVE  StreamInv'
  <1>1. PICK x : x = Head(stream)
    OBVIOUS
  <1>2. PICK runner : runner = setup
    OBVIOUS
  <1>3. PICK inp : inp = device.inputs
    OBVIOUS
  <1>4. PICK values : values = SubSeq(inp[x.inputs], 1, x.b[2])
    OBVIOUS
  <1>5. PICK o : o = x.owner
    OBVIOUS
  <1>6. PICK ids : ids = Overlay(device.padded[o], values)
    OBVIOUS
  <1>7. /\ Running("piecewise") /\ device' = [device EXCEPT !.padded[o] = ids]
        /\ ran' = Ran(x, DirectPass(values, ids, x.q))
        /\ UNCHANGED <<setup, host, pinned, copying, read>>
    BY <1>1, <1>3, <1>4, <1>5, <1>6 DEF RunPiecewise, Inputs
  <1>8. /\ DOMAIN device = DeviceFields /\ runner \in Runners /\ inp \in [Owners -> Buffer]
        /\ DOMAIN device.padded = Owners
    BY <1>2, <1>3 DEF StreamInv, DeviceShape
  <1>9. /\ DOMAIN device' = DeviceFields /\ device'.inputs = device.inputs
        /\ device'.padded = [device.padded EXCEPT ![o] = ids]
        /\ device'.graph = device.graph /\ device'.draft = device.draft
        /\ device'.sampled = device.sampled
    BY <1>7, <1>8 DEF DeviceFields
  <1>10. /\ Lined(setup, stream, pinned, device.inputs, Len(device.sampled) + 1, host.launched + 1)'
         /\ DraftDue(setup, host, stream, pinned, device.inputs)'
         /\ x \in PassOp /\ Fits(runner, x) /\ x.op = "piecewise"
         /\ Begins(inp[x.inputs], x.b[1], x.b[2])
    <2>1. PICK kind \in Passes : kind = "piecewise"
      BY DEF Passes
    <2>2. Running(kind) /\ kind # "sample"
      BY <1>7, <2>1
    <2> QED
      BY <1>1, <1>2, <1>3, <1>7, <1>9, <2>1, <2>2, RunFacts
  <1>11. PICK s, n, q, rows : ReadsStep(x, runner, inp, s, n, q, rows)
    BY <1>8, <1>10, PassInputs
  <1>11a. /\ s \in Nat /\ n \in Nat \ {0} /\ q \in Nat \ {0} /\ rows \in Nat \ {0}
              /\ x.b[1] = s /\ x.b[2] = n /\ x.q = q /\ n = rows * q /\ n \div q = rows
              /\ SubSeq(inp[x.inputs], 1, n) = Own(s, n)
              /\ \E fit \in runner.piecewise_bs : n <= fit
    BY <1>10, <1>11 DEF ReadsStep
  <1>12. PICK top \in Nat : top = Top(runner.piecewise_bs) /\ n <= top
    <2>1. Sizes(runner.piecewise_bs)
      BY <1>8, RunnerSizes
    <2>2. Top(runner.piecewise_bs) \in Nat /\ \A fit \in runner.piecewise_bs : fit <= Top(runner.piecewise_bs)
      BY <2>1, TopBounds
    <2>3. PICK fit \in runner.piecewise_bs : n <= fit
      BY <1>11a
    <2>4. fit \in Nat
      BY <2>1 DEF Sizes
    <2> QED
      BY <1>11a, <2>2, <2>3, <2>4
  <1>13. values = Own(s, n) /\ DOMAIN values = 1..n /\ o \in Owners
    BY <1>4, <1>5, <1>10, <1>11a, OwnIsBuffer DEF PassOp
  <1>14. DOMAIN device.padded[o] = 1..top
    BY <1>2, <1>12, <1>13 DEF StreamInv, DeviceShape
  <1>15. DOMAIN ids = 1..top /\ \A j \in 1..n : ids[j] = values[j]
    <2>1. \A j \in 1..n : j \in 1..top
      BY <1>11a, <1>12
    <2> QED
      BY <1>6, <1>13, <1>14, <2>1 DEF Overlay
  <1>16. /\ DirectPass(Own(s, n), ids, q).writes = Writes(s, n)
         /\ DirectPass(Own(s, n), ids, q).attends = Attends(s, n, q)
    <2>1. \A j \in 1..n : ids[j] = Own(s, n)[j]
      BY <1>13, <1>15
    <2> QED
      BY <1>11a, <2>1, DirectPassIsOwn
  <1>17. RanOwn(ran')
    <2>1. PICK pass : pass = DirectPass(values, ids, q)
      OBVIOUS
    <2>2. PICK r : r = ran'
      OBVIOUS
    <2>3. r = Ran(x, pass)
      BY <1>7, <1>11a, <2>1, <2>2
    <2>4. RanOwn(r)
      <3>1. pass.writes = Writes(s, n) /\ pass.attends = Attends(s, n, q)
        BY <1>13, <1>16, <2>1
      <3> QED
        BY <1>11a, <2>3, <3>1, RanIsOwn
    <2> QED
      BY <2>2, <2>4
  <1>18. DeviceShape(setup, device)'
    <2>1. DOMAIN device'.padded = Owners /\ \A p \in Owners : DOMAIN device'.padded[p] = 1..Top(runner.piecewise_bs)
      BY <1>2, <1>8, <1>9, <1>12, <1>13, <1>15 DEF StreamInv, DeviceShape
    <2> QED
      BY <1>2, <1>7, <1>9, <2>1 DEF StreamInv, DeviceShape
  <1> QED
    BY <1>7, <1>10, <1>17, <1>18 DEF StreamInv

(* A pass over the step's own inputs. *)
LEMMA RunEagerApart ==
    ASSUME StreamInv, RunEager
    PROVE  StreamInv'
  <1>1. PICK x : x = Head(stream)
    OBVIOUS
  <1>2. PICK runner : runner = setup
    OBVIOUS
  <1>3. PICK inp : inp = device.inputs
    OBVIOUS
  <1>4. PICK values : values = SubSeq(inp[x.inputs], 1, x.b[2])
    OBVIOUS
  <1>5. /\ Running("eager") /\ ran' = Ran(x, DirectPass(values, values, x.q))
        /\ UNCHANGED <<setup, host, pinned, copying, read, device>>
    BY <1>1, <1>3, <1>4 DEF RunEager, Inputs
  <1>6. inp \in [Owners -> Buffer]
    BY <1>3 DEF StreamInv, DeviceShape
  <1>7. /\ Lined(setup, stream, pinned, device.inputs, Len(device.sampled) + 1, host.launched + 1)'
        /\ DraftDue(setup, host, stream, pinned, device.inputs)'
        /\ x \in PassOp /\ Fits(runner, x) /\ x.op = "eager"
        /\ Begins(inp[x.inputs], x.b[1], x.b[2])
    <2>1. PICK kind \in Passes : kind = "eager"
      BY DEF Passes
    <2>2. Running(kind) /\ kind # "sample" /\ device'.inputs = device.inputs /\ device'.sampled = device.sampled
      BY <1>5, <2>1
    <2> QED
      BY <1>1, <1>2, <1>3, <1>5, <2>1, <2>2, RunFacts
  <1>8. PICK s, n, q, rows : ReadsStep(x, runner, inp, s, n, q, rows)
    BY <1>6, <1>7, PassInputs
  <1>8a. /\ s \in Nat /\ n \in Nat \ {0} /\ q \in Nat \ {0} /\ rows \in Nat \ {0}
              /\ x.b[1] = s /\ x.b[2] = n /\ x.q = q /\ n = rows * q
              /\ SubSeq(inp[x.inputs], 1, n) = Own(s, n)
    BY <1>7, <1>8 DEF ReadsStep
  <1>9. values = Own(s, n)
    BY <1>4, <1>8a
  <1>10. /\ DirectPass(Own(s, n), values, q).writes = Writes(s, n)
         /\ DirectPass(Own(s, n), values, q).attends = Attends(s, n, q)
    BY <1>8a, <1>9, DirectPassIsOwn
  <1>11. RanOwn(ran')
    <2>1. PICK pass : pass = DirectPass(values, values, q)
      OBVIOUS
    <2>2. PICK r : r = ran'
      OBVIOUS
    <2>3. r = Ran(x, pass)
      BY <1>5, <1>8a, <2>1, <2>2
    <2>4. RanOwn(r)
      BY <1>8a, <1>9, <1>10, <2>1, <2>3, RanIsOwn
    <2> QED
      BY <2>2, <2>4
  <1> QED
    BY <1>5, <1>7, <1>11 DEF StreamInv

(* A sample ends its step: the next operation is of the next step. *)
LEMMA RunSampleApart ==
    ASSUME StreamInv, RunSample
    PROVE  StreamInv'
  <1>1. PICK d : d = device.sampled
    OBVIOUS
  <1>2. PICK v : v = device.inputs["target"][1][1]
    OBVIOUS
  <1>3. /\ Running("sample") /\ device' = [device EXCEPT !.sampled = Append(d, v)]
        /\ UNCHANGED <<setup, host, pinned, copying, read, ran>>
    BY <1>1, <1>2 DEF RunSample
  <1>4. DOMAIN device = DeviceFields /\ d \in Seq(Nat) /\ \A s \in 1..Len(d) : d[s] = s
    BY <1>1 DEF StreamInv, DeviceShape
  <1>5. stream # << >> /\ Begins(device.inputs["target"], Len(d) + 1, 1)
    <2>1. Len(d) + 1 \in Nat
      BY <1>4
    <2>2. PICK runner : runner = setup
      OBVIOUS
    <2>3. PICK str : str = stream
      OBVIOUS
    <2>4. PICK pin : pin = pinned
      OBVIOUS
    <2>5. PICK inp : inp = device.inputs
      OBVIOUS
    <2>6. PICK next : next = host.launched + 1
      OBVIOUS
    <2>7. Lined(runner, str, pin, inp, Len(d) + 1, next)
      BY <1>1, <2>2, <2>3, <2>4, <2>5, <2>6 DEF StreamInv
    <2>8. str # << >> /\ Head(str).op = "sample"
      BY <1>3, <2>3 DEF Running
    <2>9. Begins(inp["target"], Len(d) + 1, 1)
      BY <2>7, <2>8, Pop
    <2> QED
      BY <2>3, <2>5, <2>8, <2>9
  <1>6. v = Len(d) + 1
    <2>1. device.inputs["target"][1] = <<Len(d) + 1, 1>>
      BY <1>5 DEF Begins
    <2> QED
      BY <1>2, <2>1
  <1>7. PICK e : e = Append(d, v)
    OBVIOUS
  <1>8. /\ DOMAIN device' = DeviceFields /\ device'.inputs = device.inputs
        /\ device'.padded = device.padded /\ device'.sampled = e
        /\ device'.graph = device.graph /\ device'.draft = device.draft
    BY <1>3, <1>4, <1>7 DEF DeviceFields
  <1>9. e \in Seq(Nat) /\ Len(e) = Len(d) + 1 /\ \A s \in 1..Len(e) : e[s] = s
    <2>1. v \in Nat
      BY <1>4, <1>6
    <2>2. /\ e \in Seq(Nat) /\ Len(e) = Len(d) + 1 /\ e[Len(d) + 1] = v
          /\ \A i \in 1..Len(d) : e[i] = d[i]
      BY <1>4, <1>7, <2>1, AppendProperties
    <2>3. \A s \in 1..Len(e) : s \in 1..Len(d) \/ s = Len(d) + 1
      BY <1>4, <2>2
    <2> QED
      BY <1>4, <1>6, <2>2, <2>3
  <1>10. DeviceShape(setup, device)'
    BY <1>3, <1>8, <1>9 DEF StreamInv, DeviceShape
  <1>11. /\ Lined(setup, stream, pinned, device.inputs, Len(device.sampled) + 1, host.launched + 1)'
         /\ DraftDue(setup, host, stream, pinned, device.inputs)'
    <2>1. PICK kind : kind = "sample"
      OBVIOUS
    <2>2. /\ kind \in Passes \cup {"sample"} /\ Running(kind)
          /\ IF kind = "sample" THEN Len(device'.sampled) = Len(device.sampled) + 1
             ELSE device'.sampled = device.sampled
      BY <1>1, <1>3, <1>8, <1>9, <2>1
    <2> QED
      BY <1>3, <1>8, <2>2, RunFacts
  <1> QED
    BY <1>3, <1>10, <1>11 DEF StreamInv

(* Tokens come back in the order the steps were launched. *)
LEMMA ToListApart ==
    ASSUME StreamInv, ToList
    PROVE  StreamInv'
  <1>1. PICK c : c = copying
    OBVIOUS
  <1>2. PICK k : k = host.read
    OBVIOUS
  <1>3. PICK rd : rd = read
    OBVIOUS
  <1>4. /\ DOMAIN host = HostFields /\ host.launched \in Nat /\ k \in Nat
        /\ c \in Seq(Nat) /\ k + Len(c) = host.launched /\ \A i \in 1..Len(c) : c[i] = k + i
        /\ rd \in Seq(Nat) /\ Len(rd) = k /\ \A s \in 1..Len(rd) : rd[s] = s
    BY <1>1, <1>2, <1>3 DEF StreamInv, HostInOrder
  <1>5. c # << >> /\ Len(device.sampled) >= Head(c) /\ copying' = Tail(c)
    BY <1>1 DEF ToList, Sampled
  <1>6. Len(c) \in Nat /\ Len(c) >= 1 /\ Head(c) = k + 1
    BY <1>4, <1>5
  <1>7. device.sampled[Head(c)] = k + 1
    <2>1. device.sampled \in Seq(Nat) /\ \A s \in 1..Len(device.sampled) : device.sampled[s] = s
      BY DEF StreamInv, DeviceShape
    <2>2. Head(c) \in 1..Len(device.sampled)
      BY <1>4, <1>5, <1>6, <2>1
    <2> QED
      BY <1>6, <2>1, <2>2
  <1>8. /\ read' = Append(rd, k + 1) /\ host' = [host EXCEPT !.read = k + 1]
        /\ UNCHANGED <<setup, pinned, stream, device, ran>>
    BY <1>1, <1>2, <1>3, <1>7 DEF ToList
  <1>9. /\ DOMAIN host' = HostFields /\ host'.launched = host.launched
        /\ host'.read = k + 1 /\ host'.drafts = host.drafts
    BY <1>4, <1>8 DEF HostFields
  <1>10. PICK e : e = Append(rd, k + 1)
    OBVIOUS
  <1>11. e \in Seq(Nat) /\ Len(e) = k + 1 /\ \A s \in 1..Len(e) : e[s] = s
    <2>1. /\ e \in Seq(Nat) /\ Len(e) = Len(rd) + 1 /\ e[Len(rd) + 1] = k + 1
          /\ \A i \in 1..Len(rd) : e[i] = rd[i]
      BY <1>4, <1>10, AppendProperties
    <2>2. \A s \in 1..Len(e) : s \in 1..Len(rd) \/ s = Len(rd) + 1
      BY <1>4, <2>1
    <2> QED
      BY <1>4, <2>1, <2>2
  <1>12. PICK t : t = Tail(c)
    OBVIOUS
  <1>13. /\ t \in Seq(Nat) /\ (k + 1) + Len(t) = host.launched
         /\ \A i \in 1..Len(t) : t[i] = (k + 1) + i
    <2>1. t \in Seq(Nat) /\ Len(t) = Len(c) - 1 /\ \A i \in 1..Len(t) : t[i] = c[i + 1]
      BY <1>4, <1>5, <1>12, HeadTailProperties
    <2>2. ASSUME NEW i \in 1..Len(t) PROVE t[i] = (k + 1) + i
      <3>1. i + 1 \in 1..Len(c)
        BY <1>6, <2>1
      <3>2. c[i + 1] = k + (i + 1)
        BY <1>4, <3>1
      <3> QED
        BY <1>4, <2>1, <3>2
    <2> QED
      BY <1>4, <1>6, <2>1, <2>2
  <1>14. HostInOrder(host, copying, read)'
    BY <1>4, <1>5, <1>8, <1>9, <1>10, <1>11, <1>12, <1>13 DEF HostInOrder
  <1>15. DraftDue(setup, host, stream, pinned, device.inputs)'
    BY <1>8, <1>9 DEF StreamInv, DraftDue
  <1>16. Lined(setup, stream, pinned, device.inputs, Len(device.sampled) + 1, host.launched + 1)'
    BY <1>8, <1>9 DEF StreamInv
  <1> QED
    BY <1>8, <1>14, <1>15, <1>16 DEF StreamInv

(* Every step of host and device keeps the invariant. *)
LEMMA StepsApart == StreamInv /\ [StreamNext]_streamVars => StreamInv'
  <1> SUFFICES ASSUME StreamInv, [StreamNext]_streamVars PROVE StreamInv'
    OBVIOUS
  <1>1. CASE UNCHANGED streamVars
    BY <1>1 DEF streamVars, StreamInv
  <1> QED
    BY <1>1, PrepareAndRunApart, ProposeApart, RunCopyApart, RunGraphApart, RunDraftApart,
       RunPiecewiseApart, RunEagerApart, RunSampleApart, ToListApart DEF StreamNext

(* The invariant is strong enough. *)
LEMMA ApartInv == StreamInv => StepsKeepApart
  <1> SUFFICES ASSUME StreamInv PROVE StepsKeepApart
    OBVIOUS
  <1>1. \A s \in DOMAIN read : read[s] = s
    <2>1. read \in Seq(Nat) /\ \A s \in 1..Len(read) : read[s] = s
      BY DEF StreamInv, HostInOrder
    <2>2. DOMAIN read = 1..Len(read)
      BY <2>1
    <2> QED
      BY <2>1, <2>2
  <1>2. ASSUME ran # << >>
        PROVE  LET own == [j \in 1..ran.b[2] |-> <<ran.b[1], j>>]
                   firsts == FirstOf(own, ran.q)
               IN  /\ ran.writes = {<<own[j], own[j]>> : j \in DOMAIN own}
                   /\ ran.attends = {<<row, firsts[row], firsts[row]>> : row \in DOMAIN firsts}
    <2>1. RanOwn(ran)
      BY <1>2 DEF StreamInv
    <2> QED
      BY <2>1 DEF RanOwn, Writes, Attends, Own
  <1> QED
    BY <1>1, <1>2 DEF StepsKeepApart

(* Whatever the runner's configuration, batch sizes and graph modes, and   *)
(* however far the device lags behind the host, a pass writes and attends  *)
(* its own step's tokens only, and the tokens read back for a step are     *)
(* that step's.                                                            *)
THEOREM StepsStayApart == StreamSpec => []StepsKeepApart
  <1>1. StreamInit => StreamInv
    BY StartsApart
  <1>2. StreamInv /\ [StreamNext]_streamVars => StreamInv'
    BY StepsApart
  <1>3. StreamInv => StepsKeepApart
    BY ApartInv
  <1> QED
    BY <1>1, <1>2, <1>3, PTL DEF StreamSpec
=============================================================================
