------------------------- MODULE KVBlockPool_proofs -------------------------
(***************************************************************************)
(* The pool's invariants, for any blocks, sequences and prefixes.          *)
(***************************************************************************)
EXTENDS KVBlockPool, FiniteSetTheorems, TLAPS

(* The inductive invariant: each part needs the others. A hit is taken     *)
(* with a label only because the index is sound; a fresh block has no      *)
(* second holder only because used is exactly what is held.                *)
IInv ==
    /\ TypeOK
    /\ RefCountsHolders
    /\ IndexSound
    /\ SharedIsPublished

(* What the pool assumes of its constants. *)
LEMMA Constants == IsFiniteSet(Seqs) /\ None \notin Blocks /\ None \notin Hashes
  BY PoolAssumption DEF PoolAssumption

(* The set of sequences is finite, so a block has finitely many holders. *)
LEMMA HoldersFinite ==
    ASSUME NEW b
    PROVE  IsFiniteSet(Holders(b)) /\ Cardinality(Holders(b)) \in Nat
  <1>1. Holders(b) \subseteq Seqs
    BY DEF Holders
  <1>2. IsFiniteSet(Holders(b))
    BY <1>1, FS_Subset, Constants
  <1> QED
    BY <1>2, FS_CardinalityType

(* The reference count of a block that one more sequence, or one sequence  *)
(* less, holds.                                                            *)
LEMMA CardinalityAdd ==
    ASSUME NEW S, IsFiniteSet(S), NEW x, x \notin S
    PROVE  Cardinality(S \cup {x}) = Cardinality(S) + 1
  BY FS_AddElement

(* Taking one member out of a finite set takes one off its cardinality.     *)
LEMMA CardinalityRemove ==
    ASSUME NEW S, IsFiniteSet(S), NEW x, x \in S
    PROVE  Cardinality(S \ {x}) = Cardinality(S) - 1
  BY FS_RemoveElement

(* A block counts its references as long as somebody holds it. *)
LEMMA UsedIsCounted ==
    ASSUME IInv, NEW b \in Blocks
    PROVE  /\ b \in used <=> ref_count[b] > 0
           /\ b \in used <=> \E s \in Seqs : b \in holds[s]
  <1>1. /\ ref_count[b] = Cardinality(Holders(b))
        /\ b \in used <=> Holders(b) # {}
    BY DEF IInv, RefCountsHolders
  <1>2. IsFiniteSet(Holders(b)) /\ Cardinality(Holders(b)) \in Nat
    BY HoldersFinite
  <1>3. Cardinality(Holders(b)) = 0 <=> Holders(b) = {}
    BY <1>2, FS_EmptySet
  <1>4. Holders(b) # {} <=> \E s \in Seqs : b \in holds[s]
    BY DEF Holders
  <1> QED
    BY <1>1, <1>2, <1>3, <1>4

-----------------------------------------------------------------------------
(* Nobody holds a block at the start. *)
LEMMA InitIInv == Init => IInv
  <1> SUFFICES ASSUME Init PROVE IInv
    OBVIOUS
  <1>1. TypeOK
    BY Constants DEF Init, TypeOK
  <1>2. \A b \in Blocks : Holders(b) = {}
    BY DEF Init, Holders
  <1>3. RefCountsHolders
    BY <1>2, FS_EmptySet DEF Init, RefCountsHolders
  <1>4. IndexSound
    BY DEF Init, IndexSound
  <1>5. SharedIsPublished
    BY <1>2 DEF SharedIsPublished
  <1> QED
    BY <1>1, <1>3, <1>4, <1>5 DEF IInv

(* allocate keeps the invariant. *)
LEMMA AllocateIInv ==
    ASSUME IInv, NEW s \in Seqs, NEW hits \in SUBSET Blocks, NEW F \in SUBSET Blocks,
           Allocate(s, hits, F)
    PROVE  IInv'
  <1> USE DEF IInv
  <1>1. \A b \in hits : label[b] # None
    BY Constants DEF Allocate, IndexSound, TypeOK
  <1>2. TypeOK'
    <2>1. holds' \in [Seqs -> SUBSET Blocks]
      BY DEF Allocate, TypeOK
    <2>2. ref_count' \in [Blocks -> Nat]
      BY DEF Allocate, TypeOK
    <2>3. used' \in SUBSET Blocks
      BY DEF Allocate, TypeOK
    <2>4. label' \in [Blocks -> Hashes \cup {None}]
      BY DEF Allocate, Reset, TypeOK
    <2>5. index' \in [Hashes -> Blocks \cup {None}]
      BY DEF Allocate, Reset, TypeOK
    <2> QED
      BY <2>1, <2>2, <2>3, <2>4, <2>5 DEF TypeOK
  <1>3. \A b \in Blocks : s \notin Holders(b)
    BY DEF Allocate, Holders
  <1>4. \A b \in Blocks : Holders(b)' =
            IF b \in hits \cup F THEN Holders(b) \cup {s} ELSE Holders(b)
    BY DEF Allocate, Holders, TypeOK
  <1>5. RefCountsHolders'
    <2> SUFFICES ASSUME NEW b \in Blocks
                 PROVE  /\ ref_count'[b] = Cardinality(Holders(b)')
                        /\ b \in used' <=> Holders(b)' # {}
      BY DEF RefCountsHolders
    <2>1. /\ ref_count[b] = Cardinality(Holders(b))
          /\ b \in used <=> Holders(b) # {}
      BY DEF RefCountsHolders
    <2>2. CASE b \in hits \cup F
      <3>1. Cardinality(Holders(b)') = Cardinality(Holders(b)) + 1
        BY <1>3, <1>4, <2>2, HoldersFinite, CardinalityAdd
      <3>2. b \notin used => Cardinality(Holders(b)) = 0
        BY <2>1, FS_EmptySet
      <3>3. ref_count'[b] = Cardinality(Holders(b)) + 1
        BY <2>1, <2>2, <3>2 DEF Allocate
      <3>4. b \in used' /\ Holders(b)' # {}
        BY <1>4, <2>2 DEF Allocate
      <3> QED
        BY <3>1, <3>3, <3>4
    <2>3. CASE b \notin hits \cup F
      BY <1>4, <2>1, <2>3 DEF Allocate
    <2> QED
      BY <2>2, <2>3
  <1>6. IndexSound'
    BY Constants DEF Allocate, Reset, IndexSound, TypeOK
  <1>7. SharedIsPublished'
    <2> SUFFICES ASSUME NEW b \in Blocks, NEW t \in Holders(b)', NEW u \in Holders(b)', t # u
                 PROVE  label'[b] # None
      BY DEF SharedIsPublished
    <2>1. b \notin F
      <3>1. ASSUME b \in F PROVE FALSE
        <4>1. Holders(b) = {}
          BY <3>1 DEF Allocate, RefCountsHolders
        <4> QED
          BY <1>4, <3>1, <4>1
      <3> QED
        BY <3>1
    <2>2. label[b] # None
      BY <1>1, <1>4, <2>1 DEF SharedIsPublished
    <2> QED
      BY <2>1, <2>2 DEF Allocate, Reset
  <1> QED
    BY <1>2, <1>5, <1>6, <1>7

(* may_append keeps the invariant. *)
LEMMA MayAppendIInv ==
    ASSUME IInv, NEW s \in Seqs, NEW F \in SUBSET Blocks, MayAppend(s, F)
    PROVE  IInv'
  <1> USE DEF IInv
  <1>1. TypeOK'
    <2>1. holds' \in [Seqs -> SUBSET Blocks]
      BY DEF MayAppend, TypeOK
    <2>2. ref_count' \in [Blocks -> Nat]
      BY DEF MayAppend, TypeOK
    <2>3. used' \in SUBSET Blocks
      BY DEF MayAppend, TypeOK
    <2>4. label' \in [Blocks -> Hashes \cup {None}]
      BY DEF MayAppend, Reset, TypeOK
    <2>5. index' \in [Hashes -> Blocks \cup {None}]
      BY DEF MayAppend, Reset, TypeOK
    <2> QED
      BY <2>1, <2>2, <2>3, <2>4, <2>5 DEF TypeOK
  <1>2. \A b \in F : Holders(b) = {}
    BY DEF MayAppend, RefCountsHolders
  <1>3. \A b \in Blocks : Holders(b)' = IF b \in F THEN {s} ELSE Holders(b)
    <2> SUFFICES ASSUME NEW b \in Blocks
                 PROVE  Holders(b)' = IF b \in F THEN {s} ELSE Holders(b)
      OBVIOUS
    <2>1. CASE b \in F
      <3>1. \A t \in Seqs : b \notin holds[t]
        BY <1>2, <2>1 DEF Holders
      <3> QED
        BY <2>1, <3>1 DEF MayAppend, Holders, TypeOK
    <2>2. CASE b \notin F
      BY <2>2 DEF MayAppend, Holders, TypeOK
    <2> QED
      BY <2>1, <2>2
  <1>4. RefCountsHolders'
    BY <1>3, FS_Singleton DEF MayAppend, RefCountsHolders
  <1>5. IndexSound'
    BY Constants DEF MayAppend, Reset, IndexSound, TypeOK
  <1>6. SharedIsPublished'
    <2> SUFFICES ASSUME NEW b \in Blocks, NEW t \in Holders(b)', NEW u \in Holders(b)', t # u
                 PROVE  label'[b] # None
      BY DEF SharedIsPublished
    <2>1. b \notin F
      BY <1>3
    <2> QED
      BY <1>3, <2>1 DEF MayAppend, Reset, SharedIsPublished
  <1> QED
    BY <1>1, <1>4, <1>5, <1>6

(* deallocate keeps the invariant. *)
LEMMA DeallocateIInv ==
    ASSUME IInv, NEW s \in Seqs, Deallocate(s)
    PROVE  IInv'
  <1> USE DEF IInv
  <1>1. \A b \in Blocks : Holders(b)' = Holders(b) \ {s}
    BY DEF Deallocate, Holders, TypeOK
  <1>2. \A b \in Blocks : b \in holds[s] <=> s \in Holders(b)
    BY DEF Holders
  <1>3. ASSUME NEW b \in Blocks
        PROVE  /\ ref_count'[b] = Cardinality(Holders(b)')
               /\ b \in used' <=> Holders(b)' # {}
    <2>1. /\ ref_count[b] = Cardinality(Holders(b))
          /\ b \in used <=> Holders(b) # {}
      BY DEF RefCountsHolders
    <2>2. CASE b \in holds[s]
      <3>1. Cardinality(Holders(b)') = Cardinality(Holders(b)) - 1
        BY <1>1, <1>2, <2>2, HoldersFinite, CardinalityRemove
      <3>2. ref_count'[b] = Cardinality(Holders(b)')
        BY <2>1, <2>2, <3>1 DEF Deallocate
      <3>3. IsFiniteSet(Holders(b)')
        BY <1>1, HoldersFinite, FS_Subset
      <3>4. Holders(b)' = {} <=> Cardinality(Holders(b)') = 0
        BY <3>3, FS_EmptySet
      <3>5. b \in used' <=> ref_count[b] # 1
        BY <1>2, <2>1, <2>2 DEF Deallocate
      <3> QED
        BY <2>1, <3>1, <3>2, <3>4, <3>5, HoldersFinite
    <2>3. CASE b \notin holds[s]
      <3>1. Holders(b)' = Holders(b)
        BY <1>1, <1>2, <2>3
      <3> QED
        BY <2>1, <2>3, <3>1 DEF Deallocate
    <2> QED
      BY <2>2, <2>3
  <1>4. RefCountsHolders'
    BY <1>3 DEF RefCountsHolders
  <1>5. TypeOK'
    <2>1. \A b \in Blocks : ref_count'[b] \in Nat
      <3> SUFFICES ASSUME NEW b \in Blocks PROVE ref_count'[b] \in Nat
        OBVIOUS
      <3>1. IsFiniteSet(Holders(b)')
        BY <1>1, HoldersFinite, FS_Subset
      <3> QED
        BY <1>3, <3>1, FS_CardinalityType
    <2>2. ref_count' \in [Blocks -> Nat]
      BY <2>1 DEF Deallocate
    <2> QED
      BY <2>2 DEF Deallocate, TypeOK
  <1>6. IndexSound'
    BY DEF Deallocate, IndexSound
  <1>7. SharedIsPublished'
    BY <1>1 DEF Deallocate, SharedIsPublished
  <1> QED
    BY <1>4, <1>5, <1>6, <1>7

(* hash_blocks keeps the invariant. *)
LEMMA HashBlocksIInv ==
    ASSUME IInv, NEW s \in Seqs, NEW B \in SUBSET holds[s], NEW g \in [B -> Hashes],
           HashBlocks(s, B, g)
    PROVE  IInv'
  <1> USE DEF IInv
  <1>0. B \subseteq Blocks
    BY DEF TypeOK
  <1>1. ASSUME NEW p \in Hashes, NEW b \in B, g[b] = p
        PROVE  index'[p] \in B /\ g[index'[p]] = p
    BY <1>1 DEF HashBlocks
  <1>2. \A p \in Hashes : (\A b \in B : g[b] # p) => index'[p] = index[p]
    BY DEF HashBlocks
  <1>3. TypeOK'
    <2>1. label' \in [Blocks -> Hashes \cup {None}]
      BY <1>0 DEF HashBlocks, TypeOK
    <2>2. \A p \in Hashes : index'[p] \in Blocks \cup {None}
      BY <1>0, <1>1, <1>2 DEF TypeOK
    <2>3. index' \in [Hashes -> Blocks \cup {None}]
      BY <2>2 DEF HashBlocks
    <2> QED
      BY <2>1, <2>3 DEF HashBlocks, TypeOK
  <1>4. RefCountsHolders'
    BY DEF HashBlocks, RefCountsHolders, Holders
  <1>5. IndexSound'
    <2> SUFFICES ASSUME NEW p \in Hashes, index'[p] # None
                 PROVE  label'[index'[p]] = p
      BY DEF IndexSound
    <2>1. CASE \E b \in B : g[b] = p
      BY <1>0, <1>1, <2>1 DEF HashBlocks
    <2>2. CASE \A b \in B : g[b] # p
      <3>1. index'[p] = index[p] /\ index[p] \in Blocks /\ label[index[p]] = p
        BY <1>2, <2>2 DEF IndexSound, TypeOK
      <3>2. index[p] \notin B
        BY <3>1, Constants DEF HashBlocks
      <3> QED
        BY <3>1, <3>2 DEF HashBlocks
    <2> QED
      BY <2>1, <2>2
  <1>6. SharedIsPublished'
    BY Constants DEF HashBlocks, SharedIsPublished, Holders
  <1> QED
    BY <1>3, <1>4, <1>5, <1>6

(* Every step of the pool keeps the invariant. *)
LEMMA NextIInv == IInv /\ [Next]_vars => IInv'
  <1> SUFFICES ASSUME IInv, [Next]_vars PROVE IInv'
    OBVIOUS
  <1>1. CASE UNCHANGED vars
    BY <1>1 DEF vars, IInv, TypeOK, RefCountsHolders, IndexSound, SharedIsPublished, Holders
  <1>2. ASSUME NEW s \in Seqs, NEW hits \in SUBSET Blocks, NEW F \in SUBSET Blocks,
               Allocate(s, hits, F)
        PROVE  IInv'
    BY <1>2, AllocateIInv
  <1>3. ASSUME NEW s \in Seqs, NEW F \in SUBSET Blocks, MayAppend(s, F)
        PROVE  IInv'
    BY <1>3, MayAppendIInv
  <1>4. ASSUME NEW s \in Seqs, Deallocate(s)
        PROVE  IInv'
    BY <1>4, DeallocateIInv
  <1>5. ASSUME NEW s \in Seqs, NEW B \in SUBSET holds[s], NEW g \in [B -> Hashes],
               HashBlocks(s, B, g)
        PROVE  IInv'
    BY <1>5, HashBlocksIInv
  <1> QED
    BY <1>1, <1>2, <1>3, <1>4, <1>5 DEF Next

(* For any cache size and any requests: reference counts are exact, the    *)
(* prefix cache is sound, and only published blocks are shared.            *)
THEOREM PoolInvariant == Spec => []IInv
  BY InitIInv, NextIInv, PTL DEF Spec

(* The counts stay natural numbers and the index leads to blocks only: no  *)
(* block is given back more often than it was taken.                       *)
THEOREM TypeCorrect == Spec => []TypeOK
  <1>1. IInv => TypeOK
    BY DEF IInv
  <1> QED
    BY <1>1, PoolInvariant, PTL

(* A block is freed exactly when its last holder lets go of it. *)
THEOREM RefCounting == Spec => []RefCountsHolders
  <1>1. IInv => RefCountsHolders
    BY DEF IInv
  <1> QED
    BY <1>1, PoolInvariant, PTL

(* A prefix hit is always a block published under that prefix. *)
THEOREM PrefixCacheSound == Spec => []IndexSound
  <1>1. IInv => IndexSound
    BY DEF IInv
  <1> QED
    BY <1>1, PoolInvariant, PTL

(* No sequence ever writes a block that another one holds. *)
THEOREM NoSharedWrites == Spec => []SharedIsPublished
  <1>1. IInv => SharedIsPublished
    BY DEF IInv
  <1> QED
    BY <1>1, PoolInvariant, PTL

(* A published block keeps its prefix while it is held. *)
THEOREM PublishedStable == Spec => LabelsStable
  <1> DEFINE Stable == \A b \in Blocks :
                 (label[b] # None /\ b \in used /\ Holders(b)' # {}) => label'[b] = label[b]
  <1>1. IInv /\ [Next]_vars => [Stable]_vars
    <2> SUFFICES ASSUME IInv, Next PROVE Stable
      OBVIOUS
    <2>1. ASSUME NEW s \in Seqs, NEW hits \in SUBSET Blocks, NEW F \in SUBSET Blocks,
                 Allocate(s, hits, F)
          PROVE  Stable
      BY <2>1 DEF Allocate, Reset
    <2>2. ASSUME NEW s \in Seqs, NEW F \in SUBSET Blocks, MayAppend(s, F)
          PROVE  Stable
      BY <2>2 DEF MayAppend, Reset
    <2>3. ASSUME NEW s \in Seqs, Deallocate(s)
          PROVE  Stable
      BY <2>3 DEF Deallocate
    <2>4. ASSUME NEW s \in Seqs, NEW B \in SUBSET holds[s], NEW g \in [B -> Hashes],
                 HashBlocks(s, B, g)
          PROVE  Stable
      BY <2>4 DEF HashBlocks
    <2> QED
      BY <2>1, <2>2, <2>3, <2>4 DEF Next
  <1> QED
    BY <1>1, PoolInvariant, PTL DEF Spec, LabelsStable
=============================================================================
