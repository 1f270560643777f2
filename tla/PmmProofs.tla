------------------------------ MODULE PmmProofs ------------------------------
(***************************************************************************)
(* The frame bitmap is sound for any amount of memory, any reserved area   *)
(* and any sequence of calls.                                              *)
(***************************************************************************)
EXTENDS Pmm, FiniteSetTheorems, WellFoundedInduction, TLAPS

IInv == TypeOK /\ OwnedExact /\ FreeCountExact

-----------------------------------------------------------------------------
(* A non-empty set of numbers has a least element, so the loop of          *)
(* pmm_alloc_page that meets a clear bit stops at a definite frame.        *)
LEMMA LeastExists ==
  ASSUME NEW S, S \subseteq Nat, S # {}
  PROVE  \E x \in S : \A y \in S : x <= y
<1> DEFINE R == OpToRel(<, Nat)
<1>1. R = {ss \in Nat \X Nat : ss[1] < ss[2]}
  BY DEF OpToRel
<1>2. IsWellFoundedOn(R, Nat)
  BY NatLessThanWellFounded
<1> HIDE DEF R
<1>3. PICK x \in S : \A y \in S : ~(<<y, x>> \in R)
  BY <1>2, WFMin
<1>4. \A y \in S : ~(y < x)
  BY <1>1, <1>3
<1> QED
  BY <1>4

(* When a bit is clear, pmm_alloc_page returns a frame whose bit is clear. *)
LEMMA FrameIsFree ==
  ASSUME NEW p, p.total \in Nat, FreeFrames(p) # {}
  PROVE  Frame(p) \in FreeFrames(p)
<1>1. FreeFrames(p) \subseteq Nat
  BY DEF FreeFrames
<1>2. \E f \in FreeFrames(p) : \A g \in FreeFrames(p) : f <= g
  BY <1>1, LeastExists
<1> QED
  BY <1>2 DEF Frame

(* The clear bits below pmm_total_pages form a finite set. *)
LEMMA FreeSetFinite ==
  ASSUME TypeOK
  PROVE  /\ FreeFrames(pmm) = (0..(pmm.total - 1)) \ pmm.used
         /\ IsFiniteSet(FreeFrames(pmm))
<1>1. FreeFrames(pmm) = (0..(pmm.total - 1)) \ pmm.used
  BY DEF FreeFrames
<1>2. pmm.total - 1 \in Int
  BY FramesAssumption DEF TypeOK
<1>3. IsFiniteSet(0..(pmm.total - 1))
  BY <1>2, FS_Interval
<1>4. FreeFrames(pmm) \in SUBSET (0..(pmm.total - 1))
  BY <1>1
<1>5. IsFiniteSet(FreeFrames(pmm))
  BY <1>3, <1>4, FS_Subset
<1> QED
  BY <1>1, <1>5

-----------------------------------------------------------------------------
(* Before pmm_init there is no memory and nobody owns a frame. *)
LEMMA InitInv == Init => IInv
<1> SUFFICES ASSUME Init PROVE IInv
  OBVIOUS
<1> USE FramesAssumption DEF Init, NoMemory
<1>1. TypeOK
  BY DEF TypeOK, AllFrames
<1>2. OwnedExact
  BY DEF OwnedExact
<1>3. (0..(pmm.total - 1)) \ pmm.used = {}
  OBVIOUS
<1>4. FreeCountExact
  BY <1>3, FS_EmptySet DEF FreeCountExact
<1> QED
  BY <1>1, <1>2, <1>4 DEF IInv

(* pmm_init: the counter is the number of bits the second loop clears. *)
LEMMA StartPreserves ==
  ASSUME IInv, Start
  PROVE  IInv'
<1> USE FramesAssumption, PmmAssumption
<1>1. PICK m \in MemSizes : pmm' = pmm_init(m)
  BY DEF Start
<1> DEFINE total == total_pages(m)
           F     == PMM_RESERVED..(total - 1)
<1>2. total \in 0..PMM_MAX_PAGES /\ F \subseteq AllFrames
  BY DEF total_pages, AllFrames
<1>3. pmm' = [total |-> total, used |-> AllFrames \ F, free |-> Cardinality(F)]
  BY <1>1 DEF pmm_init
<1>4. total - 1 \in Int /\ PMM_RESERVED \in Int
  BY <1>2
<1> HIDE DEF total
<1>5. IsFiniteSet(F) /\ Cardinality(F) \in Nat
  BY <1>4, FS_Interval, FS_CardinalityType
<1>6. owned = {}
  BY DEF Start, IInv, OwnedExact, NoMemory
<1>7. TypeOK'
  BY <1>2, <1>3, <1>5, <1>6 DEF Start, TypeOK
<1>8. (0..(total - 1)) \ (AllFrames \ F) = F
  BY <1>2 DEF AllFrames
<1>9. FreeCountExact'
  BY <1>3, <1>8 DEF FreeCountExact
<1>10. OwnedExact'
  BY <1>3, <1>6 DEF OwnedExact, Start
<1> QED
  BY <1>7, <1>9, <1>10 DEF IInv

(* pmm_alloc_page: one clear bit less, one owned frame more, or nothing. *)
LEMMA AllocPreserves ==
  ASSUME IInv, AllocPage
  PROVE  IInv'
<1> USE FramesAssumption
<1>1. /\ FreeFrames(pmm) = (0..(pmm.total - 1)) \ pmm.used
      /\ IsFiniteSet(FreeFrames(pmm))
  BY FreeSetFinite DEF IInv
<1>2. CASE FreeFrames(pmm) = {}
  <2>1. UNCHANGED <<pmm, owned>> /\ ret' = 0
    BY <1>2 DEF AllocPage, pmm_alloc_page, Frame
  <2>2. TypeOK'
    BY <2>1, <1>2 DEF IInv, TypeOK, AllFrames, AllocPage
  <2>3. OwnedExact' /\ FreeCountExact'
    BY <2>1 DEF IInv, OwnedExact, FreeCountExact
  <2> QED
    BY <2>2, <2>3 DEF IInv
<1>3. CASE FreeFrames(pmm) # {}
  <2> DEFINE f == Frame(pmm)
  <2>1. f \in FreeFrames(pmm)
    BY <1>3, FrameIsFree DEF IInv, TypeOK
  <2>2. /\ f \in 0..(pmm.total - 1) /\ f \notin pmm.used /\ f \in AllFrames
        /\ pmm' = [pmm EXCEPT !.used = @ \cup {f}, !.free = @ - 1]
        /\ owned' = owned \cup {f} /\ ret' = f
    BY <1>3, <2>1 DEF AllocPage, pmm_alloc_page, FreeFrames, IInv, TypeOK, AllFrames
  <2> HIDE DEF f
  <2>3. pmm # NoMemory /\ f \in PMM_RESERVED..(pmm.total - 1)
    BY <2>2 DEF IInv, OwnedExact, NoMemory, TypeOK, AllFrames
  <2>4. /\ pmm'.total = pmm.total /\ pmm'.used = pmm.used \cup {f}
        /\ pmm'.free = pmm.free - 1
    BY <2>2 DEF IInv, TypeOK
  <2>5. (0..(pmm'.total - 1)) \ pmm'.used = FreeFrames(pmm) \ {f}
    BY <1>1, <2>4
  <2>6. /\ Cardinality(FreeFrames(pmm) \ {f}) = Cardinality(FreeFrames(pmm)) - 1
        /\ Cardinality(FreeFrames(pmm)) \in Nat /\ Cardinality(FreeFrames(pmm)) # 0
    BY <1>1, <1>3, <2>1, FS_RemoveElement, FS_CardinalityType, FS_EmptySet DEF f
  <2>7. FreeCountExact'
    BY <1>1, <2>4, <2>5, <2>6 DEF IInv, FreeCountExact
  <2>8. TypeOK'
    <3>1. pmm.free - 1 \in Nat
      BY <1>1, <2>6 DEF IInv, FreeCountExact
    <3>2. pmm' = [total |-> pmm.total, used |-> pmm.used \cup {f}, free |-> pmm.free - 1]
      BY <2>2 DEF IInv, TypeOK
    <3> QED
      BY <2>2, <3>1, <3>2 DEF IInv, TypeOK
  <2>9. OwnedExact'
    BY <2>2, <2>3, <2>4 DEF IInv, OwnedExact
  <2> QED
    BY <2>7, <2>8, <2>9 DEF IInv
<1> QED
  BY <1>2, <1>3

(* pmm_free_page: one clear bit more, unless it was clear already. *)
LEMMA FreePreserves ==
  ASSUME IInv, NEW f \in AllFrames, FreePage(f)
  PROVE  IInv'
<1> USE FramesAssumption
<1>1. /\ FreeFrames(pmm) = (0..(pmm.total - 1)) \ pmm.used
      /\ IsFiniteSet(FreeFrames(pmm))
  BY FreeSetFinite DEF IInv
<1>2. f \in 0..(pmm.total - 1) /\ f \in PMM_RESERVED..(pmm.total - 1) /\ pmm # NoMemory
  BY DEF FreePage, FreeFrames, IInv, OwnedExact, TypeOK, AllFrames, NoMemory
<1>3. owned' = owned \ {f} /\ ret' = -1
  BY DEF FreePage
<1>4. CASE f \in pmm.used
  <2>1. pmm' = [pmm EXCEPT !.used = @ \ {f}, !.free = @ + 1]
    BY <1>2, <1>4 DEF FreePage, pmm_free_page, IInv, TypeOK
  <2>2. /\ pmm'.total = pmm.total /\ pmm'.used = pmm.used \ {f}
        /\ pmm'.free = pmm.free + 1
    BY <2>1 DEF IInv, TypeOK
  <2>3. (0..(pmm'.total - 1)) \ pmm'.used = FreeFrames(pmm) \cup {f}
    BY <1>1, <1>2, <2>2
  <2>4. f \notin FreeFrames(pmm)
    BY <1>4 DEF FreeFrames
  <2>5. Cardinality(FreeFrames(pmm) \cup {f}) = Cardinality(FreeFrames(pmm)) + 1
    BY <1>1, <2>4, FS_AddElement
  <2>6. FreeCountExact'
    BY <1>1, <2>2, <2>3, <2>5 DEF IInv, FreeCountExact
  <2>7. TypeOK'
    <3>1. pmm' = [total |-> pmm.total, used |-> pmm.used \ {f}, free |-> pmm.free + 1]
      BY <2>1 DEF IInv, TypeOK
    <3> QED
      BY <1>3, <3>1 DEF IInv, TypeOK
  <2>8. pmm' # NoMemory
    BY <1>2, <2>2 DEF NoMemory, IInv, TypeOK
  <2>9. OwnedExact'
    BY <1>2, <1>3, <2>2, <2>8 DEF IInv, OwnedExact
  <2> QED
    BY <2>6, <2>7, <2>9 DEF IInv
<1>5. CASE f \notin pmm.used
  <2>1. pmm' = pmm
    BY <1>5 DEF FreePage, pmm_free_page
  <2>2. f \notin owned
    BY <1>2, <1>5 DEF IInv, OwnedExact
  <2>3. owned' = owned
    BY <1>3, <2>2
  <2> QED
    BY <1>3, <2>1, <2>3 DEF IInv, TypeOK, OwnedExact, FreeCountExact
<1> QED
  BY <1>4, <1>5

(* Every call of the allocator keeps the invariant. *)
LEMMA StepInv == IInv /\ [Next]_vars => IInv'
<1> SUFFICES ASSUME IInv, [Next]_vars PROVE IInv'
  OBVIOUS
<1>1. CASE Start
  BY <1>1, StartPreserves
<1>2. CASE AllocPage
  BY <1>2, AllocPreserves
<1>3. ASSUME NEW f \in AllFrames, FreePage(f) PROVE IInv'
  BY <1>3, FreePreserves
<1>4. CASE UNCHANGED vars
  BY <1>4 DEF vars, IInv, TypeOK, OwnedExact, FreeCountExact
<1> QED
  BY <1>1, <1>2, <1>3, <1>4 DEF Next

-----------------------------------------------------------------------------
(* The inductive invariant holds in every reachable state. *)
THEOREM Invariance == Spec => []IInv
BY InitInv, StepInv, PTL DEF Spec

(* Every variable keeps its type: pmm_alloc_page never returns a frame     *)
(* outside the bitmap.                                                     *)
THEOREM TypeCorrect == Spec => []TypeOK
<1>1. IInv => TypeOK
  BY DEF IInv
<1> QED
  BY <1>1, Invariance, PTL

(* pmm_free_count is exact, whatever the callers do. *)
THEOREM FreeCountCorrect == Spec => []FreeCountExact
<1>1. IInv => FreeCountExact
  BY DEF IInv
<1> QED
  BY <1>1, Invariance, PTL

(* No frame has two owners, and none of the reserved frames has any. *)
THEOREM OwnershipCorrect == Spec => []OwnedExact
<1>1. IInv => OwnedExact
  BY DEF IInv
<1> QED
  BY <1>1, Invariance, PTL

(* pmm_alloc_page hands out a frame nobody holds, and 0 only when all      *)
(* frames are taken.                                                       *)
THEOREM AllocCorrect == Spec => AllocExclusive
<1> DEFINE A == ret' # -1 =>
                  IF ret' = 0 THEN PMM_RESERVED..(pmm.total - 1) \subseteq owned
                              ELSE ret' \notin owned /\ ret' \in owned'
<1>1. IInv /\ [Next]_vars => [A]_vars
  <2> SUFFICES ASSUME IInv, Next PROVE A
    OBVIOUS
  <2> USE FramesAssumption
  <2>1. CASE Start
    BY <2>1 DEF Start
  <2>2. CASE AllocPage
    <3>1. CASE FreeFrames(pmm) = {}
      <4>1. ret' = 0 /\ PMM_RESERVED..(pmm.total - 1) \subseteq pmm.used
        BY <2>2, <3>1 DEF AllocPage, Frame, FreeFrames, IInv, TypeOK
      <4>2. pmm = NoMemory => PMM_RESERVED..(pmm.total - 1) = {}
        BY DEF NoMemory
      <4> QED
        BY <4>1, <4>2 DEF IInv, OwnedExact
    <3>2. CASE FreeFrames(pmm) # {}
      <4>1. ret' = Frame(pmm) /\ owned' = owned \cup {Frame(pmm)} /\ Frame(pmm) \in FreeFrames(pmm)
        BY <2>2, <3>2, FrameIsFree DEF AllocPage, IInv, TypeOK
      <4>2. ret' \in 0..(pmm.total - 1) /\ ret' \notin pmm.used /\ pmm # NoMemory
        BY <4>1 DEF FreeFrames, NoMemory
      <4>3. ret' # 0 /\ ret' \notin owned
        BY <4>2 DEF IInv, OwnedExact, TypeOK, AllFrames
      <4> QED
        BY <4>1, <4>3
    <3> QED
      BY <3>1, <3>2
  <2>3. ASSUME NEW f \in AllFrames, FreePage(f) PROVE A
    BY <2>3 DEF FreePage
  <2> QED
    BY <2>1, <2>2, <2>3 DEF Next
<1> QED
  BY <1>1, Invariance, PTL DEF Spec, AllocExclusive
=============================================================================
