-------------------------------- MODULE Pmm ---------------------------------
(***************************************************************************)
(* mm/pmm.c under any sequence of calls.  A caller frees frames it was     *)
(* given, possibly more than once, as long as the frame has not been given *)
(* out again in between.                                                   *)
(***************************************************************************)
EXTENDS Frames

CONSTANT MemSizes    \* memory sizes pmm_init may be called with

ASSUME PmmAssumption == MemSizes \subseteq Nat

VARIABLES
  pmm,      \* the bitmap and its counters
  owned,    \* history: frames handed out and not freed
  ret       \* what the last pmm_alloc_page returned; -1 after any other call

vars == <<pmm, owned, ret>>

Init == pmm = NoMemory /\ owned = {} /\ ret = -1

(* kmain calls pmm_init once, before anything is allocated. *)
Start ==
  /\ pmm = NoMemory
  /\ \E m \in MemSizes : pmm' = pmm_init(m)
  /\ ret' = -1 /\ UNCHANGED owned

AllocPage ==
  /\ ret' = Frame(pmm)
  /\ owned' = IF FreeFrames(pmm) = {} THEN owned ELSE owned \cup {Frame(pmm)}
  /\ pmm' = pmm_alloc_page(pmm)

FreePage(f) ==
  /\ f \in owned \cup FreeFrames(pmm) /\ f >= PMM_RESERVED
  /\ pmm' = pmm_free_page(pmm, f)
  /\ owned' = owned \ {f} /\ ret' = -1

Next == Start \/ AllocPage \/ \E f \in AllFrames : FreePage(f)

Spec == Init /\ [][Next]_vars

-----------------------------------------------------------------------------
(* Every variable has its type, and the bitmap has a bit for every frame   *)
(* that may be handed out.                                                 *)
TypeOK ==
  /\ pmm \in [total : 0..PMM_MAX_PAGES, used : SUBSET AllFrames, free : Nat]
  /\ owned \subseteq AllFrames /\ ret \in AllFrames \cup {-1}

(* pmm_free_count tells the truth: the counter that pmm_init, alloc and    *)
(* free each adjust on their own is the number of clear bits, also when    *)
(* memory ends below the reserved area or beyond the bitmap and when a     *)
(* frame is freed twice.                                                   *)
FreeCountExact == pmm.free = Cardinality((0..(pmm.total - 1)) \ pmm.used)

(* The frames in use are those the callers hold and the ones pmm_init set  *)
(* aside: a frame is never handed to two callers, and the kernel's first   *)
(* frames are never handed out.                                            *)
OwnedExact ==
  /\ owned \subseteq PMM_RESERVED..(pmm.total - 1)
  /\ pmm # NoMemory => pmm.used = owned \cup (AllFrames \ (PMM_RESERVED..(pmm.total - 1)))

(* pmm_alloc_page returns 0, its out-of-memory mark, only when every frame *)
(* above the reserved ones is held by a caller; otherwise it returns a     *)
(* frame that nobody held.                                                 *)
AllocExclusive ==
  [][ret' # -1 =>
       IF ret' = 0 THEN PMM_RESERVED..(pmm.total - 1) \subseteq owned
                   ELSE ret' \notin owned /\ ret' \in owned']_vars
=============================================================================
