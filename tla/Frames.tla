------------------------------- MODULE Frames -------------------------------
(***************************************************************************)
(* The page-frame bitmap of mm/pmm.c as functions of its state             *)
(*   p.total  pmm_total_pages                                              *)
(*   p.used   the frames whose bit is 1                                    *)
(*   p.free   pmm_free_pages                                               *)
(* Memory is counted in frames.                                            *)
(***************************************************************************)
EXTENDS Integers, FiniteSets

CONSTANTS
  PMM_MAX_PAGES,   \* frames the bitmap covers
  PMM_RESERVED     \* frames kept for the kernel

ASSUME FramesAssumption ==
  PMM_MAX_PAGES \in Nat \ {0} /\ PMM_RESERVED \in Nat \ {0}

AllFrames == 0..(PMM_MAX_PAGES - 1)

(* static initialisation: an empty bitmap of no memory *)
NoMemory == [total |-> 0, used |-> {}, free |-> 0]

(* Mutated form: more memory than the bitmap covers. *)
mut_total(mem_size) == mem_size

(* mem_size, cut to what the bitmap covers *)
total_pages(mem_size) == IF mem_size > PMM_MAX_PAGES THEN PMM_MAX_PAGES ELSE mem_size

pmm_init(mem_size) ==
  LET total == total_pages(mem_size)
      free  == PMM_RESERVED..(total - 1) IN
  [total |-> total, used |-> AllFrames \ free, free |-> Cardinality(free)]

(* Mutated form: the scan of the bitmap stops one frame early. *)
mut_FreeFrames(p) == {f \in 0..(p.total - 2) : f \notin p.used}

(* the clear bits that the loop of pmm_alloc_page meets *)
FreeFrames(p) == {f \in 0..(p.total - 1) : f \notin p.used}

(* what pmm_alloc_page returns: the first free frame, or 0 *)
Frame(p) ==
  IF FreeFrames(p) = {} THEN 0
  ELSE CHOOSE f \in FreeFrames(p) : \A g \in FreeFrames(p) : f <= g

(* Mutated form: the bit is not set. *)
mut_pmm_alloc_page(p) == IF FreeFrames(p) = {} THEN p ELSE [p EXCEPT !.free = @ - 1]

(* and what it does to the bitmap *)
pmm_alloc_page(p) ==
  IF FreeFrames(p) = {} THEN p
  ELSE [p EXCEPT !.used = @ \cup {Frame(p)}, !.free = @ - 1]

(* Mutated form: a free frame is counted again. *)
mut_pmm_free_page(p, f) == [p EXCEPT !.used = @ \ {f}, !.free = @ + 1]

pmm_free_page(p, f) ==
  IF f < p.total /\ f \in p.used
  THEN [p EXCEPT !.used = @ \ {f}, !.free = @ + 1]
  ELSE p
=============================================================================
