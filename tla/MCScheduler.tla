----------------------------- MODULE MCScheduler -----------------------------
(***************************************************************************)
(* Values of Scheduler's constants for TLC.  Register contents are 0 or 1, *)
(* EntryEip is 2, installable handlers are at 10.                          *)
(***************************************************************************)
EXTENDS Scheduler

MCHandlers == {10}

(* One register file, which is also the entry context of the tasks. *)
OneCtx == {[eip |-> 2, esp |-> 6, vol |-> 0, keep |-> 0]}

(* A second one, at another instruction and stack depth and with other     *)
(* contents in the general registers.                                      *)
RegCtx == OneCtx \cup {[eip |-> 3, esp |-> 7, vol |-> 1, keep |-> 1]}
=============================================================================
