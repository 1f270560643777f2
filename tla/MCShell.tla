------------------------------ MODULE MCShell -------------------------------
(***************************************************************************)
(* A small alphabet for Shell: '2' and '3' are digits and also the words   *)
(* of cat and raise, and '2' is the key that Ctrl turns into SIGINT.  With *)
(* INT_MAX = 7 the arguments 2, 3, 22, 23, 32 and 33 are the int values 2  *)
(* (SIGINT), 3 (SIGUSR1), 6 (SIGTERM), 7 (no signal), 0 (refused by the    *)
(* shell) and 1 (a signal without handler, lower than SIGINT).             *)
(***************************************************************************)
EXTENDS Shell

CatWord   == <<2>>
RaiseWord == <<3>>
=============================================================================
