------------------------------ MODULE Sectors -------------------------------
(***************************************************************************)
(* What the disk driver promises its callers: numbered sectors that are    *)
(* read and written whole, one request at a time.                          *)
(***************************************************************************)
CONSTANTS Numbers, Contents

VARIABLES
  store,   \* the contents of each sector
  req,     \* the request: operation, sector and, for a write, the contents
  reply,   \* what the last read returned
  failed   \* the device has failed at least once

vars == <<store, req, reply, failed>>

None == [op |-> "none"]
Reqs == [op : {"read"}, sector : Numbers]
          \cup [op : {"write", "written"}, sector : Numbers, data : Contents]

Init == store \in [Numbers -> Contents] /\ req = None
        /\ reply \in Contents \cup {0} /\ failed = FALSE

Ask ==
  /\ req = None
  /\ req' \in Reqs /\ req'.op # "written"
  /\ UNCHANGED <<store, reply, failed>>

(* the contents of the sector at some moment of the request *)
AnswerRead ==
  /\ req.op = "read"
  /\ reply' = store[req.sector] /\ req' = None
  /\ UNCHANGED <<store, failed>>

Write ==
  /\ req.op = "write"
  /\ store' = [store EXCEPT ![req.sector] = req.data]
  /\ req' = [req EXCEPT !.op = "written"]
  /\ UNCHANGED <<reply, failed>>

(* A device that has failed may lose writes; it never returns wrong data. *)
AnswerWrite ==
  /\ req.op = "written" \/ (req.op = "write" /\ failed)
  /\ req' = None
  /\ UNCHANGED <<store, reply, failed>>

Fail == failed' = TRUE /\ UNCHANGED <<store, req, reply>>

Next == Ask \/ AnswerRead \/ Write \/ AnswerWrite \/ Fail

Spec == Init /\ [][Next]_vars
=============================================================================
