---------------------------- MODULE ReliableStream ----------------------------
(***************************************************************************)
(* What one direction of a connection promises its two applications: the   *)
(* reader gets, in order and unaltered, a growing prefix of what the       *)
(* writer wrote, and end-of-file after the last byte of a writer that has  *)
(* closed.  Bytes are counted; a reader that got anything but a prefix is  *)
(* in no state of this specification.                                      *)
(***************************************************************************)
EXTENDS Integers

VARIABLES written, closed, delivered, eof

vars == <<written, closed, delivered, eof>>

Init == written = 0 /\ closed = FALSE /\ delivered = 0 /\ eof = FALSE

Write ==
  /\ ~closed /\ written' > written
  /\ UNCHANGED <<closed, delivered, eof>>

Close ==
  /\ closed' = TRUE
  /\ UNCHANGED <<written, delivered, eof>>

Deliver ==
  /\ delivered' > delivered /\ delivered' <= written
  /\ UNCHANGED <<written, closed, eof>>

EndOfFile ==
  /\ closed /\ delivered = written /\ eof' = TRUE
  /\ UNCHANGED <<written, closed, delivered>>

Next == Write \/ Close \/ Deliver \/ EndOfFile

Spec == Init /\ [][Next]_vars

==============================================================================
