----------------------------- MODULE MCAlgorithms -----------------------------
(***************************************************************************)
(* The algorithms that depend on nothing else in the stack, each against a *)
(* reference definition: the block codec and its field, the options of a   *)
(* SYN, and the acceptance and reporting of out-of-order data.  Their      *)
(* states are independent, so a behaviour exercises one of them and leaves *)
(* the others where they begin.                                            *)
(***************************************************************************)
EXTENDS FecField

CONSTANTS MaxOptions, Lens, FirstSeq, Width, Window, SacksAllowed

VARIABLES area, placed, rcv_nxt, ofo_queue, sacks, sacklen, ack

Options == INSTANCE TcpOptions
Sack == INSTANCE TcpSack

\* Points that are accepted, zero, equal to a source point, and equal to each other.
MCRedXs == {<<255, 100>>, <<0, 9>>, <<2, 77>>, <<40, 40>>}

MCLens == <<1, 2, 1, 2, 1, 1, 1, 2, 1, 1, 1>>

allvars == <<vars, area, placed, rcv_nxt, ofo_queue, sacks, sacklen, ack>>

MCInit == Init /\ Options!Init /\ Sack!Init

MCNext ==
  \/ /\ Options!Init /\ Sack!Init /\ Next
     /\ UNCHANGED <<area, placed, rcv_nxt, ofo_queue, sacks, sacklen, ack>>
  \/ /\ tried = <<>> /\ Sack!Init /\ Options!Next
     /\ UNCHANGED <<vars, rcv_nxt, ofo_queue, sacks, sacklen, ack>>
  \/ /\ tried = <<>> /\ Options!Init /\ Sack!Next
     /\ UNCHANGED <<vars, area, placed>>

MCSpec == MCInit /\ [][MCNext]_allvars

\* The properties of the instances, see there: what is placed in an option area is what
\* tcp_walk_options finds in it.
WalkFindsWhatWasPlaced == Options!WalkFindsWhatWasPlaced

\* Not so: an option after SACK_OK is shadowed (tcp_write_syn_options).
SackOkShadows == Options!SackOkShadows

\* What a duplicate ACK reports is what waits out of order (tcp_calculate_sacks).
SackExact == Sack!SackExact

\* The segment that continues the stream is always accepted (tcp_verify_segment).
NextAccepted == Sack!NextAccepted
===============================================================================
