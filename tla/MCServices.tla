------------------------------ MODULE MCServices ------------------------------
(***************************************************************************)
(* The services around the protocol: the control socket between an         *)
(* application and the stack, the reader of a connection and the           *)
(* resolution of neighbours, each with threads of its own, and the         *)
(* checksum of every packet.  Their states are independent, so a behaviour *)
(* exercises one of them and leaves the others where they begin; each      *)
(* keeps its own fairness.                                                 *)
(***************************************************************************)
EXTENDS Ipc, Checksum

CONSTANTS SkbSizes, ReadSizes, ReadBytes, NonBlock, Rebuilt,
          Neighbours, Us, Movers, MaxMoves, MaxLoss, MaxCalls

ASSUME ServicesAssumption ==
  /\ SkbSizes \subseteq Nat /\ ReadSizes \subseteq Nat /\ ReadBytes \in Nat
  /\ NonBlock \subseteq BOOLEAN /\ Rebuilt \subseteq BOOLEAN

VARIABLES service,      \* the one that is exercised
          rcv, reader, arrived, pushed, got,
          arp_cache, tx, waiting, frames, requests, replies, inbox, moves, lost, calls

Read == INSTANCE TcpRead WITH MaxBytes <- ReadBytes
Neigh == INSTANCE Arp

readvars == <<rcv, reader, arrived, pushed, got>>
arpvars == <<arp_cache, tx, waiting, frames, requests, replies, inbox, moves, lost, calls>>

MCInit ==
  /\ service \in {"ipc", "read", "arp", "checksum"}
  /\ Init /\ Read!Init /\ Neigh!Init /\ ChecksumInit

MCNext ==
  \/ /\ service = "ipc" /\ Next
     /\ UNCHANGED <<service, rcv, reader, arrived, pushed, got, words, saddr, daddr>>
     /\ UNCHANGED <<arp_cache, tx, waiting, frames, requests, replies, inbox, moves, lost, calls>>
  \/ /\ service = "read" /\ Read!Next
     /\ UNCHANGED <<service, req, resp, cl, srv, app, words, saddr, daddr>>
     /\ UNCHANGED <<arp_cache, tx, waiting, frames, requests, replies, inbox, moves, lost, calls>>
  \/ /\ service = "arp" /\ Neigh!Next
     /\ UNCHANGED <<service, req, resp, cl, srv, app, words, saddr, daddr>>
     /\ UNCHANGED <<rcv, reader, arrived, pushed, got>>
  \/ /\ service = "checksum" /\ ChecksumNext
     /\ UNCHANGED <<service, req, resp, cl, srv, app, rcv, reader, arrived, pushed, got>>
     /\ UNCHANGED <<arp_cache, tx, waiting, frames, requests, replies, inbox, moves, lost, calls>>

\* The fairness of each service, where it is the one that is exercised.
MCFairness ==
  /\ WF_vars(service = "ipc" /\ Server)
  /\ \A c \in Callers : WF_vars(service = "ipc" /\ CallerSends(c)) /\ WF_vars(service = "ipc" /\ Answered(c))
  /\ WF_readvars(service = "read" /\ Read!Resume)
  /\ WF_arpvars(service = "arp" /\ Neigh!Copies) /\ WF_arpvars(service = "arp" /\ Neigh!Receives)
  /\ \A n \in Neighbours : /\ WF_arpvars(service = "arp" /\ Neigh!Answers(n))
                           /\ SF_arpvars(service = "arp" /\ Neigh!NotResolved(n))
                           /\ SF_arpvars(service = "arp" /\ Neigh!Resolved(n))

MCSpec == MCInit /\ [][MCNext]_<<service, vars, readvars, arpvars, checkvars>> /\ MCFairness

\* The properties of the instances, see there: a read returns the bytes of the
\* stream in their order (tcp_data_dequeue).
ReadsAreExact == Read!ReadsAreExact

\* poll() reports what a read would return (tcp_data_dequeue, tcp_poll).
PollSeesData == Read!PollSeesData

\* Pushed data ends a blocking read (tcp_receive).
PushedDataReturned == Read!PushedDataReturned

\* A neighbour has one entry in the cache (arp_rcv).
OneEntryEach == Neigh!OneEntryEach

\* The address of a frame is made of halves the neighbour announced (dst_neigh_output).
FrameHalvesAnnounced == Neigh!FrameHalvesAnnounced

\* A packet that is sent again and again leaves (ip_output, arp_request).
RetriedPacketGoesOut == <>[](service = "arp" => Neigh!AllOut)

\* Not so: without text left a read in CLOSE_WAIT is answered at once (tcp_read).
NoTextNoSleep == Read!NoTextNoSleep

\* Not so: a read does not sleep once TCP_FIN is set (tcp_input_state, TIME_WAIT).
FinEndsSleep == Read!FinEndsSleep

\* Not so: a frame carries one address of its neighbour whole (arp_get_hwaddr).
FrameToItsNeighbour == Neigh!FrameToItsNeighbour
===============================================================================
