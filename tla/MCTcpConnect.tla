---------------------------- MODULE MCTcpConnect -----------------------------
(* The handshake for TLC.  Two segments of an earlier connection linger in   *)
(* the network: an acknowledged SYN and a reset, both beyond what the client *)
(* has sent now.                                                             *)
EXTENDS TcpConnect

MCOldSegments == {Ctl({"SYN", "ACK"}, 3, 9, TRUE), Ctl({"RST", "ACK"}, 0, 9, FALSE)}
==============================================================================
