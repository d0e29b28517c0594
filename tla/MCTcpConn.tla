------------------------------ MODULE MCTcpConn ------------------------------
(* The connection model for TLC; every run gives the constants in its cfg.  *)
EXTENDS TcpStream, TcpOneWay
==============================================================================
