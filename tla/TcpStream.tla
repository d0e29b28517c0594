------------------------------ MODULE TcpStream ------------------------------
(***************************************************************************)
(* Each direction of the connection implements a reliable byte stream.     *)
(***************************************************************************)
EXTENDS TcpConn

\* What the reader at e has got, -1 if it is no prefix of the peer's stream.
Got(e) == IF InOrder(e) THEN Delivered(e) ELSE -1

FromA == INSTANCE ReliableStream WITH
  written <- sk["A"].written, closed <- sk["A"].closed, delivered <- Got("B"), eof <- FinTaken("B")
FromB == INSTANCE ReliableStream WITH
  written <- sk["B"].written, closed <- sk["B"].closed, delivered <- Got("A"), eof <- FinTaken("A")

\* Whatever the network loses, repeats or reorders and whichever timers fire, each
\* step of tcp_send, tcp_close, tcp_input_state and the timer handlers writes,
\* closes, delivers the next bytes, reports end-of-file after the last one, or is
\* invisible to the applications.
ImplementsStream == FromA!Spec /\ FromB!Spec

==============================================================================
